--------------------------- MODULE VoyageMission ----------------------------
(***************************************************************************)
(* The durable mission of one ship: internal/engine/mission.go             *)
(* (driveMission and what it calls), results.go (what a receipt or a       *)
(* refusal does to the mission), journal.go (evidence that stands in for   *)
(* a lost receipt), procurement.go (unwinding).                            *)
(*                                                                         *)
(* A pass captures the world, then takes one step of the mission; every    *)
(* step is one durable write, so a process death loses the capture only.   *)
(* The life of a request is ActionJournal's: here it is carried out at     *)
(* most once, and its answer may be lost, unreadable or a refusal.  There  *)
(* are two ports, one commodity, one freight contract of one ton for Away  *)
(* and a charter there.  Prices are one per ton.  Holds are steps that     *)
(* are not taken.                                                          *)
(***************************************************************************)
EXTENDS Naturals

CONSTANTS
    Home, Away,     \* ports
    None,
    Lot,            \* tons a plan may buy
    MaxMissions,    \* bound on missions
    MaxLosses,      \* bound on tons lost at sea and on sinkings
    MaxTerms,       \* bound on changes of the charter's terms
    MaxGarbled      \* bound on successes without a readable receipt

Ports == {Home, Away}

ASSUME VoyageAssumption ==
    /\ Home # Away /\ None \notin Ports \cup Nat
    /\ {Lot, MaxMissions, MaxLosses, MaxTerms, MaxGarbled} \subseteq Nat /\ Lot > 0

VARIABLES
    w,          \* the world: ship, hold, stores, contract, charter
    seen,       \* this pass's capture of it, or None
    m,          \* the mission row, or None
    act,        \* the row's unresolved action, or None
    missions,   \* generations minted
    \* bounds and history
    losses, garbled,
    moved,      \* what this mission's requests really cost and earned
    lossy       \* cargo was lost while the contract was active

vars == <<w, seen, m, act, missions, losses, garbled, moved, lossy>>

Tons     == 0..(Lot + 1)
Statuses == {"berthed", "roadstead", "sailing", "sunk"}
Terminal == {"completed", "defaulted"}
World == [status : Statuses, port : Ports, to : Ports, cargo : Tons, stores : BOOLEAN,
          contract : {"open", "taken", "active"} \cup Terminal,   \* taken: by another carrier
          charter : BOOLEAN, terms : 0..MaxTerms]

Phases == {"provision", "buy", "freight", "depart", "sailing", "arrival", "tender_wait",
           "closing", "settling", "settled"}
Books  == [out : Nat, in : Nat]
Mission == [phase : Phases, kind : {"voyage", "aborted", "recovery"},
            origin : Ports \cup {None}, dest : Ports,
            quantity : Tons, bought : Tons,
            wants : BOOLEAN,                        \* FreightIDs
            sealed : 0..2, open : 0..2,             \* Freight, and those not Settled
            refused : BOOLEAN,                      \* TenderRefused
            departed : Tons, eligible : Tons,
            badTerms : 0..MaxTerms \cup {None},     \* RejectedCharterTerms
            acted : BOOLEAN,                        \* LastActionID
            books : Books, known : BOOLEAN,         \* CostsKnown
            settlement : [books : Books, known : BOOLEAN] \cup {None}]

Stages == {"buy", "provision", "accept-freight", "depart", "dock", "offshore", "deliver-freight",
           "deliver-charter", "sell"}
Action == [stage : Stages, qty : Tons, to : Ports, before : [port : Ports, cargo : Tons],
           st : {"staged", "pending", "receipt", "garbled", "refused", "throttled"},
           done : BOOLEAN,                          \* the server carried it out
           fill : Tons]

\* None is none of the records it may stand in the place of.
ASSUME VoyageNone ==
    None \notin World \cup Mission \cup Action \cup [books : Books, known : BOOLEAN]

TypeOK ==
    /\ w \in World /\ seen \in World \cup {None}
    /\ m \in Mission \cup {None} /\ act \in Action \cup {None} /\ (m = None => act = None)
    /\ missions \in 0..MaxMissions /\ losses \in 0..MaxLosses /\ garbled \in 0..MaxGarbled
    /\ moved \in [out : Nat, in : Nat, buys : Nat] /\ lossy \in BOOLEAN

\* The account may start with ships under way, loaded or sealed.
Init ==
    /\ w \in {x \in World :
                /\ x.terms = 0 /\ x.charter /\ x.status # "sunk" /\ x.cargo \in {0, 1}
                /\ x.status = "sailing" <=> x.to # x.port
                /\ x.contract \in {"open", "active"} /\ (x.contract = "active" => x.cargo = 1)}
    /\ seen = None /\ m = None /\ act = None /\ missions = 0
    /\ losses = 0 /\ garbled = 0 /\ moved = [out |-> 0, in |-> 0, buys |-> 0] /\ lossy = FALSE

-----------------------------------------------------------------------------
(* The world (external) *)

ship  == <<seen, m, act, missions, garbled>>
world == <<w, garbled, moved, lossy>>

\* The crossing may have eaten the stores.
Arrive ==
    /\ w.status = "sailing"
    /\ \E left \in {w.stores, FALSE} :
          w' = [w EXCEPT !.status = "roadstead", !.port = w.to, !.stores = left]
    /\ UNCHANGED <<ship, losses, moved, lossy>>

LoseCargo ==
    /\ w.status = "sailing" /\ w.cargo > 0 /\ losses < MaxLosses
    /\ w' = [w EXCEPT !.cargo = @ - 1]
    /\ losses' = losses + 1 /\ lossy' = TRUE
    /\ UNCHANGED <<ship, moved>>

Sink ==
    /\ w.status = "sailing" /\ losses < MaxLosses
    /\ w' = [w EXCEPT !.status = "sunk", !.cargo = 0]
    /\ losses' = losses + 1 /\ lossy' = TRUE
    /\ UNCHANGED <<ship, moved>>

\* The delivery deadline passes: the collateral is gone, the cargo may be.
Default ==
    /\ w.contract = "active"
    /\ \E left \in {w.cargo} \cup {c \in Tons : c + 1 = w.cargo} :
          w' = [w EXCEPT !.contract = "defaulted", !.cargo = left]
    /\ moved' = [moved EXCEPT !.out = @ + 1]
    /\ UNCHANGED <<ship, losses, lossy>>

\* Only while the mission wants it: else it makes no difference.
OtherCarrier ==
    /\ w.contract = "open" /\ m # None /\ m.wants
    /\ w' = [w EXCEPT !.contract = "taken"]
    /\ UNCHANGED <<ship, losses, moved, lossy>>

\* Only when a refusal is due or remembered: else it makes no difference.
NewTerms ==
    /\ w.terms < MaxTerms /\ w.charter /\ m # None
    /\ m.badTerms = w.terms \/ (act # None /\ act.stage = "deliver-charter")
    /\ w' = [w EXCEPT !.terms = @ + 1]
    /\ UNCHANGED <<ship, losses, moved, lossy>>

-----------------------------------------------------------------------------
(* The request *)

Stationary(x) == x.status \in {"berthed", "roadstead"}

\* What the server requires of a request.
Possible(a) ==
    CASE a.stage \in {"buy", "provision", "offshore", "sell"} -> w.status = "berthed"
      [] a.stage = "accept-freight"  -> w.status = "berthed" /\ w.contract = "open" /\ w.cargo <= Lot
      [] a.stage = "depart"          -> Stationary(w) /\ w.stores
      [] a.stage = "dock"            -> w.status = "roadstead"
      [] a.stage = "deliver-freight" -> Stationary(w) /\ w.port = Away /\ w.contract = "active" /\ w.cargo > 0
      [] a.stage = "deliver-charter" -> Stationary(w) /\ w.port = Away /\ w.charter

\* What it may fill of an order.
Fills(a) ==
    CASE a.stage = "buy"                            -> {n \in 0..a.qty : w.cargo + n <= Lot + 1}
      [] a.stage = "provision"                      -> {0, 1}
      [] a.stage = "sell"                           -> {n \in 0..a.qty : n <= w.cargo}
      [] a.stage = "deliver-charter"                -> {n \in 1..a.qty : n <= w.cargo}
      [] OTHER                                      -> {1}

Effect(a, n) ==
    CASE a.stage = "buy"             -> [w EXCEPT !.cargo = @ + n]
      [] a.stage = "provision"       -> [w EXCEPT !.stores = @ \/ n > 0]
      [] a.stage = "offshore"        -> [w EXCEPT !.status = "roadstead"]
      [] a.stage = "sell"            -> [w EXCEPT !.cargo = @ - n]
      [] a.stage = "accept-freight"  -> [w EXCEPT !.contract = "active", !.cargo = @ + 1]
      [] a.stage = "depart"          -> [w EXCEPT !.status = "sailing", !.to = a.to]
      [] a.stage = "dock"            -> [w EXCEPT !.status = "berthed"]
      [] a.stage = "deliver-freight" -> [w EXCEPT !.contract = "completed", !.cargo = @ - 1]
      [] a.stage = "deliver-charter" -> [w EXCEPT !.charter = FALSE, !.cargo = @ - n]

Outlay(a, n)  == IF a.stage \in {"buy", "provision"} THEN n ELSE 0
Revenue(a, n) == IF a.stage \in {"sell", "deliver-charter", "deliver-freight"} THEN n ELSE 0

\* The capture shows what the request asked for; orders leave no such trace.
Observed(x) ==
    CASE act.stage = "depart"   -> \/ x.status = "sailing" /\ x.to = act.to
                                   \/ Stationary(x) /\ x.port = act.to /\ act.before.port # act.to
      [] act.stage = "offshore" -> x.status = "roadstead" /\ x.port = act.before.port
      [] act.stage = "dock"     -> x.status = "berthed" /\ x.port = act.before.port
      [] act.stage = "accept-freight"  -> x.contract = "active"
      [] act.stage = "deliver-freight" -> x.contract \in Terminal
      [] OTHER                  -> FALSE

\* The server carries the request out.
Carry(n, st) ==
    /\ ~act.done /\ Possible(act) /\ n \in Fills(act)
    /\ w' = Effect(act, n)
    /\ moved' = [out |-> moved.out + Outlay(act, n), in |-> moved.in + Revenue(act, n),
                 buys |-> IF act.stage = "buy" /\ n > 0 THEN moved.buys + 1 ELSE moved.buys]
    /\ lossy' = IF act.stage = "accept-freight" THEN FALSE ELSE lossy
    /\ act' = [act EXCEPT !.done = TRUE, !.st = st, !.fill = n]
    /\ garbled' = IF st = "garbled" THEN garbled + 1 ELSE garbled

Answer(st) ==
    /\ act' = [act EXCEPT !.st = st]
    /\ UNCHANGED world

\* dispatch: a request that may have arrived is looked for in the capture
\* before it is sent again, under the same key.  The answer may be lost, or a
\* success that cannot be read; a stored answer is given again.
Send ==
    /\ act # None /\ seen # None /\ act.st \in {"staged", "pending"}
    /\ act.st = "pending" => ~Observed(seen)
    /\ \/ \E n \in Tons, st \in {"receipt", "garbled", "pending"} :
             (st = "garbled" => garbled < MaxGarbled) /\ Carry(n, st)
       \/ ~act.done /\ \E st \in {"refused", "throttled", "pending"} : Answer(st)
       \/ act.done /\ Answer("receipt")
    /\ seen' = IF act'.st = "pending" THEN None ELSE seen
    /\ UNCHANGED <<m, missions, losses>>

\* A request given up as lost is carried out late.
CarryLate ==
    /\ act # None /\ act.st = "pending"
    /\ \E n \in Tons : Carry(n, "pending")
    /\ UNCHANGED <<seen, m, missions, losses>>

-----------------------------------------------------------------------------
(* The pass *)

\* work: active freight that the mission does not know is adopted.
Adopted(x) ==
    IF m # None /\ x.contract = "active" /\ m.sealed = 0
    THEN [m EXCEPT !.sealed = 1, !.open = 1, !.known = FALSE]
    ELSE m

\* A new pass, after any number of process deaths.
Capture ==
    /\ seen' = w /\ m' = Adopted(w)
    /\ UNCHANGED <<world, losses, act, missions>>

\* Every step that changes the mission ends the pass.
Save(row) ==
    /\ m' = row /\ seen' = None /\ act' = None
    /\ UNCHANGED <<world, losses, missions>>

Stage(row, stage, qty) ==
    /\ m' = row /\ seen' = None
    /\ act' = [stage |-> stage, qty |-> qty, to |-> row.dest,
                before |-> [port |-> seen.port, cargo |-> seen.cargo],
                st |-> "staged", done |-> FALSE, fill |-> 0]
    /\ UNCHANGED <<world, losses, missions>>

-----------------------------------------------------------------------------
(* Outcomes: dispatch, consumeResult, consumeRejection, reconcileObservedAction *)

\* replanUnsentAction: only what was never sent is given up; the pass goes on.
Veto ==
    /\ act # None /\ seen # None /\ act.st = "staged"
    /\ act' = None
    /\ UNCHANGED <<world, losses, seen, m, missions>>

Minus(a, b) == IF a >= b THEN a - b ELSE 0

\* Mutant: each order's cost replaces the one before.
PaidLast(row, n) == [row EXCEPT !.books.out = n]

\* recordTradeCosts
Paid(row, n) == [row EXCEPT !.books.out = @ + n]
Earned(row, n) == [row EXCEPT !.books.in = @ + n]

\* A fill, partial or none, completes the purchase.
AfterBuy(row, n) == [Paid(row, n) EXCEPT !.bought = n, !.quantity = n, !.phase = "freight"]

\* The row after a receipt.
AfterReceipt(row) ==
    LET n == act.fill IN
    CASE act.stage = "buy"             -> AfterBuy(row, n)
      [] act.stage = "provision"       -> Paid(row, n)
      [] act.stage = "sell"            -> [Earned(row, n) EXCEPT !.eligible = Minus(@, n)]
      [] act.stage = "accept-freight"  -> [row EXCEPT !.sealed = @ + 1, !.open = @ + 1]
      [] act.stage = "deliver-freight" -> [Earned(row, n) EXCEPT !.open = Minus(@, 1), !.phase = "arrival"]
      [] act.stage = "deliver-charter" -> [Earned(row, n) EXCEPT !.eligible = Minus(@, n), !.phase = "arrival"]
      [] act.stage = "depart"          -> [row EXCEPT !.departed = act.before.cargo, !.phase = "sailing"]
      [] act.stage \in {"dock", "offshore"} -> row

ConsumeReceipt ==
    /\ act # None /\ seen # None /\ act.st = "receipt"
    /\ act.stage = "deliver-freight" => m.open > 0       \* else held
    /\ \E debt \in {FALSE, act.stage = "depart"} :      \* unpaid berth dues
          Save([AfterReceipt(m) EXCEPT !.acted = TRUE, !.known = @ /\ ~debt])

\* Mutant: a refused charter is tried again.
AfterRefusalForgettingCharter(row) ==
    CASE act.stage = "buy"             -> [row EXCEPT !.phase = "freight"]
      [] act.stage = "accept-freight"  -> [row EXCEPT !.wants = FALSE]
      [] act.stage = "deliver-freight" -> [row EXCEPT !.refused = TRUE, !.phase = "tender_wait"]
      [] OTHER                         -> row

\* applyRejectedResult: what a refusal is about is not asked for again; a
\* charter's refusal holds for its observed terms.
AfterRefusal(row) ==
    CASE act.stage = "buy"             -> [row EXCEPT !.phase = "freight"]
      [] act.stage = "accept-freight"  -> [row EXCEPT !.wants = FALSE]
      [] act.stage = "deliver-freight" -> [row EXCEPT !.refused = TRUE, !.phase = "tender_wait"]
      [] act.stage = "deliver-charter" -> [row EXCEPT !.badTerms = seen.terms]
      [] OTHER                         -> row

ConsumeRejection ==
    /\ act # None /\ seen # None /\ act.st \in {"refused", "throttled"}
    /\ Save([(IF act.st = "refused" THEN AfterRefusal(m) ELSE m) EXCEPT !.acted = TRUE])

\* applyReconciliation
AfterEvidence(row) ==
    CASE act.stage = "depart"          -> [row EXCEPT !.departed = act.before.cargo, !.phase = "sailing"]
      [] act.stage = "accept-freight"  -> [row EXCEPT !.sealed = IF @ = 0 THEN 1 ELSE @,
                                                      !.open = IF row.sealed = 0 THEN 1 ELSE @, !.phase = "freight"]
      [] act.stage = "deliver-freight" -> [row EXCEPT !.phase = "arrival"]
      [] OTHER                         -> row

ReconcileObservedAction ==
    /\ act # None /\ seen # None /\ act.st \in {"pending", "garbled"} /\ Observed(seen)
    /\ Save([AfterEvidence(m) EXCEPT !.acted = TRUE, !.known = FALSE])

-----------------------------------------------------------------------------
(* The mission's steps: driveMission *)

\* A terminal contract is settled before anything else, and a wreck ends the mission.
Unreconciled == m.settlement = None /\ m.open > 0 /\ seen.contract \in Terminal

Driving(phases) ==
    /\ m # None /\ act = None /\ seen # None
    /\ m.phase \in phases /\ ~Unreconciled /\ seen.status # "sunk"

\* reconcileFreight: collateral of a default is an expense.
ReconcileFreight ==
    /\ m # None /\ act = None /\ seen # None /\ Unreconciled
    /\ Save([m EXCEPT !.open = @ - 1, !.known = FALSE,
                      !.books.out = IF seen.contract = "defaulted" THEN @ + 1 ELSE @])

\* Mutant: seals are not looked at.
FinishReadyIgnoringSeals ==
    m.settlement = None => m.kind = "recovery" \/ seen.status = "sunk" \/ seen.cargo = 0

\* finishMission: nothing sealed may be left, and no cargo unless it sank.
FinishReady ==
    /\ seen.contract # "active"
    /\ m.settlement = None =>
         m.open = 0 /\ (m.kind = "recovery" \/ seen.status = "sunk" \/ seen.cargo = 0)

\* The settlement is frozen, then inserted, then the row goes; a mission that
\* did nothing has none, and neither has a recovery.
FinishMission(row) ==
    /\ FinishReady
    /\ \/ /\ \/ row.kind = "recovery"
             \/ row.phase = "settled"
             \/ row.settlement = None /\ ~row.acted /\ row.known /\ row.books = [out |-> 0, in |-> 0]
          /\ Save(None)
       \/ /\ row.kind # "recovery" /\ row.settlement = None /\ row.acted
          /\ Save([row EXCEPT !.settlement = [books |-> row.books, known |-> row.known],
                              !.phase = "settling"])
       \/ /\ row.kind # "recovery" /\ row.settlement # None /\ row.phase = "settling"
          /\ Save([row EXCEPT !.phase = "settled"])

Wreck ==
    /\ m # None /\ act = None /\ seen # None /\ ~Unreconciled /\ seen.status = "sunk"
    /\ FinishMission([m EXCEPT !.known = FALSE])

Settle == Driving({"settling", "settled"}) /\ FinishMission(m)

\* dockForMission
Dock == seen.status = "roadstead" /\ Stage(m, "dock", 0)

\* Mutant: a recovery's seals reserve nothing.
UnreservedVoyageOnly(tons) == IF m.kind = "recovery" THEN tons ELSE Minus(tons, m.open)

\* What sealed freight leaves of the cargo: sealedReservations.
Unreserved(tons) == Minus(tons, m.open)

\* Only cargo of an evidenced voyage between ports may fill a charter.
ArrivalEligibility ==
    LET carried == IF m.departed < seen.cargo THEN m.departed ELSE seen.cargo
    IN  IF m.origin # None /\ m.origin # m.dest THEN Unreserved(carried) ELSE 0

SailingArrived ==
    /\ Driving({"sailing"}) /\ Stationary(seen) /\ seen.port = m.dest
    /\ Save([m EXCEPT !.eligible = ArrivalEligibility, !.phase = "arrival"])

Charterable == seen.port = Away /\ seen.charter /\ m.eligible > 0 /\ m.badTerms # seen.terms

DeliveryReady == seen.port = m.dest /\ (Charterable \/ (m.open > 0 /\ seen.port = Away))

ProvisionMission == Dock \/ (seen.status = "berthed" /\ Stage(m, "provision", 1))

\* Idle crews eat: stores are bought whenever they run low in port and nothing
\* can be tendered from the roadstead, and while a tender is refused or short.
\* Where they cannot be had the mission goes on.
Maintain ==
    /\ Driving(Phases \ {"provision", "sailing", "closing", "settling", "settled"})
    /\ Stationary(seen) /\ ~seen.stores
    /\ ~DeliveryReady \/ m.open > seen.cargo \/ m.refused
    /\ ProvisionMission

DriveProvision ==
    /\ Driving({"provision"})
    /\ \/ (seen.status # "berthed" \/ ~seen.stores) /\ ProvisionMission
       \/ seen.status = "berthed" /\ seen.stores /\ Save([m EXCEPT !.phase = "buy"])

\* unwindProcurement: what was bought is sold where the ship lies.
Unwind ==
    /\ m.open = 0 /\ seen.contract # "active"
    /\ LET nothing == m.bought = 0 /\ m.sealed = 0 /\ seen.cargo = 0
       IN  Save([m EXCEPT !.kind = "aborted", !.origin = None, !.dest = seen.port,
                          !.eligible = 0, !.phase = "arrival",
                          !.quantity = IF nothing THEN 0 ELSE @,
                          !.wants = @ /\ ~nothing])

DriveBuy ==
    /\ Driving({"buy"})
    /\ \/ m.quantity = 0 /\ Save([m EXCEPT !.phase = "freight"])
       \/ m.quantity > 0 /\ Dock
       \/ m.quantity > 0 /\ seen.status = "berthed" /\ (Unwind \/ Stage(m, "buy", m.quantity))

DriveFreight ==
    /\ Driving({"freight"})
    /\ LET asked == m.wants /\ m.sealed = 0
           fits  == seen.contract = "open" /\ m.dest = Away /\ seen.cargo <= Lot
       IN  \/ asked /\ Save([m EXCEPT !.wants = FALSE])         \* gone, too large or too dear
           \/ asked /\ fits /\ (Dock \/ (seen.status = "berthed" /\ Stage(m, "accept-freight", 1)))
           \/ ~asked /\ Save([m EXCEPT !.phase = "depart"])

\* prepareDeparture
DriveDepart ==
    /\ Driving({"depart"})
    /\ \/ seen.status = "sailing" /\ Save([m EXCEPT !.known = FALSE, !.phase = "sailing"])
       \/ Stationary(seen) /\ ~seen.stores /\ ProvisionMission
       \/ /\ Stationary(seen) /\ seen.stores
          /\ LET loaded == m.kind = "recovery" \/ m.bought > 0 \/ m.sealed > 0
             IN  \/ m.kind # "recovery" /\ Unwind
                 \/ ~loaded /\ FinishMission(m)
                 \/ loaded /\ Stage(m, "depart", 0)

\* closeAtDestination
Close ==
    /\ seen.cargo = 0 /\ m.open = 0 /\ seen.contract # "active" /\ seen.port = m.dest
    /\ LET closing == [m EXCEPT !.phase = "closing"]
       IN  \/ seen.status = "berthed" /\ Stage(closing, "offshore", 0)
           \/ seen.status = "roadstead" /\ FinishMission(closing)

DriveClosing == Driving({"closing"}) /\ Close

\* deliverAtArrival: sealed freight first, then a charter or the market for
\* the rest, then the next stop.
DriveArrival ==
    /\ Driving({"arrival", "tender_wait"}) /\ Stationary(seen) /\ seen.port = m.dest
    /\ m.open > 0 => seen.contract = "active" /\ m.open <= seen.cargo
    /\ IF m.open > 0 /\ seen.port = Away
       THEN IF m.refused
            THEN Save([m EXCEPT !.refused = FALSE])
            ELSE Stage(m, "deliver-freight", 1)
       ELSE LET free == Unreserved(seen.cargo)
                lot  == IF m.eligible < free THEN m.eligible ELSE free
            IN  \/ free > 0 /\ Charterable /\ Stage(m, "deliver-charter", lot)
                \/ free > 0 /\ Dock
                \/ free > 0 /\ seen.status = "berthed" /\ \E n \in 1..free : Stage(m, "sell", n)
                \/ free = 0 /\ m.open > 0 /\ Save([m EXCEPT !.dest = Away, !.phase = "depart"])
                \/ free = 0 /\ m.open = 0 /\ m.kind # "recovery" /\ Close
                \/ free = 0 /\ m.open = 0 /\ m.kind = "recovery" /\ FinishMission(m)

-----------------------------------------------------------------------------
(* New missions *)

Begin(row) ==
    /\ m = None /\ seen # None /\ seen.status # "sunk" /\ missions < MaxMissions
    /\ m' = row /\ missions' = missions + 1 /\ seen' = None
    /\ moved' = [out |-> 0, in |-> 0, buys |-> 0]
    /\ UNCHANGED <<w, act, losses, garbled, lossy>>

Blank == [phase |-> "provision", kind |-> "voyage", origin |-> None, dest |-> Home,
          quantity |-> 0, bought |-> 0, wants |-> FALSE, sealed |-> 0, open |-> 0,
          refused |-> FALSE, departed |-> 0, eligible |-> 0, badTerms |-> None, acted |-> FALSE,
          books |-> [out |-> 0, in |-> 0], known |-> TRUE, settlement |-> None]

Orphaned == seen.status = "sailing" \/ seen.cargo > 0 \/ seen.contract = "active"

\* recoverShip
RecoverShip ==
    /\ m = None /\ seen # None /\ Orphaned
    /\ LET seals    == IF seen.contract = "active" THEN 1 ELSE 0
           elsewhere == Stationary(seen) /\ seals = 1 /\ seen.port # Away
       IN  Begin([Blank EXCEPT !.kind = "recovery", !.known = FALSE, !.sealed = seals, !.open = seals,
                    !.dest   = IF elsewhere THEN Away ELSE seen.to,
                    !.origin = IF elsewhere THEN seen.port ELSE None,
                    !.phase  = IF elsewhere THEN "depart"
                               ELSE IF Stationary(seen) THEN "arrival" ELSE "sailing"])

\* newVoyage: the plan, of the planner's choosing.
NewVoyage ==
    /\ m = None /\ seen # None /\ ~Orphaned
    /\ \E quantity \in {0, Lot}, wants \in BOOLEAN, to \in Ports \ {seen.port} :
          /\ quantity > 0 \/ wants
          /\ Begin([Blank EXCEPT !.origin = seen.port, !.dest = to, !.quantity = quantity, !.wants = wants])

-----------------------------------------------------------------------------
Outcome == Veto \/ ConsumeReceipt \/ ConsumeRejection \/ ReconcileObservedAction
Drive   == \/ ReconcileFreight \/ Wreck \/ Settle \/ SailingArrived \/ Maintain \/ DriveProvision
           \/ DriveBuy \/ DriveFreight \/ DriveDepart \/ DriveClosing \/ DriveArrival

Next == \/ Arrive \/ LoseCargo \/ Sink \/ Default \/ OtherCarrier \/ NewTerms
        \/ Send \/ CarryLate \/ Capture \/ Outcome \/ Drive \/ RecoverShip \/ NewVoyage

Spec == Init /\ [][Next]_vars

\* Passes never stop, ships arrive, deadlines pass, and a key that was used
\* gets its stored answer.  Of a request that is made again and again one is
\* carried out, or refused where it is not possible; a charter may be refused
\* every time.
Filled   == ~act.done /\ act.stage # "deliver-charter" /\ Send /\ act'.st = "receipt" /\ act'.fill > 0
Restored == act.done /\ Send
Denied   == (act.stage = "deliver-charter" \/ ~Possible(act)) /\ Send /\ act'.st = "refused"

FairSpec ==
    /\ Spec
    /\ WF_vars(Capture \/ Outcome \/ Drive) /\ WF_vars(Arrive \/ Default)
    /\ WF_vars(act # None /\ Restored) /\ SF_vars(act # None /\ Filled) /\ SF_vars(act # None /\ Denied)

-----------------------------------------------------------------------------
(* Properties *)

\* A settlement that says its costs are known states what the mission's
\* requests really cost and earned, whatever was lost, repeated or read late
\* (recordTradeCosts, finishMission, CostsKnown).
AccountingTrue ==
    m # None /\ m.settlement # None /\ m.settlement.known =>
       m.settlement.books = [out |-> moved.out, in |-> moved.in]

\* The sealed ton is never sold or chartered away, also by a mission that
\* learns of the seal from the account only (sealedReservations, work).
SealsKept == w.contract = "active" /\ ~lossy => w.cargo >= 1

\* A mission's row goes only when the real hold is empty or lost and no
\* contract is under way, although the decision is made from a capture
\* (finishMission, closeAtDestination).
NothingLeftAboard ==
    [][m # None /\ m' = None => w.contract # "active" /\ (w.cargo = 0 \/ w.status = "sunk")]_vars

\* Every mission ends, unless a success that could not be read has left its
\* action unresolved for good (driveMission, applyRejectedResult).
MissionEnds == m # None ~> (m = None \/ (act # None /\ act.st = "garbled"))

\* A contract is held as one obligation
\* (piracy_insurance_acceptance_test.go:821).
SealHeldOnce == m # None => m.sealed <= 1

-----------------------------------------------------------------------------
(* Why the properties hold: the parts of their inductive invariant *)

Undone     == act = None \/ ~act.done
AcceptDone == act # None /\ act.done /\ act.stage = "accept-freight"

\* A request's status tells whether it was carried out; freight is accepted for
\* a mission without a seal, which may adopt one before it hears of it; and a
\* tender that was carried out completed the contract.
ActShaped ==
    act # None =>
        /\ act.st \in {"receipt", "garbled"} => act.done
        /\ act.st \in {"staged", "refused", "throttled"} => ~act.done
        /\ act.stage = "accept-freight" =>
             m.sealed <= 1 /\ (~act.done => m.sealed = 0 /\ w.contract \in {"open", "taken"})
        /\ act.stage = "deliver-freight" /\ act.done => w.contract = "completed"

\* What a capture still says of the world while the mission's request has done
\* nothing.
CaptureHolds ==
    seen # None /\ Undone =>
        /\ w.cargo <= seen.cargo
        /\ seen.status = "sunk" => w.status = "sunk"
        /\ seen.contract \in {"open", "taken"} => w.contract \in {"open", "taken"}
        /\ seen.contract \in Terminal => w.contract = seen.contract
        /\ w.contract = "active" /\ ~lossy => w.cargo = seen.cargo

\* Sealed freight is known to the mission that captured it, open as long as the
\* contract is active, and outside of what a request may take from the hold.
SealInv ==
    /\ SealsKept
    /\ m # None => m.open <= m.sealed
    /\ m # None /\ m.sealed > 0 /\ w.contract = "active" => m.open > 0
    /\ m # None /\ seen # None /\ seen.contract = "active" => m.sealed > 0
    /\ act # None /\ ~act.done /\ act.stage \in {"sell", "deliver-charter"} /\ w.contract = "active" /\ ~lossy =>
         act.qty < w.cargo

\* The books of a mission that claims to know its costs lack only what its
\* request has done and, until it is reconciled, the collateral of a default.
DueOut == IF act # None /\ act.done THEN Outlay(act, act.fill) ELSE 0
DueIn  == IF act # None /\ act.done THEN Revenue(act, act.fill) ELSE 0
DefaultPending == w.contract = "defaulted" /\ (m.open > 0 \/ AcceptDone)

BooksInv ==
    m # None /\ m.known =>
        /\ w.contract = "active" => m.open > 0 \/ AcceptDone
        /\ m.settlement = None /\ ~DefaultPending =>
             moved.out = m.books.out + DueOut /\ moved.in = m.books.in + DueIn

\* A frozen settlement is final: nothing is left that could still cost or earn.
SettledInv ==
    m # None =>
        /\ m.settlement # None <=> m.phase \in {"settling", "settled"}
        /\ m.settlement # None =>
             act = None /\ w.contract # "active" /\ (w.cargo = 0 \/ w.status = "sunk")

VoyageInv == TypeOK /\ ActShaped /\ CaptureHolds /\ SealInv /\ BooksInv /\ SettledInv /\ AccountingTrue
=============================================================================
