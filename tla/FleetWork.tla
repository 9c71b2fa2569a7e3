------------------------------ MODULE FleetWork ------------------------------
(***************************************************************************)
(* One pass of the account: Runner.work and creditOnlyWork                 *)
(* (internal/engine/mission.go), the funds that newActionPreflight         *)
(* (journal.go) and the planners protect (committedPlanningInput of        *)
(* sourcing.go, reserveMissionCash of growth_continuation.go and           *)
(* obligationReservePlan of treasury.go), in one banking region.           *)
(*                                                                         *)
(* A pass starts from a capture of the cash.  It first dispatches the      *)
(* requests of the durable missions, then services loans, then, unless an  *)
(* outcome is unknown, drives the controls and the ships in a fixed order; *)
(* the first change ends it.  The missions are "loans" (an installment),   *)
(* the ships (a purchase, then a delivery), "treasury" (a remittance out   *)
(* of the region) and "marque", which stands for the optional controls     *)
(* whose unknown outcome blocks nobody.  Whether an alternative is worth   *)
(* its money is left open.                                                 *)
(***************************************************************************)
EXTENDS Integers, Sequences, FiniteSets, FiniteSetsExt

CONSTANTS
    NoJob,          \* no mission
    ShipOrder,      \* the ships in the order of the fleet list
    CargoCost, Gross, MarqueCost, Installment, Reward,
    ProtectedReserve,   \* protectedReservePence
    StartCash,      \* cash at the start
    MaxLost,        \* answers that never come, crashes
    MaxJobs         \* missions started

Controls == {"loans", "treasury", "marque"}
Fleet == {ShipOrder[i] : i \in DOMAIN ShipOrder}
ASSUME WorkAssumption ==
    /\ {CargoCost, Gross, MarqueCost, Installment, Reward, ProtectedReserve, MaxLost, MaxJobs} \subseteq Nat
    /\ StartCash \subseteq Nat /\ ShipOrder \in Seq(Fleet) /\ Fleet \cap Controls = {}
    /\ NoJob \notin {"planned", "staged", "sent", "aboard", "tender", "tendered", "done"}

VARIABLES
    cash, due,      \* the server: vault balance, installment owed
    wire,           \* the server's view of each mission's request: none, may be applied, applied
    task,           \* the durable missions
    seen,           \* the capture: cash, installment and _marque_pending
    pass,           \* where the running pass is
    lost, jobs

fwvars == <<cash, due, wire, task, seen, pass, lost, jobs>>

Ids == <<"loans">> \o ShipOrder \o <<"treasury", "marque">>
Names == Fleet \cup Controls
Idle == [at |-> "idle", next |-> 1, unresolved |-> FALSE]
\* Steps of a mission: planned, staged, sent (outcome unknown), aboard, done.
Pending(step) == step \in {"staged", "sent", "tender", "tendered"}
Paying(id) == task[id] \in {"staged", "sent"}

WorkInit ==
    /\ cash \in StartCash /\ due \in {0, Installment} /\ cash >= ProtectedReserve + due
    /\ wire = [id \in Names |-> "none"] /\ task = [id \in Names |-> NoJob]
    /\ seen = [cash |-> 0, due |-> 0, marque |-> FALSE] /\ pass = Idle /\ lost = 0 /\ jobs = 0

Amount(id) == CASE id = "loans" -> due [] id = "treasury" -> Gross [] id = "marque" -> MarqueCost [] OTHER -> CargoCost
\* What the server does with the request of a mission.
Charge(id) ==
    IF Paying(id)
    THEN cash' = cash - Amount(id) /\ due' = IF id = "loans" THEN 0 ELSE due
    ELSE cash' = cash + Reward /\ UNCHANGED due
LateCharge(id) ==
    /\ wire[id] = "may" /\ Charge(id) /\ wire' = [wire EXCEPT ![id] = "applied"]
    /\ UNCHANGED <<task, seen, pass, lost, jobs>>

-----------------------------------------------------------------------------
\* obligationReservePlan: the protected reserve, the installment and the
\* marque that is pending in the snapshot.
ObligationReserves(self) ==
    ProtectedReserve + seen.due + (IF seen.marque /\ self # "marque" THEN MarqueCost ELSE 0)
\* reserveMissionCash: what a mission has not paid yet.
MissionCash(id) == IF task[id] \in {"planned", "staged", "sent"} THEN CargoCost ELSE 0
\* committedPlanningInput: everything but the own mission's cash.
Committed(self) == ObligationReserves(self) + SumFunction([id \in Fleet \ {self} |-> MissionCash(id)])
Funded(id, amount) == seen.cash - amount >= Committed(id)
Affordable(id) == IF id = "loans" THEN seen.cash >= seen.due ELSE Funded(id, Amount(id))

\* Starting a pass: recordMarques sees the mission that is not resolved yet.
Capture ==
    /\ pass = Idle
    /\ seen' = [cash |-> cash, due |-> due, marque |-> task["marque"] \in {"planned", "staged", "sent"}]
    /\ pass' = [Idle EXCEPT !.at = "dispatch"]
    /\ UNCHANGED <<cash, due, wire, task, lost, jobs>>

Ends == pass' = Idle
Goes(at) == pass' = [pass EXCEPT !.at = at, !.next = 1]
AdvanceJob(ids, at, unresolved) ==
    pass' = IF pass.next < Len(ids) THEN [pass EXCEPT !.next = @ + 1, !.unresolved = unresolved]
            ELSE [at |-> at, next |-> 1, unresolved |-> unresolved]

\* An outcome that is unknown holds back the rest, except an optional control's.
UnresolvedLast(id, step) == Pending(step) /\ id # "marque"
Unresolved(id, step) == pass.unresolved \/ (Pending(step) /\ id # "marque")

After(id) == CASE task[id] \in {"staged", "sent"} /\ id \in Fleet -> "aboard"
              []  task[id] \in {"tender", "tendered"} -> NoJob
              []  OTHER -> "done"
Before(id) == CASE id \in Fleet /\ task[id] = "tender" -> "aboard"
               []  id \in Fleet \cup {"marque"} /\ task[id] = "staged" -> "planned"
               []  OTHER -> NoJob
Sent(id) == IF task[id] \in {"staged", "sent"} THEN "sent" ELSE "tendered"
FirstSend(id) == task[id] \in {"staged", "tender"}

\* The dispatch loop.
Resolve(id, step) == task' = [task EXCEPT ![id] = step] /\ wire' = [wire EXCEPT ![id] = "none"] /\ Ends
Answered(id) ==
    /\ FirstSend(id) /\ (task[id] = "staged" => Affordable(id)) /\ Charge(id) /\ Resolve(id, After(id))
    /\ UNCHANGED lost
Refused(id) ==
    /\ FirstSend(id) /\ (task[id] = "staged" => Affordable(id)) /\ Resolve(id, Before(id))
    /\ UNCHANGED <<cash, due, lost>>
JobUnanswered(id) ==
    /\ FirstSend(id) /\ (task[id] = "staged" => Affordable(id)) /\ lost < MaxLost /\ lost' = lost + 1
    /\ task' = [task EXCEPT ![id] = Sent(id)]
    /\ \/ Charge(id) /\ wire' = [wire EXCEPT ![id] = "applied"]
       \/ wire' = [wire EXCEPT ![id] = "may"] /\ UNCHANGED <<cash, due>>
    /\ AdvanceJob(Ids, "loans", Unresolved(id, Sent(id)))
Vetoed(id) ==
    /\ FirstSend(id) /\ task' = [task EXCEPT ![id] = Before(id)]
    /\ AdvanceJob(Ids, "loans", Unresolved(id, Before(id))) /\ UNCHANGED <<cash, due, wire, lost>>
Learnt(id) ==
    /\ Pending(task[id]) /\ ~FirstSend(id)
    /\ \/ wire[id] = "applied" /\ UNCHANGED <<cash, due>>
       \/ wire[id] = "may" /\ Charge(id)
    /\ Resolve(id, After(id)) /\ UNCHANGED lost
StillUnknown(id) ==
    /\ ~FirstSend(id) /\ UNCHANGED <<cash, due, wire, task, lost>>
    /\ AdvanceJob(Ids, "loans", Unresolved(id, task[id]))
Dispatch ==
    /\ pass.at = "dispatch"
    /\ \E id \in {Ids[pass.next]} :
         Answered(id) \/ Refused(id) \/ JobUnanswered(id) \/ Vetoed(id) \/ Learnt(id) \/ StillUnknown(id)
    /\ UNCHANGED <<seen, jobs>>

-----------------------------------------------------------------------------
\* A control changes its mission and the pass ends.
Set(id, step) == task' = [task EXCEPT ![id] = step] /\ Ends /\ UNCHANGED <<cash, due, wire, seen, lost>>
Starts == jobs < MaxJobs /\ jobs' = jobs + 1
Skip(at) == Goes(at) /\ UNCHANGED <<cash, due, wire, task, seen, lost, jobs>>

\* serviceLoans comes before the gate.
ServiceLoans ==
    /\ pass.at = "loans"
    /\ \/ task["loans"] = "done" /\ Set("loans", NoJob) /\ UNCHANGED jobs
       \/ task["loans"] = NoJob /\ seen.due > 0 /\ Affordable("loans") /\ Set("loans", "staged") /\ UNCHANGED jobs
       \/ Skip(IF pass.unresolved THEN "credit" ELSE "controls")

\* creditOnlyWork: with an unknown outcome only deliveries are staged.
Tender(s) == task[s] = "aboard" /\ Set(s, "tender") /\ UNCHANGED jobs
CreditOnly ==
    /\ pass.at = "credit"
    /\ \/ \E s \in Fleet : Tender(s)
       \/ Ends /\ UNCHANGED <<cash, due, wire, task, seen, lost, jobs>>

\* driveMarque, then the treasury.
DriveMarque ==
    /\ pass.at = "controls"
    /\ \/ task["marque"] \in {"done", "planned"} /\ Set("marque", NoJob) /\ UNCHANGED jobs
       \/ task["marque"] = "planned" /\ Affordable("marque") /\ Set("marque", "staged") /\ UNCHANGED jobs
       \/ task["marque"] \notin {"done", "planned"} /\ Skip("treasury")
\* A finished treasury mission is deleted and the pass goes on without a new one.
Treasury ==
    /\ pass.at = "treasury"
    /\ \/ task["treasury"] = "done" /\ task' = [task EXCEPT !["treasury"] = NoJob] /\ Goes("ships")
          /\ UNCHANGED <<cash, due, wire, seen, lost, jobs>>
       \/ task["treasury"] = NoJob /\ Affordable("treasury") /\ Starts /\ Set("treasury", "staged")
       \/ task["treasury"] # "done" /\ Skip("ships")

\* The ship loop: an idle ship plans, a planned one stages its purchase.
NextShip == AdvanceJob(ShipOrder, "tail", FALSE) /\ UNCHANGED <<cash, due, wire, task, seen, lost, jobs>>
DriveShip ==
    /\ pass.at = "ships"
    /\ \/ NextShip
       \/ \E i \in {pass.next} \cap DOMAIN ShipOrder :
            LET s == ShipOrder[i] IN
              \/ task[s] = NoJob /\ Affordable(s) /\ Starts /\ Set(s, "planned")
              \/ task[s] = "planned" /\ Set(s, "staged") /\ UNCHANGED jobs
              \/ Tender(s)
\* The pass's tail: the optional controls are considered last.
PassTail ==
    /\ pass.at = "tail"
    /\ \/ task["marque"] = NoJob /\ task["treasury"] = NoJob /\ Affordable("marque") /\ Starts /\ Set("marque", "planned")
       \/ Ends /\ UNCHANGED <<cash, due, wire, task, seen, lost, jobs>>

\* A process stops anywhere; the next one starts with a capture.
Crash ==
    /\ pass # Idle /\ lost < MaxLost /\ lost' = lost + 1 /\ Ends
    /\ UNCHANGED <<cash, due, wire, task, seen, jobs>>

WorkNext ==
    \/ (\E id \in Names : LateCharge(id)) \/ Capture \/ Dispatch \/ ServiceLoans \/ CreditOnly
    \/ DriveMarque \/ Treasury \/ DriveShip \/ PassTail \/ Crash
WorkSpec == WorkInit /\ [][WorkNext]_fwvars

-----------------------------------------------------------------------------
Unpaid(id) ==
    IF task[id] \in {"planned", "staged", "sent"} /\ wire[id] # "applied" THEN Amount(id) ELSE 0

\* The cash always covers the protected reserve, the installment and every
\* purchase a mission has been admitted for and not paid: no mission is
\* started or paid with money another one counts on.
CommitmentsFunded ==
    cash >= ProtectedReserve + due + SumFunction([id \in Fleet \cup {"treasury", "marque"} |-> Unpaid(id)])
=============================================================================
