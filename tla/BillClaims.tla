----------------------------- MODULE BillClaims -----------------------------
(***************************************************************************)
(* How a finished mission is settled and which mission pays which bill     *)
(* (internal/engine/mission.go: work, finishMission, claimBillsSince;      *)
(* company_flows.go: recordCompanyFlows; runner.go: the pass).             *)
(*                                                                         *)
(* The upstream posts overhead bills to the ledger, each against one ship. *)
(* A pass refreshes the ledger, publishes the snapshot, records the        *)
(* company's own flows, then advances at most one mission and publishes    *)
(* the snapshot again.  A settling mission claims the bills of its ship    *)
(* that appeared since it started; who claimed a bill is kept in memory    *)
(* (expenseOwners), in the snapshot and, until it is deleted, in the       *)
(* mission row.  Every durable write is a step of its own, and the process *)
(* may die between any two.                                                *)
(***************************************************************************)
EXTENDS Integers, FiniteSets

CONSTANTS
    Ships,
    Bills,
    NoShip,         \* the ship of a bill not yet posted
    MaxMissions,    \* bound on the missions ever started
    MaxCrashes      \* bound on process deaths

ASSUME BillAssumption ==
    /\ NoShip \notin Ships
    /\ MaxMissions \in Nat /\ MaxCrashes \in Nat

Gens     == 1..MaxMissions     \* Mission.Generation
NoGen    == 0
NoRow    == [gen |-> NoGen, phase |-> "none", initial |-> {}, ids |-> {}]
Unwritten == [written |-> FALSE, ids |-> {}]
Row(ids) == [written |-> TRUE, ids |-> ids]

VARIABLES
    \* upstream
    shipOf,     \* the ship a posted bill names
    \* the store
    mission,    \* the missions row of each ship
    settled,    \* the bills of each generation's settlements row
    stored,     \* _expense_allocations in the saved snapshot
    flows,      \* bills in company_ledger_flows
    \* the process
    at,         \* where the pass is
    working,    \* the ship whose settlement is between its two writes
    seen,       \* the ledger the refresh read
    owners,     \* expenseOwners
    first,      \* companyFlowsRecorded is nil
    recorded,   \* companyFlowsRecorded
    unmerged,   \* companyFlowsMissionClaims
    \* bounds
    started, crashes

durable == <<mission, settled, stored, flows>>
flowMem == <<first, recorded, unmerged>>
vars    == <<shipOf, durable, at, working, seen, owners, flowMem, started, crashes>>

Posted == {b \in Bills : shipOf[b] # NoShip}
Owners == [Bills -> Gens \cup {NoGen}]

TypeOK ==
    /\ shipOf \in [Bills -> Ships \cup {NoShip}]
    /\ mission \in [Ships -> [gen : Gens \cup {NoGen}, phase : {"none", "open", "settling", "settled"},
                              initial : SUBSET Bills, ids : SUBSET Bills]]
    /\ settled \in [Gens -> [written : BOOLEAN, ids : SUBSET Bills]]
    /\ stored \in Owners /\ owners \in Owners
    /\ flows \subseteq Bills /\ seen \subseteq Bills /\ unmerged \subseteq Bills
    /\ at \in {"down", "refresh", "flows", "work", "put", "end"} /\ working \in Ships \cup {NoShip}
    /\ first \in BOOLEAN /\ recorded \in [Bills -> {"never", "in", "out"}]
    /\ started \in 0..MaxMissions /\ crashes \in 0..MaxCrashes

Init ==
    /\ shipOf = [b \in Bills |-> NoShip]
    /\ mission = [s \in Ships |-> NoRow]
    /\ settled = [g \in Gens |-> Unwritten]
    /\ stored = [b \in Bills |-> NoGen] /\ flows = {}
    /\ at = "down" /\ working = NoShip /\ seen = {}
    /\ owners = [b \in Bills |-> NoGen]
    /\ first = TRUE /\ recorded = [b \in Bills |-> "never"] /\ unmerged = {}
    /\ started = 0 /\ crashes = 0

-----------------------------------------------------------------------------
(* The upstream ledger and the process *)

\* Upkeep, rent, berth dues or a toll is debited for a ship, mission or not.
Post(b, s) ==
    /\ shipOf[b] = NoShip
    /\ shipOf' = [shipOf EXCEPT ![b] = s]
    /\ UNCHANGED <<durable, at, working, seen, owners, flowMem, started, crashes>>

\* Run loads the snapshot; what the mission rows claim is merged only by work.
Start ==
    /\ at = "down"
    /\ at' = "refresh" /\ owners' = stored
    /\ first' = TRUE /\ recorded' = [b \in Bills |-> "never"] /\ unmerged' = {}
    /\ UNCHANGED <<shipOf, durable, working, seen, started, crashes>>

\* The process dies, or a pass returns an error: supervise starts a new Runner.
Die ==
    /\ at # "down" /\ crashes < MaxCrashes
    /\ crashes' = crashes + 1
    /\ at' = "down" /\ working' = NoShip
    /\ UNCHANGED <<shipOf, durable, seen, owners, flowMem, started>>

\* refresh reads the ledger and saves the snapshot with the owners in memory.
Refresh ==
    /\ at = "refresh"
    /\ seen' = Posted /\ stored' = owners
    /\ at' = "flows"
    /\ UNCHANGED <<shipOf, mission, settled, flows, working, owners, flowMem, started, crashes>>

-----------------------------------------------------------------------------
(* recordCompanyFlows: what the company paid outside every settlement *)

\* The claims a crash left in the mission rows only.
MissionClaims == UNION {mission[s].ids : s \in Ships}

Claimed(extra) == {b \in Bills : owners[b] # NoGen} \cup extra

RecordFlows ==
    /\ at = "flows"
    /\ LET extra   == {b \in (IF first THEN MissionClaims ELSE unmerged) : owners[b] = NoGen}
           claimed == Claimed(extra)
           added   == {b \in seen \ claimed : recorded[b] # "in"}
           removed == {b \in claimed : recorded[b] # "out"}
       IN  /\ unmerged' = extra
           /\ flows' = (flows \cup added) \ removed
           /\ recorded' = [b \in Bills |-> IF b \in added THEN "in" ELSE IF b \in removed THEN "out" ELSE recorded[b]]
    /\ first' = FALSE /\ at' = "work"
    /\ UNCHANGED <<shipOf, mission, settled, stored, working, seen, owners, started, crashes>>

\* A failed write is logged and retried by a later refresh; the pass goes on.
SkipFlows ==
    /\ at = "flows" /\ crashes < MaxCrashes
    /\ crashes' = crashes + 1
    /\ at' = "work"
    /\ UNCHANGED <<shipOf, durable, working, seen, owners, flowMem, started>>

-----------------------------------------------------------------------------
(* work: restore every mission, then advance one *)

\* A claim in a mission row that another generation holds in memory is an error.
Agreed == \A s \in Ships : \A b \in mission[s].ids : owners[b] \in {NoGen, mission[s].gen}

\* expenseOwners with the claims of every mission row.
Merged ==
    [b \in Bills |->
        IF \E s \in Ships : b \in mission[s].ids
        THEN mission[CHOOSE s \in Ships : b \in mission[s].ids].gen
        ELSE owners[b]]

Work == at = "work" /\ Agreed

\* No mission changed in this pass.
Idle ==
    /\ Work
    /\ owners' = Merged /\ at' = "end"
    /\ UNCHANGED <<shipOf, durable, working, seen, flowMem, started, crashes>>

\* Mutant: the new voyage does not note which bills the ledger already shows.
NewVoyageWithoutLedger(s) ==
    /\ Work /\ mission[s].phase = "none" /\ started < MaxMissions
    /\ started' = started + 1
    /\ mission' = [mission EXCEPT ![s] = [gen |-> started + 1, phase |-> "open", initial |-> {}, ids |-> {}]]
    /\ owners' = Merged /\ at' = "end"
    /\ UNCHANGED <<shipOf, settled, stored, flows, working, seen, flowMem, crashes>>

\* newVoyage and recoverShip remember the ledger as InitialLedgerIDs.
NewVoyage(s) ==
    /\ Work /\ mission[s].phase = "none" /\ started < MaxMissions
    /\ started' = started + 1
    /\ mission' = [mission EXCEPT ![s] = [gen |-> started + 1, phase |-> "open", initial |-> seen, ids |-> {}]]
    /\ owners' = Merged /\ at' = "end"
    /\ UNCHANGED <<shipOf, settled, stored, flows, working, seen, flowMem, crashes>>

\* A recovery or zero-effect mission closes without a settlement.
Cancel(s) ==
    /\ Work /\ mission[s].phase = "open"
    /\ mission' = [mission EXCEPT ![s] = NoRow]
    /\ owners' = Merged /\ at' = "end"
    /\ UNCHANGED <<shipOf, settled, stored, flows, working, seen, flowMem, started, crashes>>

\* unclaimedBillsSince
Unclaimed(s, claims) == {b \in seen : shipOf[b] = s /\ b \notin mission[s].initial /\ claims[b] = NoGen}

\* finishMission freezes the settlement and its bills in the mission row.
Claim(s) ==
    /\ Work /\ mission[s].phase = "open"
    /\ LET ids == Unclaimed(s, Merged)
       IN  /\ mission' = [mission EXCEPT ![s] = [@ EXCEPT !.phase = "settling", !.ids = ids]]
           /\ owners' = [b \in Bills |-> IF b \in ids THEN mission[s].gen ELSE Merged[b]]
    /\ at' = "end"
    /\ UNCHANGED <<shipOf, settled, stored, flows, working, seen, flowMem, started, crashes>>

\* PutSettlement inserts the frozen row; an equal one already there is accepted.
PutSettlement(s) ==
    /\ Work /\ mission[s].phase = "settling"
    /\ settled[mission[s].gen] \in {Unwritten, Row(mission[s].ids)}
    /\ settled' = [settled EXCEPT ![mission[s].gen] = Row(mission[s].ids)]
    /\ owners' = Merged /\ working' = s /\ at' = "put"
    /\ UNCHANGED <<shipOf, mission, stored, flows, seen, flowMem, started, crashes>>

\* finishMission saves the phase after the settlement's own write.
SaveSettled ==
    /\ at = "put"
    /\ mission' = [mission EXCEPT ![working] = [@ EXCEPT !.phase = "settled"]]
    /\ working' = NoShip /\ at' = "end"
    /\ UNCHANGED <<shipOf, settled, stored, flows, seen, owners, flowMem, started, crashes>>

\* Mutant: a mission is deleted once its bills are claimed.
DeleteEarly(s) ==
    /\ Work /\ mission[s].phase \in {"settling", "settled"}
    /\ mission' = [mission EXCEPT ![s] = NoRow]
    /\ owners' = Merged /\ at' = "end"
    /\ UNCHANGED <<shipOf, settled, stored, flows, working, seen, flowMem, started, crashes>>

\* The settled mission is deleted in a later pass.
Delete(s) ==
    /\ Work /\ mission[s].phase = "settled"
    /\ mission' = [mission EXCEPT ![s] = NoRow]
    /\ owners' = Merged /\ at' = "end"
    /\ UNCHANGED <<shipOf, settled, stored, flows, working, seen, flowMem, started, crashes>>

\* The pass ends by saving the snapshot with the merged owners.
EndPass ==
    /\ at = "end"
    /\ stored' = owners /\ at' = "refresh"
    /\ UNCHANGED <<shipOf, mission, settled, flows, working, seen, owners, flowMem, started, crashes>>

Pass ==
    \/ Start \/ Refresh \/ RecordFlows \/ Idle \/ SaveSettled \/ EndPass
    \/ \E s \in Ships : NewVoyage(s) \/ Cancel(s) \/ Claim(s) \/ PutSettlement(s) \/ Delete(s)

Next ==
    \/ Pass \/ SkipFlows \/ Die
    \/ \E b \in Bills, s \in Ships : Post(b, s)

Spec == Init /\ [][Next]_vars

(***************************************************************************)
(* Fairness.  supervise restarts a dead Runner and the pass loop never     *)
(* blocks, so every step of a pass is taken; a mission that is settling is *)
(* driven in every pass until it is deleted, so PutSettlement and Delete   *)
(* are taken although Idle and the other ships' steps share their pass.    *)
(***************************************************************************)
Fairness ==
    /\ WF_vars(Start) /\ WF_vars(Refresh) /\ WF_vars(RecordFlows) /\ WF_vars(SaveSettled) /\ WF_vars(EndPass)
    /\ WF_vars(Idle)
    /\ \A s \in Ships : SF_vars(PutSettlement(s)) /\ SF_vars(Delete(s))

FairSpec == Spec /\ Fairness

-----------------------------------------------------------------------------
(* Properties *)

\* The bills generation g answers for: in its settlement or its mission row.
BillsOf(g) == {b \in Bills : b \in settled[g].ids \/ \E s \in Ships : mission[s].gen = g /\ b \in mission[s].ids}

(* claimBillsSince: each ship-attributed overhead debit goes to one mission
   only, whatever part of the claims a crash has left in memory, in the
   snapshot and in the mission rows. *)
BillsClaimedOnce == \A g \in Gens, h \in Gens : g # h => BillsOf(g) \cap BillsOf(h) = {}

(* finishMission: a settlement inserted before a crash is replayed with the
   identical frozen bills, so PutSettlement never meets a conflicting row. *)
SettledAsFrozen ==
    \A s \in Ships : mission[s].phase \in {"settling", "settled"} =>
        settled[mission[s].gen] \in {Unwritten, Row(mission[s].ids)}

(* No overhead disappears: a bill the ledger shows ends up either in a
   settlement or among the company's own flows. *)
BillsAccounted == \A b \in Bills : b \in Posted ~> (b \in flows \/ \E g \in Gens : b \in settled[g].ids)

(* recordCompanyFlows: a bill that a mission row claims is never published,
   although after a crash neither the snapshot nor the memory may know it. *)
RowClaimsUnpublished == [][(flows' \ flows) \cap MissionClaims = {}]_vars

(* recordCompanyFlows: the backfill cannot republish a settled bill. *)
NoRepublish ==
    [][\A b \in flows' \ flows : \A g \in Gens : b \notin settled[g].ids]_vars

-----------------------------------------------------------------------------
(* Why BillsClaimedOnce holds: the parts of its inductive invariant *)

\* Generations are never reused, and a row that is absent holds nothing.
FreshGens ==
    /\ \A s \in Ships : IF mission[s].phase = "none" THEN mission[s] = NoRow ELSE mission[s].gen \in 1..started
    /\ \A s \in Ships, t \in Ships : s # t /\ mission[s].gen # NoGen => mission[s].gen # mission[t].gen
    /\ \A g \in Gens : g > started => settled[g] = Unwritten

\* A mission claims bills of its own ship only, and only once it is settling.
OwnClaims ==
    \A s \in Ships :
        /\ mission[s].phase = "open" => mission[s].ids = {} /\ settled[mission[s].gen] = Unwritten
        /\ mission[s].phase \in {"settling", "settled"} => settled[mission[s].gen] \in {Unwritten, Row(mission[s].ids)}
        /\ \A b \in mission[s].ids : shipOf[b] = s

AllClaims == {b \in Bills : (\E g \in Gens : b \in settled[g].ids) \/ \E s \in Ships : b \in mission[s].ids}

\* What was ever claimed is posted, and the ledger a pass works on shows it.
ClaimsVisible ==
    /\ AllClaims \subseteq Posted
    /\ at \in {"flows", "work", "put", "end"} => AllClaims \subseteq seen

\* A running mission started after every settlement of its ship.
StartedAfter ==
    \A s \in Ships : mission[s].phase # "none" =>
        \A g \in Gens : g # mission[s].gen => \A b \in settled[g].ids : shipOf[b] = s => b \in mission[s].initial

\* and what it claims was not there when it started.
ClaimedSince == \A s \in Ships : mission[s].ids \cap mission[s].initial = {}

\* Between its two writes the settling mission is the one being worked on.
Writing == at = "put" => working \in Ships /\ mission[working].phase = "settling"

ClaimInv ==
    /\ TypeOK /\ Writing /\ FreshGens /\ OwnClaims /\ ClaimsVisible /\ StartedAfter /\ ClaimedSince /\ BillsClaimedOnce
=============================================================================
