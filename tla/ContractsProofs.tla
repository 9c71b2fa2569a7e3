-------------------------- MODULE ContractsProofs ---------------------------
(***************************************************************************)
(* What control missions leave to be settled.                              *)
(*                                                                         *)
(* No bill is claimed by two missions, for any number of ships, bills,     *)
(* missions and crashes.  The owners in memory and in the snapshot are     *)
(* lost by crashes and the mission row is deleted, so neither carries the  *)
(* argument.  It rests on the ledger: whatever was ever claimed is in the  *)
(* ledger a pass works on (ClaimsVisible), so a mission started later      *)
(* lists it among its initial bills (StartedAfter) and never claims those  *)
(* (ClaimedSince).                                                         *)
(*                                                                         *)
(* The "__growth" control hands a hull over once and loses sight of no     *)
(* debt, for any prices, lenders, admissions, kinds of companies and       *)
(* deadlines.                                                              *)
(***************************************************************************)
EXTENDS BillClaims, Growth, TLAPS, FiniteSetTheorems

-----------------------------------------------------------------------------
(* Bills *)


MissionRows == [gen : Gens \cup {NoGen}, phase : {"none", "open", "settling", "settled"},
                initial : SUBSET Bills, ids : SUBSET Bills]

\* Merging the claims of the mission rows yields a map of the same type.
LEMMA MergedType ==
    ASSUME TypeOK
    PROVE  Merged \in Owners
<1>1. SUFFICES ASSUME NEW b \in Bills, \E s \in Ships : b \in mission[s].ids
      PROVE  mission[CHOOSE s \in Ships : b \in mission[s].ids].gen \in Gens \cup {NoGen}
    BY DEF Merged, Owners, TypeOK
<1>2. (CHOOSE s \in Ships : b \in mission[s].ids) \in Ships
    BY <1>1
<1>3. QED
    BY <1>2 DEF TypeOK

\* A fresh installation has claimed nothing.
LEMMA InitClaims == Init => ClaimInv
<1>1. SUFFICES ASSUME Init PROVE ClaimInv
    OBVIOUS
<1>2. TypeOK
    BY <1>1, BillAssumption DEF Init, TypeOK, NoRow, Unwritten, NoGen, Owners
<1>3. Writing /\ FreshGens /\ OwnClaims /\ StartedAfter /\ ClaimedSince
    BY <1>1 DEF Init, Writing, FreshGens, OwnClaims, StartedAfter, ClaimedSince, NoRow, Unwritten, NoGen, Gens
<1>4. AllClaims = {} /\ BillsClaimedOnce
    BY <1>1 DEF Init, AllClaims, BillsClaimedOnce, BillsOf, NoRow, Unwritten
<1>5. QED
    BY <1>2, <1>3, <1>4 DEF ClaimInv, ClaimsVisible

\* Every step keeps the types.
LEMMA StepTypes ==
    ASSUME ClaimInv, [Next]_vars
    PROVE  TypeOK'
<1> USE BillAssumption
<1>0. TypeOK
    BY DEF ClaimInv
<1>1. CASE \E b \in Bills, s \in Ships : Post(b, s)
    BY <1>0, <1>1 DEF Post, TypeOK, durable, flowMem, Owners
<1>2. CASE Start \/ Die \/ Refresh \/ SkipFlows \/ EndPass
  <2>1. CASE Start
      BY <1>0, <2>1 DEF Start, TypeOK, durable
  <2>2. CASE Die
      BY <1>0, <2>2 DEF Die, TypeOK, durable, flowMem
  <2>3. CASE Refresh
      BY <1>0, <2>3 DEF Refresh, TypeOK, flowMem, Posted
  <2>4. CASE SkipFlows
      BY <1>0, <2>4 DEF SkipFlows, TypeOK, durable, flowMem
  <2>5. CASE EndPass
      BY <1>0, <2>5 DEF EndPass, TypeOK, flowMem
  <2>6. QED
      BY <1>2, <2>1, <2>2, <2>3, <2>4, <2>5
<1>3. CASE RecordFlows
  <2>1. MissionClaims \subseteq Bills
      BY <1>0 DEF TypeOK, MissionClaims
  <2>2. QED
      BY <1>0, <1>3, <2>1 DEF RecordFlows, TypeOK, Owners, Claimed
<1>4. CASE Idle
    BY <1>0, <1>4, MergedType DEF Idle, TypeOK, durable, flowMem, Owners
<1>5. ASSUME NEW s \in Ships, NewVoyage(s)
      PROVE  TypeOK'
    BY <1>0, <1>5, MergedType DEF NewVoyage, TypeOK, durable, flowMem, Gens
<1>6. ASSUME NEW s \in Ships, Cancel(s) \/ Delete(s)
      PROVE  TypeOK'
    BY <1>0, <1>6, MergedType DEF Cancel, Delete, TypeOK, durable, flowMem, NoRow
<1>7. ASSUME NEW s \in Ships, Claim(s)
      PROVE  TypeOK'
  <2>1. Unclaimed(s, Merged) \subseteq Bills
      BY <1>0 DEF Unclaimed, TypeOK
  <2>2. Merged \in Owners /\ mission[s].gen \in Gens \cup {NoGen}
      BY <1>0, MergedType DEF TypeOK
  <2>3. owners' \in Owners
      BY <1>7, <2>2 DEF Claim, Owners
  <2>4. mission' \in [Ships -> MissionRows]
    <3> DEFINE ids == Unclaimed(s, Merged)
    <3>1. mission' = [mission EXCEPT ![s] = [mission[s] EXCEPT !.phase = "settling", !.ids = ids]]
        BY <1>0, <1>7 DEF Claim, TypeOK
    <3>2. mission \in [Ships -> MissionRows]
        BY <1>0 DEF TypeOK, MissionRows
    <3>3. ASSUME NEW row \in MissionRows, NEW set \in SUBSET Bills
          PROVE  [row EXCEPT !.phase = "settling", !.ids = set] \in MissionRows
      <4>1. [row EXCEPT !.phase = "settling"] \in MissionRows
          BY DEF MissionRows
      <4>2. \A r \in MissionRows : [r EXCEPT !.ids = set] \in MissionRows
          BY DEF MissionRows
      <4>3. QED
          BY <4>1, <4>2
    <3>4. QED
        BY <2>1, <3>1, <3>2, <3>3
  <2>5. QED
      BY <1>0, <1>7, <2>3, <2>4 DEF Claim, TypeOK, flowMem, MissionRows
<1>8. ASSUME NEW s \in Ships, PutSettlement(s)
      PROVE  TypeOK'
    BY <1>0, <1>8, MergedType DEF PutSettlement, TypeOK, durable, flowMem, Row
<1>9. CASE SaveSettled
  <2>1. working \in Ships
      BY <1>9 DEF ClaimInv, Writing, SaveSettled
  <2>2. mission' = [mission EXCEPT ![working] = [mission[working] EXCEPT !.phase = "settled"]]
      BY <1>0, <1>9, <2>1 DEF SaveSettled, TypeOK
  <2>3. mission' \in [Ships -> MissionRows]
      BY <1>0, <2>1, <2>2 DEF TypeOK, MissionRows
  <2>4. QED
      BY <1>0, <1>9, <2>3 DEF SaveSettled, TypeOK, flowMem, MissionRows
<1>10. CASE UNCHANGED vars
    BY <1>0, <1>10 DEF vars, TypeOK, durable, flowMem, Owners
<1>11. QED
    BY <1>1, <1>2, <1>3, <1>4, <1>5, <1>6, <1>7, <1>8, <1>9, <1>10 DEF Next, Pass

\* What a step leaves of the claims when no row and no settlement changes.
LEMMA QuietStep ==
    ASSUME ClaimInv, UNCHANGED <<shipOf, mission, settled>>, started' = started,
           at' # "put" \/ UNCHANGED <<at, working>>,
           (at' \in {"flows", "work", "put", "end"}) => (seen' = Posted \/ (seen' = seen /\ at \in {"flows", "work", "put", "end"}))
    PROVE  (Writing /\ FreshGens /\ OwnClaims /\ ClaimsVisible /\ StartedAfter /\ ClaimedSince /\ BillsClaimedOnce)'
<1> USE DEF ClaimInv
<1>1. Writing' /\ FreshGens' /\ OwnClaims' /\ StartedAfter' /\ ClaimedSince'
    BY DEF Writing, FreshGens, OwnClaims, StartedAfter, ClaimedSince
<1>2. AllClaims' = AllClaims /\ Posted' = Posted /\ BillsClaimedOnce'
    BY DEF AllClaims, Posted, BillsClaimedOnce, BillsOf
<1>3. ClaimsVisible'
    BY <1>2 DEF ClaimsVisible
<1>4. QED
    BY <1>1, <1>2, <1>3

Claims == Writing /\ FreshGens /\ OwnClaims /\ ClaimsVisible /\ StartedAfter /\ ClaimedSince /\ BillsClaimedOnce

\* A bill posted now has been claimed by nobody.
LEMMA PostStep ==
    ASSUME ClaimInv, NEW b \in Bills, NEW s \in Ships, Post(b, s)
    PROVE  Claims'
<1> USE DEF ClaimInv, Post, durable
<1>1. b \notin AllClaims
    BY BillAssumption DEF ClaimsVisible, Posted
<1>2. /\ UNCHANGED <<mission, settled, at, working, seen, started>>
      /\ shipOf' = [shipOf EXCEPT ![b] = s]
    OBVIOUS
<1>3. /\ \A t \in Ships : b \notin mission[t].ids
      /\ \A g \in Gens : b \notin settled[g].ids
    BY <1>1 DEF AllClaims
<1>4. Writing' /\ FreshGens' /\ ClaimedSince' /\ BillsClaimedOnce'
    BY <1>2 DEF Writing, FreshGens, ClaimedSince, BillsClaimedOnce, BillsOf
<1>5. shipOf \in [Bills -> Ships \cup {NoShip}]
    BY DEF TypeOK
<1>6. OwnClaims'
    BY <1>2, <1>3, <1>5 DEF OwnClaims, TypeOK
<1>7. StartedAfter'
  <2>1. \A g \in Gens : settled[g].ids \subseteq Bills
      BY DEF TypeOK
  <2>2. QED
      BY <1>2, <1>3, <1>5, <2>1 DEF StartedAfter
<1>8. AllClaims' = AllClaims /\ Posted \subseteq Posted'
    BY <1>2, <1>5, BillAssumption DEF AllClaims, Posted
<1>9. QED
    BY <1>2, <1>4, <1>6, <1>7, <1>8 DEF ClaimsVisible, Claims

\* A new mission lists every bill claimed so far among its initial ones.
LEMMA NewVoyageStep ==
    ASSUME ClaimInv, NEW s \in Ships, NewVoyage(s)
    PROVE  Claims'
<1> DEFINE row == [gen |-> started + 1, phase |-> "open", initial |-> seen, ids |-> {}]
<1>1. /\ mission' = [mission EXCEPT ![s] = row] /\ mission[s] = NoRow
      /\ started' = started + 1 /\ started + 1 \in Gens /\ started \in Nat
      /\ UNCHANGED <<shipOf, settled, seen>> /\ at = "work" /\ at' = "end"
    BY BillAssumption DEF NewVoyage, Work, ClaimInv, FreshGens, TypeOK, Gens
<1>2. /\ mission'[s] = row
      /\ \A t \in Ships : t # s => mission'[t] = mission[t]
      /\ \A t \in Ships : mission[t].gen \in 0..started
    BY <1>1 DEF ClaimInv, TypeOK, FreshGens, NoRow, NoGen
<1>3. /\ settled[started + 1] = Unwritten
      /\ AllClaims \subseteq seen
    BY <1>1 DEF ClaimInv, FreshGens, ClaimsVisible
<1>4. Writing' /\ FreshGens'
  <2>1. Writing'
      BY <1>1 DEF Writing
  <2>2. \A t \in Ships : IF mission'[t].phase = "none" THEN mission'[t] = NoRow ELSE mission'[t].gen \in 1..started'
      BY <1>1, <1>2 DEF ClaimInv, FreshGens
  <2>3. \A t \in Ships, u \in Ships : t # u /\ mission'[t].gen # NoGen => mission'[t].gen # mission'[u].gen
      BY <1>1, <1>2 DEF ClaimInv, FreshGens, NoGen
  <2>4. \A g \in Gens : g > started' => settled'[g] = Unwritten
      BY <1>1 DEF ClaimInv, FreshGens, Gens
  <2>5. QED
      BY <2>1, <2>2, <2>3, <2>4 DEF FreshGens
<1>5. OwnClaims' /\ ClaimedSince'
    BY <1>1, <1>2, <1>3 DEF ClaimInv, OwnClaims, ClaimedSince
<1>6. StartedAfter'
    BY <1>1, <1>2, <1>3 DEF ClaimInv, StartedAfter, AllClaims, TypeOK
<1>7. AllClaims' \subseteq AllClaims
    BY <1>1, <1>2 DEF AllClaims
<1>8. ClaimsVisible'
    BY <1>1, <1>3, <1>7 DEF ClaimInv, ClaimsVisible, Posted
<1>9. \A g \in Gens : BillsOf(g)' \subseteq BillsOf(g)
    BY <1>1, <1>2 DEF BillsOf
<1>10. BillsClaimedOnce'
    BY <1>9 DEF ClaimInv, BillsClaimedOnce
<1>11. QED
    BY <1>4, <1>5, <1>6, <1>8, <1>10 DEF Claims

\* Deleting a row, settled or cancelled, only forgets.
LEMMA DropStep ==
    ASSUME ClaimInv, NEW s \in Ships, Cancel(s) \/ Delete(s)
    PROVE  Claims'
<1>1. /\ mission' = [mission EXCEPT ![s] = NoRow]
      /\ UNCHANGED <<shipOf, settled, seen, started>> /\ at = "work" /\ at' = "end"
    BY DEF Cancel, Delete, Work
<1>2. /\ mission'[s] = NoRow
      /\ \A t \in Ships : t # s => mission'[t] = mission[t]
    BY <1>1 DEF ClaimInv, TypeOK
<1>3. Writing' /\ FreshGens' /\ OwnClaims' /\ ClaimedSince' /\ StartedAfter'
    BY <1>1, <1>2 DEF ClaimInv, Writing, FreshGens, OwnClaims, ClaimedSince, StartedAfter, NoRow, NoGen
<1>4. AllClaims' \subseteq AllClaims /\ \A g \in Gens : BillsOf(g)' \subseteq BillsOf(g)
    BY <1>1, <1>2 DEF AllClaims, BillsOf, NoRow
<1>5. ClaimsVisible' /\ BillsClaimedOnce'
    BY <1>1, <1>4 DEF ClaimInv, ClaimsVisible, BillsClaimedOnce, Posted
<1>6. QED
    BY <1>3, <1>5 DEF Claims

\* The bills a settling mission claims are of its ship and newer than it, so
\* no other mission holds them.
LEMMA ClaimStep ==
    ASSUME ClaimInv, NEW s \in Ships, Claim(s)
    PROVE  Claims'
<1> DEFINE ids == Unclaimed(s, Merged)
<1>1. /\ mission' = [mission EXCEPT ![s] = [mission[s] EXCEPT !.phase = "settling", !.ids = ids]]
      /\ mission[s].phase = "open"
      /\ UNCHANGED <<shipOf, settled, seen, started>> /\ at = "work" /\ at' = "end"
    BY DEF Claim, Work, ClaimInv, TypeOK
<1>2. /\ ids \subseteq seen /\ ids \subseteq Bills
      /\ \A b \in ids : shipOf[b] = s /\ b \notin mission[s].initial
    BY DEF Unclaimed, ClaimInv, TypeOK
<1> HIDE DEF ids
<1>3. /\ mission'[s].gen = mission[s].gen /\ mission'[s].phase = "settling"
      /\ mission'[s].initial = mission[s].initial /\ mission'[s].ids = ids
      /\ \A t \in Ships : t # s => mission'[t] = mission[t]
    BY <1>1 DEF ClaimInv, TypeOK
<1>4. /\ mission[s].gen \in Gens /\ settled[mission[s].gen] = Unwritten /\ mission[s].ids = {}
      /\ \A t \in Ships : t # s => mission[t].gen # mission[s].gen
    BY <1>1 DEF ClaimInv, FreshGens, OwnClaims, TypeOK, NoGen, Gens
<1>5. \A b \in ids : /\ \A g \in Gens : b \notin settled[g].ids
                     /\ \A t \in Ships : b \notin mission[t].ids
    BY <1>1, <1>2, <1>4 DEF ClaimInv, StartedAfter, OwnClaims, Unwritten
<1>6. Writing' /\ ClaimedSince'
    BY <1>1, <1>2, <1>3 DEF ClaimInv, Writing, ClaimedSince
<1>7. FreshGens'
    BY <1>1, <1>3 DEF ClaimInv, FreshGens, NoGen
<1>8. OwnClaims'
    BY <1>1, <1>2, <1>3, <1>4 DEF ClaimInv, OwnClaims
<1>9. StartedAfter'
    BY <1>1, <1>3 DEF ClaimInv, StartedAfter
<1>10. AllClaims' \subseteq AllClaims \cup ids
    BY <1>1, <1>3 DEF AllClaims
<1>11. ClaimsVisible'
  <2>1. ids \subseteq Posted
      BY <1>2, BillAssumption DEF Posted
  <2>2. Posted' = Posted
      BY <1>1 DEF Posted
  <2>3. QED
      BY <1>1, <1>2, <1>10, <2>1, <2>2 DEF ClaimInv, ClaimsVisible
<1>12. BillsClaimedOnce'
  <2>1. \A g \in Gens : g # mission[s].gen => BillsOf(g)' = BillsOf(g)
      BY <1>1, <1>3, <1>4 DEF BillsOf
  <2>2. \A g \in Gens : g = mission[s].gen => BillsOf(g)' \subseteq ids
      BY <1>1, <1>3, <1>4 DEF BillsOf, Unwritten
  <2>3. \A g \in Gens : ids \cap BillsOf(g) = {}
      BY <1>5 DEF BillsOf
  <2>4. SUFFICES ASSUME NEW g \in Gens, NEW h \in Gens, g # h PROVE BillsOf(g)' \cap BillsOf(h)' = {}
      BY <1>1 DEF BillsClaimedOnce, Gens
  <2>5. CASE g # mission[s].gen /\ h # mission[s].gen
      BY <2>1, <2>4, <2>5 DEF ClaimInv, BillsClaimedOnce
  <2>6. CASE g = mission[s].gen
    <3>1. BillsOf(g)' \subseteq ids /\ BillsOf(h)' = BillsOf(h) /\ ids \cap BillsOf(h) = {}
        BY <2>1, <2>2, <2>3, <2>4, <2>6
    <3>2. QED
        BY <3>1
  <2>7. CASE h = mission[s].gen
    <3>1. BillsOf(h)' \subseteq ids /\ BillsOf(g)' = BillsOf(g) /\ ids \cap BillsOf(g) = {}
        BY <2>1, <2>2, <2>3, <2>4, <2>7
    <3>2. QED
        BY <3>1
  <2>8. QED
      BY <2>5, <2>6, <2>7
<1>13. QED
    BY <1>6, <1>7, <1>8, <1>9, <1>11, <1>12 DEF Claims

\* The settlement written is the claim the mission row already holds.
LEMMA PutStep ==
    ASSUME ClaimInv, NEW s \in Ships, PutSettlement(s)
    PROVE  Claims'
<1> DEFINE g0 == mission[s].gen
<1>1. /\ settled' = [settled EXCEPT ![g0] = Row(mission[s].ids)]
      /\ mission[s].phase = "settling" /\ at = "work" /\ at' = "put" /\ working' = s
      /\ UNCHANGED <<shipOf, mission, seen, started>>
    BY DEF PutSettlement, Work
<1>2. /\ g0 \in Gens /\ g0 \in 1..started
      /\ \A t \in Ships : t # s => mission[t].gen # g0
    BY <1>1 DEF ClaimInv, FreshGens, TypeOK, NoGen, Gens
<1>3. /\ settled'[g0] = Row(mission[s].ids)
      /\ \A g \in Gens : g # g0 => settled'[g] = settled[g]
    BY <1>1, <1>2 DEF ClaimInv, TypeOK
<1>4. Writing' /\ ClaimedSince'
    BY <1>1 DEF ClaimInv, Writing, ClaimedSince
<1>5. FreshGens'
    BY <1>1, <1>2, <1>3 DEF ClaimInv, FreshGens, TypeOK, Gens
<1>6. OwnClaims'
    BY <1>1, <1>2, <1>3 DEF ClaimInv, OwnClaims, FreshGens, TypeOK, NoGen, Gens, NoRow
<1>7. \A t \in Ships : t # s => \A b \in mission[s].ids : shipOf[b] # t
    BY DEF ClaimInv, OwnClaims
<1>8. StartedAfter'
    BY <1>1, <1>2, <1>3, <1>7 DEF ClaimInv, StartedAfter, Row
<1>9. /\ \A g \in Gens : BillsOf(g)' \subseteq BillsOf(g)
      /\ AllClaims' \subseteq AllClaims
    BY <1>1, <1>2, <1>3 DEF BillsOf, AllClaims, Row
<1>10. BillsClaimedOnce' /\ ClaimsVisible'
    BY <1>1, <1>9 DEF ClaimInv, BillsClaimedOnce, ClaimsVisible, Posted
<1>11. QED
    BY <1>4, <1>5, <1>6, <1>8, <1>10 DEF Claims

\* Saving the settled phase changes no claim.
LEMMA SaveStep ==
    ASSUME ClaimInv, SaveSettled
    PROVE  Claims'
<1>1. /\ working \in Ships /\ mission[working].phase = "settling"
      /\ mission' = [mission EXCEPT ![working] = [mission[working] EXCEPT !.phase = "settled"]]
      /\ UNCHANGED <<shipOf, settled, seen, started>> /\ at = "put" /\ at' = "end"
    BY DEF SaveSettled, ClaimInv, Writing, TypeOK
<1>2. /\ mission'[working].gen = mission[working].gen /\ mission'[working].phase = "settled"
      /\ mission'[working].initial = mission[working].initial /\ mission'[working].ids = mission[working].ids
      /\ \A t \in Ships : t # working => mission'[t] = mission[t]
    BY <1>1 DEF ClaimInv, TypeOK
<1>3. Writing' /\ FreshGens'
    BY <1>1, <1>2 DEF ClaimInv, Writing, FreshGens, NoGen
<1>4. OwnClaims' /\ ClaimedSince' /\ StartedAfter'
    BY <1>1, <1>2 DEF ClaimInv, OwnClaims, ClaimedSince, StartedAfter
<1>5. AllClaims' = AllClaims /\ \A g \in Gens : BillsOf(g)' = BillsOf(g)
    BY <1>1, <1>2 DEF AllClaims, BillsOf
<1>6. ClaimsVisible' /\ BillsClaimedOnce'
    BY <1>1, <1>5 DEF ClaimInv, ClaimsVisible, BillsClaimedOnce, Posted
<1>7. QED
    BY <1>3, <1>4, <1>6 DEF Claims

\* ClaimInv is inductive: it holds in every reachable state.
THEOREM ClaimInvariant == Spec => []ClaimInv
<1>1. Init => ClaimInv
    BY InitClaims
<1>2. ClaimInv /\ [Next]_vars => ClaimInv'
  <2>1. SUFFICES ASSUME ClaimInv, [Next]_vars PROVE Claims'
      BY StepTypes DEF ClaimInv, Claims
  <2>2. ASSUME Start \/ Die \/ Refresh \/ RecordFlows \/ SkipFlows \/ Idle \/ EndPass \/ UNCHANGED vars
        PROVE  Claims'
    <3>1. /\ UNCHANGED <<shipOf, mission, settled>> /\ started' = started
          /\ at' # "put" \/ UNCHANGED <<at, working>>
          /\ (at' \in {"flows", "work", "put", "end"}) =>
                 (seen' = Posted \/ (seen' = seen /\ at \in {"flows", "work", "put", "end"}))
        BY <2>2 DEF Start, Die, Refresh, RecordFlows, SkipFlows, Idle, Work, EndPass, vars, durable
    <3>2. QED
        BY <2>1, <3>1, QuietStep DEF Claims
  <2>3. QED
      BY <2>1, <2>2, PostStep, NewVoyageStep, DropStep, ClaimStep, PutStep, SaveStep DEF Next, Pass
<1>3. QED
    BY <1>1, <1>2, PTL DEF Spec

\* claimBillsSince assigns each ship-attributed overhead debit to one mission
\* only, however often the process dies and whatever part of the claims it
\* loses.
THEOREM BillsClaimedOnceHolds == Spec => []BillsClaimedOnce
<1>1. ClaimInv => BillsClaimedOnce
    BY DEF ClaimInv
<1>2. QED
    BY <1>1, ClaimInvariant, PTL

\* finishMission: a settlement replayed after a crash is the frozen one, so
\* PutSettlement never meets a conflicting row.
THEOREM SettledAsFrozenHolds == Spec => []SettledAsFrozen
<1>1. ClaimInv => SettledAsFrozen
    BY DEF ClaimInv, OwnClaims, SettledAsFrozen
<1>2. QED
    BY <1>1, ClaimInvariant, PTL

-----------------------------------------------------------------------------
(* The "__growth" control *)


LEMMA Bounds ==
    /\ Price \in Nat /\ Reserve \in Nat /\ Loans \in Nat /\ MaxGen \in Nat /\ MaxSave \in Nat /\ MaxRefits \in Nat
    /\ Price > 0 /\ None \notin Nat /\ Need \in Nat /\ Need > 0
    /\ Kinds \subseteq {"lane", "savings", "credit"}
    /\ None \notin GrowthRow /\ None \notin Fin /\ None \notin Act
    /\ None \notin [req : BOOLEAN, refused : BOOLEAN]
BY GrowthAssumption, GrowthNone DEF Need

USE Bounds

-----------------------------------------------------------------------------
(* Types *)

Stages == {"build", "refit", "loan-request", "loan-accept", "loan-repay"}

LEMMA NewTypes ==
    /\ \A stage \in Stages : NewAct(stage) \in Act
    /\ \A n \in Nat, e \in Nat : NewFin(n, e) \in Fin
BY DEF NewAct, Act, NewFin, Fin, Stages

LEMMA WorldTypes ==
    ASSUME GrowthTypeOK
    PROVE  /\ gw \in World /\ gw.cash \in Nat /\ gw.hulls \in Nat /\ gw.loan \in [Ids -> Nat \cup {None}]
           /\ \A c \in Nat : [gw EXCEPT !.cash = c] \in World
BY DEF GrowthTypeOK, World

LEMMA ServerTypes ==
    ASSUME GrowthTypeOK, CaptureGrowth \/ GrowthServer
    PROVE  GrowthTypeOK'
<1>1. gw' \in World
  <2>1. CASE gw' = gw
      BY <2>1 DEF GrowthTypeOK
  <2>2. CASE gw.cash < Reserve + Need /\ gw' = [gw EXCEPT !.cash = @ + 1]
      BY <2>2 DEF GrowthTypeOK, World
  <2>3. CASE gw.cash >= Need /\ gw' = [gw EXCEPT !.cash = @ - 1]
      BY <2>3 DEF GrowthTypeOK, World
  <2>4. CASE gw' = [gw EXCEPT !.quote = TRUE]
      BY <2>4 DEF GrowthTypeOK, World
  <2>5. CASE gw' = [gw EXCEPT !.req = "lapsed", !.quote = FALSE]
      BY <2>5 DEF GrowthTypeOK, World
  <2>6. QED
      BY <2>1, <2>2, <2>3, <2>4, <2>5 DEF CaptureGrowth, GrowthServer
<1>2. gseen' \in World \cup {None}
    BY DEF CaptureGrowth, GrowthServer, GrowthTypeOK
<1>3. UNCHANGED <<gm, voy, snap, again, history>>
    BY DEF CaptureGrowth, GrowthServer
<1>4. QED
    BY <1>1, <1>2, <1>3 DEF GrowthTypeOK, snap, history

LEMMA RowTypes ==
    ASSUME GrowthTypeOK, gm # None
    PROVE  /\ gm \in GrowthRow /\ gm.gen \in GrowthGens /\ gm.refits \in Nat
           /\ gm.act \in Act \cup {None} /\ gm.fin \in Fin \cup {None}
           /\ gm.pl \in [req : BOOLEAN, refused : BOOLEAN] \cup {None}
           /\ \A f \in Fin \cup {None}, a \in Act \cup {None} :
                /\ [gm EXCEPT !.act = a] \in GrowthRow
                /\ [gm EXCEPT !.fin = f] \in GrowthRow
                /\ Stage(gm, "build") \in GrowthRow
           /\ gm.fin # None => gm.fin.got \in SUBSET Ids /\ gm.fin.want \in Nat /\ gm.fin.each \in Nat
           /\ gm.act # None => gm.act.loan \in Ids \cup {None}
<1>1. gm \in GrowthRow
    BY DEF GrowthTypeOK
<1>2. NewAct("build") \in Act
    BY NewTypes DEF Stages
<1>3. QED
    BY <1>1, <1>2 DEF GrowthRow, Stage, Fin, Act

\* A capture that cannot pay is short by a positive amount.
LEMMA GapTypes ==
    ASSUME GrowthTypeOK, gseen # None, ~Fundable(gseen)
    PROVE  Gap(gseen) \in Nat
<1>1. gseen.cash \in Nat
    BY DEF GrowthTypeOK, World
<1>2. QED
    BY <1>1 DEF Fundable, Gap

\* A new row.
LEMMA StartTypes ==
    ASSUME GrowthTypeOK, (\E whole \in BOOLEAN : StartGrowth(whole)) \/ StagePlayerLoan \/ StageLiens
    PROVE  GrowthTypeOK'
<1>1. gens' \in 0..MaxGen
    BY DEF StartGrowth, StagePlayerLoan, StageLiens, Wants, GrowthIdle, GrowthTypeOK
<1>2. sav' \in 0..MaxSave \cup {None} /\ {fb', off', exp'} \subseteq BOOLEAN
    BY DEF StartGrowth, StagePlayerLoan, StageLiens, GrowthTypeOK
<1>3. gm' \in GrowthRow \cup {None}
  <2>1. gm' = gm \/ (GrowthIdle /\ gens + 1 \in GrowthGens)
      BY DEF StartGrowth, StagePlayerLoan, StageLiens, Wants, GrowthIdle, GrowthTypeOK, GrowthGens
  <2>2. CASE gm' = gm
      BY <2>2 DEF GrowthTypeOK
  <2>3. CASE GrowthIdle /\ gens + 1 \in GrowthGens
    <3>1. \A k \in {"lane", "capacity"}, ph \in {"growth_build", "growth_loan_request", "growth_finance"} :
             NewRow(k, ph) \in GrowthRow
        BY <2>3 DEF NewRow, GrowthRow
    <3>2. \A k \in {"lane", "capacity"} : Stage(NewRow(k, "growth_build"), "build") \in GrowthRow
        BY <3>1, NewTypes DEF Stage, Stages, GrowthRow
    <3>3. Stage([NewRow("capacity", "growth_loan_request") EXCEPT !.pl = [req |-> FALSE, refused |-> FALSE]], "loan-request") \in GrowthRow
        BY <3>1, NewTypes DEF Stage, Stages, GrowthRow
    <3>4. ASSUME StageLiens, gm' # gm PROVE gm' \in GrowthRow
      <4>1. Gap(gseen) \in Nat
          BY <3>4, GapTypes DEF StageLiens, Wants, GrowthIdle
      <4>2. NewFin(Gap(gseen), 1) \in Fin
          BY <4>1, NewTypes
      <4>3. gm' = [NewRow("capacity", "growth_finance") EXCEPT !.fin = NewFin(Gap(gseen), 1)]
          BY <3>4 DEF StageLiens
      <4>4. QED
          BY <3>1, <4>2, <4>3 DEF GrowthRow
    <3>5. QED
        BY <2>2, <3>2, <3>3, <3>4 DEF StartGrowth, StagePlayerLoan
  <2>4. QED
      BY <2>1, <2>2, <2>3
<1>4. UNCHANGED <<gw, gseen, voy, again, adopted, kept, created>>
    BY DEF StartGrowth, StagePlayerLoan, StageLiens
<1>5. QED
    BY <1>1, <1>2, <1>3, <1>4 DEF GrowthTypeOK

\* Steps outside the row.
LEMMA SnapTypes ==
    ASSUME GrowthTypeOK,
           Tick \/ WindowPasses \/ BuildByPasses \/ (\E g \in GrowthGens : VoyageMoves(g)) \/ SaveUp \/ EndSavings
    PROVE  GrowthTypeOK'
<1>1. sav' \in 0..MaxSave \cup {None}
  <2>1. CASE SaveUp
    <3>1. PICK d \in 1..MaxSave : sav' = SavingsTarget(d)
        BY <2>1 DEF SaveUp
    <3>2. QED
        BY <3>1 DEF SavingsTarget, GrowthTypeOK
  <2>2. QED
      BY <2>1 DEF Tick, WindowPasses, BuildByPasses, VoyageMoves, EndSavings, GrowthTypeOK, snap
<1>2. {fb', off', exp'} \subseteq BOOLEAN
    BY DEF Tick, WindowPasses, BuildByPasses, VoyageMoves, SaveUp, EndSavings, GrowthTypeOK, snap
<1>3. voy' \in [GrowthGens -> {"none", "new", "advanced", "done"}]
    BY DEF Tick, WindowPasses, BuildByPasses, VoyageMoves, SaveUp, EndSavings, GrowthTypeOK
<1>4. gm' \in GrowthRow \cup {None}
  <2>1. CASE BuildByPasses
      BY <2>1 DEF BuildByPasses, GrowthTypeOK, GrowthRow, Fin
  <2>2. QED
      BY <2>1 DEF Tick, WindowPasses, VoyageMoves, SaveUp, EndSavings, GrowthTypeOK
<1>5. UNCHANGED <<gw, gseen, again, history>>
    BY DEF Tick, WindowPasses, BuildByPasses, VoyageMoves, SaveUp, EndSavings
<1>6. QED
    BY <1>1, <1>2, <1>3, <1>4, <1>5 DEF GrowthTypeOK, history

\* Steps of a pass that keep the row.
LEMMA RowGoesOn ==
    ASSUME GrowthTypeOK,
           \/ CancelFinancing(TRUE)
           \/ PlayerApprove \/ AcceptNext \/ FinancedBuild \/ RepayFinancing
           \/ RefitHull \/ Commission \/ SendGrowth \/ YardTooDear \/ AnswerGrowth \/ BuildByPasses
    PROVE  gm # None /\ gm' \in GrowthRow
<1>1. gm # None /\ gm \in GrowthRow
    BY DEF CancelFinancing, PlayerApprove, AcceptNext, FinancedBuild, RepayFinancing, RefitHull, Commission, SendGrowth,
       YardTooDear, AnswerGrowth, BuildByPasses, Asking, Financing, Going, At, Unsent, GrowthTypeOK
<1>2. CASE CancelFinancing(TRUE)
  <2>1. gm.fin \in Fin
      BY <1>1, <1>2 DEF CancelFinancing, Financing, GrowthRow
  <2>2. [gm EXCEPT !.fin.cancel = TRUE, !.phase = "growth_finance_repay"] \in GrowthRow
      BY <1>1, <2>1 DEF GrowthRow, Fin
  <2>3. QED
      BY <1>1, <1>2, <2>2 DEF CancelFinancing
<1>3. CASE AcceptNext \/ RefitHull
    BY <1>1, <1>3, NewTypes DEF AcceptNext, RefitHull, Stage, Stages, GrowthRow
<1>4. CASE PlayerApprove
  <2>1. Gap(gseen) \in Nat
      BY <1>4, GapTypes DEF PlayerApprove, Asking
  <2>2. NewFin(1, Gap(gseen)) \in Fin
      BY <2>1, NewTypes
  <2>3. QED
      BY <1>1, <1>4, <2>2, NewTypes DEF PlayerApprove, Stage, Stages, GrowthRow
<1>5. CASE FinancedBuild
    BY <1>1, <1>5, NewTypes DEF FinancedBuild, Stage, Stages, GrowthRow
<1>6. CASE RepayFinancing
  <2>1. PICK i \in Owing(gseen) : gm' = [gm EXCEPT !.act = [NewAct("loan-repay") EXCEPT !.loan = i]]
      BY <1>6 DEF RepayFinancing
  <2>2. i \in Ids
      BY <1>1, <1>6, <2>1 DEF RepayFinancing, Financing, Owing, GrowthRow, Fin
  <2>3. [NewAct("loan-repay") EXCEPT !.loan = i] \in Act
      BY <2>2 DEF NewAct, Act
  <2>4. QED
      BY <1>1, <2>1, <2>3 DEF GrowthRow
<1>7. CASE Commission
    BY <1>1, <1>7 DEF Commission, GrowthRow
<1>8. CASE SendGrowth \/ YardTooDear
    BY <1>1, <1>8 DEF SendGrowth, YardTooDear, Unsent, GrowthRow, Act
<1>9. CASE AnswerGrowth
  <2>1. PICK st \in {"receipt", "garbled", "refused", "throttled"} : gm' = [gm EXCEPT !.act.st = st]
      BY <1>9 DEF AnswerGrowth
  <2>2. gm.act \in Act
      BY <1>1, <1>9 DEF AnswerGrowth, GrowthRow
  <2>3. QED
      BY <1>1, <2>1, <2>2 DEF GrowthRow, Act
<1>10. CASE BuildByPasses
    BY <1>1, <1>10 DEF BuildByPasses, GrowthRow, Fin
<1>11. QED
    BY <1>1, <1>2, <1>3, <1>4, <1>5, <1>6, <1>7, <1>8, <1>9, <1>10

\* Steps of a pass that change or release the row.
LEMMA PassTypes ==
    ASSUME GrowthTypeOK,
           \/ \E whole \in BOOLEAN : \/ PlayerLapsed(whole) \/ PlayerNeedGone(whole) \/ RetireFinancing(whole)
                                     \/ CancelFinancing(whole) \/ Unwound(whole)
           \/ PlayerUnsent \/ PlayerApprove \/ AcceptNext \/ FinancedBuild \/ RepayFinancing
           \/ RefitHull \/ Commission \/ SendGrowth \/ YardTooDear \/ AnswerGrowth
    PROVE  GrowthTypeOK'
<1>1. sav' \in 0..MaxSave \cup {None}
    BY DEF PlayerLapsed, PlayerNeedGone, RetireFinancing, CancelFinancing, Unwound, PlayerUnsent, PlayerApprove,
       AcceptNext, FinancedBuild, RepayFinancing, RefitHull, Commission, SendGrowth, YardTooDear, AnswerGrowth,
       GrowthTypeOK, snap
<1>2. {fb', off', exp'} \subseteq BOOLEAN
  <2>1. CASE UNCHANGED <<fb, off, exp>>
      BY <2>1 DEF GrowthTypeOK
  <2>2. CASE \E whole \in BOOLEAN : \/ PlayerLapsed(whole) \/ PlayerNeedGone(whole) \/ CancelFinancing(whole) \/ Unwound(whole)
      BY <2>2 DEF PlayerLapsed, PlayerNeedGone, CancelFinancing, Unwound, GrowthTypeOK
  <2>3. CASE YardTooDear
      BY <2>3 DEF YardTooDear, GrowthTypeOK
  <2>4. QED
      BY <2>1, <2>2, <2>3 DEF RetireFinancing, PlayerUnsent, PlayerApprove,
         AcceptNext, FinancedBuild, RepayFinancing, RefitHull, Commission, SendGrowth, AnswerGrowth, snap
<1>3. gm # None /\ gm \in GrowthRow
    BY DEF PlayerLapsed, PlayerNeedGone, RetireFinancing, CancelFinancing, Unwound, PlayerUnsent, PlayerApprove,
       AcceptNext, FinancedBuild, RepayFinancing, RefitHull, Commission, SendGrowth, YardTooDear, AnswerGrowth,
       Asking, Financing, Going, At, Unsent, GrowthTypeOK
<1>4. gm' \in GrowthRow \cup {None}
  <2>1. CASE \E whole \in BOOLEAN : PlayerLapsed(whole) \/ PlayerNeedGone(whole) \/ RetireFinancing(whole)
                                    \/ Unwound(whole) \/ CancelFinancing(whole)
      BY <1>3, <2>1, RowGoesOn DEF PlayerLapsed, PlayerNeedGone, RetireFinancing, Unwound, CancelFinancing
  <2>2. CASE PlayerUnsent
      BY <1>3, <2>2, NewTypes DEF PlayerUnsent, Stage, Stages, GrowthRow
  <2>3. QED
      BY <2>1, <2>2, RowGoesOn
<1>5. UNCHANGED <<gw, gseen, voy, again, history>>
    BY DEF PlayerLapsed, PlayerNeedGone, RetireFinancing, CancelFinancing, Unwound, PlayerUnsent, PlayerApprove,
       AcceptNext, FinancedBuild, RepayFinancing, RefitHull, Commission, SendGrowth, YardTooDear, AnswerGrowth
<1>6. QED
    BY <1>1, <1>2, <1>4, <1>5 DEF GrowthTypeOK, history

\* The row ends.
LEMMA EndTypes ==
    ASSUME GrowthTypeOK, FinishControl \/ (\E heard \in BOOLEAN : Handoff(heard)) \/ HandoffAgain
    PROVE  GrowthTypeOK'
<1>1. kept' \subseteq Ids
    BY RowTypes DEF FinishControl, Settled, Handoff, HandoffAgain, GrowthTypeOK
<1>2. gm' \in GrowthRow \cup {None}
    BY DEF FinishControl, Handoff, HandoffAgain, HandoffGrowthMission, GrowthTypeOK
<1>3. again' \in GrowthGens \cup {None}
    BY RowTypes DEF FinishControl, Handoff, At, HandoffAgain, GrowthTypeOK
<1>4. voy' \in [GrowthGens -> {"none", "new", "advanced", "done"}] /\ created' \in [GrowthGens -> Nat]
  <2>1. ASSUME NEW g \in GrowthGens, HandoffGrowthMission(g)
        PROVE  voy' \in [GrowthGens -> {"none", "new", "advanced", "done"}] /\ created' \in [GrowthGens -> Nat]
      BY <2>1 DEF HandoffGrowthMission, GrowthTypeOK
  <2>2. QED
      BY <2>1, RowTypes DEF FinishControl, Handoff, At, HandoffAgain, GrowthTypeOK
<1>5. UNCHANGED <<gw, gseen, snap, gens, adopted>>
    BY DEF FinishControl, Handoff, HandoffAgain
<1>6. QED
    BY <1>1, <1>2, <1>3, <1>4, <1>5 DEF GrowthTypeOK, snap

\* The request: carried out, answered, read.
LEMMA CarryTypes ==
    ASSUME GrowthInv, CarryGrowth
    PROVE  GrowthTypeOK' /\ gm' \in GrowthRow
<1>1. GrowthTypeOK /\ RowsShaped /\ LoansKnown /\ gm # None /\ gm.act # None
    BY DEF GrowthInv, DebtInv, CarryGrowth
<1>2. gm \in GrowthRow /\ gm.act \in Act /\ gw \in World
    BY <1>1 DEF GrowthTypeOK, GrowthRow
<1>3. [gm EXCEPT !.act.done = TRUE] \in GrowthRow
    BY <1>2 DEF GrowthRow, Act
<1>4. gw' \in World /\ gm' \in GrowthRow
  <2>1. CASE gm.act.stage = "build" /\ gw.cash >= Price
             /\ gw' = [gw EXCEPT !.cash = @ - Price, !.hulls = @ + 1] /\ gm' = [gm EXCEPT !.act.done = TRUE]
    <3>1. gw.cash - Price \in Nat /\ gw.hulls + 1 \in Nat
        BY <1>2, <2>1 DEF World
    <3>2. gw' \in World
        BY <1>2, <2>1, <3>1 DEF World
    <3>3. QED
        BY <1>3, <2>1, <3>2
  <2>2. CASE gm.act.stage = "refit" /\ UNCHANGED gw /\ gm' = [gm EXCEPT !.act.done = TRUE]
      BY <1>2, <1>3, <2>2
  <2>3. CASE gm.act.stage = "loan-request"
             /\ gw' = [gw EXCEPT !.req = "open", !.quote = FALSE] /\ gm' = [gm EXCEPT !.act.done = TRUE]
      BY <1>2, <1>3, <2>3 DEF World
  <2>4. ASSUME NEW i \in Free(gw), gm.act.stage = "loan-accept",
               gw' = [gw EXCEPT !.loan[i] = gm.fin.each, !.cash = @ + gm.fin.each, !.quote = FALSE,
                                !.req = IF gm.pl # None THEN "funded" ELSE @],
               gm' = [gm EXCEPT !.act.done = TRUE, !.act.loan = i]
        PROVE  gw' \in World /\ gm' \in GrowthRow
    <3>1. i \in Ids
        BY DEF Free
    <3>2. gm.fin \in Fin
        BY <1>1, <1>2, <2>4 DEF RowsShaped, GrowthRow
    <3>3. gm.fin.each \in Nat
        BY <3>2 DEF Fin
    <3>4. [gw.loan EXCEPT ![i] = gm.fin.each] \in [Ids -> Nat \cup {None}]
        BY <1>2, <3>1, <3>3 DEF World
    <3>5. gw' \in World
      <4>1. gw.cash + gm.fin.each \in Nat
          BY <1>2, <3>3 DEF World
      <4>2. PICK l \in [Ids -> Nat \cup {None}], c \in Nat :
               /\ l = [gw.loan EXCEPT ![i] = gm.fin.each] /\ c = gw.cash + gm.fin.each
          BY <3>4, <4>1
      <4>3. gw' = [gw EXCEPT !.loan = l, !.cash = c, !.quote = FALSE, !.req = IF gm.pl # None THEN "funded" ELSE @]
          BY <2>4, <4>2
      <4>4. QED
          BY <1>2, <4>3 DEF World
    <3>6. gm' \in GrowthRow
        BY <1>2, <2>4, <3>1 DEF GrowthRow, Act
    <3>7. QED
        BY <3>5, <3>6
  <2>5. ASSUME gm.act.stage = "loan-repay", gw.cash >= gw.loan[gm.act.loan],
               gw' = [gw EXCEPT !.cash = @ - gw.loan[gm.act.loan], !.loan[gm.act.loan] = 0],
               gm' = [gm EXCEPT !.act.done = TRUE]
        PROVE  gw' \in World /\ gm' \in GrowthRow
    <3>1. gm.fin # None /\ gm.act.loan \in gm.fin.got
        BY <1>1, <2>5 DEF RowsShaped
    <3>2. gm.act.loan \in Ids
        BY <1>1, <3>1, RowTypes
    <3>3. gw.loan[gm.act.loan] # None
        BY <1>1, <3>1 DEF LoansKnown
    <3>4. gw.loan[gm.act.loan] \in Nat
        BY <1>2, <3>2, <3>3 DEF World
    <3>5. gw' \in World
      <4>1. gw.cash - gw.loan[gm.act.loan] \in Nat
          BY <1>2, <2>5, <3>4 DEF World
      <4>2. [gw.loan EXCEPT ![gm.act.loan] = 0] \in [Ids -> Nat \cup {None}]
          BY <1>2, <3>2 DEF World
      <4>3. PICK l \in [Ids -> Nat \cup {None}], c \in Nat :
               l = [gw.loan EXCEPT ![gm.act.loan] = 0] /\ c = gw.cash - gw.loan[gm.act.loan]
          BY <4>1, <4>2
      <4>4. gw' = [gw EXCEPT !.cash = c, !.loan = l]
          BY <2>5, <4>3
      <4>5. QED
          BY <1>2, <4>4 DEF World
    <3>6. QED
        BY <1>3, <2>5, <3>5
  <2>6. QED
      BY <2>1, <2>2, <2>3, <2>4, <2>5 DEF CarryGrowth
<1>5. UNCHANGED <<gseen, voy, snap, again, history>>
    BY DEF CarryGrowth
<1>6. QED
    BY <1>1, <1>4, <1>5 DEF GrowthTypeOK, snap, history

LEMMA ResultTypes ==
    ASSUME GrowthInv, NEW whole \in BOOLEAN, ResultGrowth(whole)
    PROVE  GrowthTypeOK' /\ gm' \in GrowthRow
<1>1. GrowthTypeOK /\ RowsShaped /\ gm # None /\ gm.act # None
    BY DEF GrowthInv, DebtInv, ResultGrowth
<1>2. gm \in GrowthRow /\ gm.act \in Act
    BY <1>1 DEF GrowthTypeOK, GrowthRow
<1>3. Done \in GrowthRow
    BY <1>2 DEF Done, GrowthRow
<1>4. gm' \in GrowthRow
  <2>1. CASE gm.act.stage \in {"build", "refit", "loan-repay"}
    <3>1. \/ gm' = gm \/ gm' = Done
          \/ gm' = [Done EXCEPT !.built = TRUE, !.phase = "growth_refit"]
          \/ gm' = [Done EXCEPT !.refits = MaxRefits, !.phase = "growth_provision"]
        BY <2>1 DEF ResultGrowth
    <3>2. [Done EXCEPT !.built = TRUE, !.phase = "growth_refit"] \in GrowthRow
        BY <1>3 DEF GrowthRow
    <3>3. [Done EXCEPT !.refits = MaxRefits, !.phase = "growth_provision"] \in GrowthRow
        BY <1>3 DEF GrowthRow
    <3>4. QED
        BY <1>2, <1>3, <3>1, <3>2, <3>3
  <2>2. CASE gm.act.stage = "loan-request"
    <3>1. gm.pl \in [req : BOOLEAN, refused : BOOLEAN] /\ Done.pl = gm.pl
        BY <1>1, <1>2, <2>2 DEF RowsShaped, GrowthRow, Done
    <3>2. gm' = [Done EXCEPT !.pl.req = TRUE, !.phase = "growth_loan_request"]
        BY <2>2 DEF ResultGrowth
    <3>3. QED
        BY <1>3, <3>1, <3>2 DEF GrowthRow
  <2>3. CASE gm.act.stage = "loan-accept"
    <3>1. gm.fin \in Fin /\ Done.fin = gm.fin /\ gm.act.loan \in Ids \cup {None}
        BY <1>1, <1>2, <2>3 DEF RowsShaped, GrowthRow, Done, Act
    <3>2. gm.act.done
        BY <1>1, <2>3 DEF ResultGrowth, GrowthEvidence, RowsShaped
    <3>3. gm.act.loan \in Ids
        BY <1>1, <2>3, <3>1, <3>2 DEF RowsShaped
    <3>4. PICK odd \in BOOLEAN :
             gm' = [Done EXCEPT !.fin.got = @ \cup {gm.act.loan}, !.fin.cancel = odd,
                                !.phase = IF odd THEN "growth_finance_repay" ELSE "growth_finance"]
        BY <2>3 DEF ResultGrowth, AcceptedLoan
    <3>5. [gm.fin EXCEPT !.got = @ \cup {gm.act.loan}, !.cancel = odd] \in Fin
        BY <3>1, <3>3 DEF Fin
    <3>6. QED
        BY <1>3, <3>1, <3>4, <3>5 DEF GrowthRow
  <2>4. QED
      BY <2>1, <2>2, <2>3 DEF ResultGrowth
<1>5. sav' \in 0..MaxSave \cup {None} /\ {fb', off', exp'} \subseteq BOOLEAN
    BY <1>1 DEF ResultGrowth, snap, GrowthTypeOK
<1>6. adopted' \in Nat
  <2>1. adopted' \in {adopted, adopted + 1}
      BY DEF ResultGrowth
  <2>2. adopted \in Nat
      BY <1>1 DEF GrowthTypeOK
  <2>3. QED
      BY <2>1, <2>2
<1>7. UNCHANGED <<gw, gseen, voy, again, gens, kept, created>>
    BY DEF ResultGrowth
<1>8. QED
    BY <1>1, <1>4, <1>5, <1>6, <1>7 DEF GrowthTypeOK

LEMMA RejectTypes ==
    ASSUME GrowthInv, NEW whole \in BOOLEAN, RejectGrowth(whole)
    PROVE  GrowthTypeOK' /\ (gm.act.stage # "loan-request" => gm' \in GrowthRow)
<1>1. GrowthTypeOK /\ RowsShaped /\ gm # None /\ gm.act # None
    BY DEF GrowthInv, DebtInv, RejectGrowth
<1>2. gm \in GrowthRow
    BY <1>1 DEF GrowthTypeOK
<1>3. Done \in GrowthRow
    BY <1>2 DEF Done, GrowthRow
<1>4. gm' \in GrowthRow \/ (gm' = None /\ gm.act.stage = "loan-request")
  <2>1. CASE gm.act.stage \in {"build", "loan-request", "loan-repay"} \/ (gm.act.stage = "loan-accept" /\ gm.pl = None)
      BY <1>2, <1>3, <2>1 DEF RejectGrowth, GrowthRow
  <2>2. CASE gm.act.stage = "loan-accept" /\ gm.pl # None
    <3>1. gm.pl \in [req : BOOLEAN, refused : BOOLEAN] /\ Done.pl = gm.pl
        BY <1>2, <2>2 DEF GrowthRow, Done
    <3>2. [Done EXCEPT !.pl.refused = TRUE, !.fin = None, !.phase = "growth_loan_request"] \in GrowthRow
        BY <1>3, <3>1 DEF GrowthRow
    <3>3. QED
        BY <1>3, <2>2, <3>2 DEF RejectGrowth
  <2>3. CASE gm.act.stage = "refit"
    <3>1. gm' = [Done EXCEPT !.refits = IF gm.kind = "lane" THEN @ ELSE IF gm.act.st # "throttled" THEN MaxRefits ELSE @ + 1]
        BY <2>3 DEF RejectGrowth
    <3>2. Done.refits \in Nat
        BY <1>3 DEF GrowthRow
    <3>3. QED
        BY <1>3, <3>1, <3>2 DEF GrowthRow
  <2>4. QED
      BY <2>1, <2>2, <2>3 DEF RejectGrowth
<1>5. {fb', off'} \subseteq BOOLEAN
  <2>1. fb' \in BOOLEAN
      BY <1>1 DEF RejectGrowth, GrowthTypeOK
  <2>2. off' \in BOOLEAN
      BY <1>1 DEF RejectGrowth, GrowthTypeOK
  <2>3. QED
      BY <2>1, <2>2
<1>6. UNCHANGED <<gw, gseen, voy, sav, exp, again, history>>
    BY DEF RejectGrowth
<1>7. QED
    BY <1>1, <1>4, <1>5, <1>6 DEF GrowthTypeOK, history

LEMMA GrowthStepTypes ==
    ASSUME GrowthInv, [GrowthNext]_gvars
    PROVE  GrowthTypeOK'
<1>1. GrowthTypeOK
    BY DEF GrowthInv
<1>2. CASE UNCHANGED gvars
    BY <1>1, <1>2 DEF gvars, GrowthTypeOK
<1>3. QED
    BY <1>1, <1>2, ServerTypes, StartTypes, SnapTypes, PassTypes, EndTypes, CarryTypes, ResultTypes, RejectTypes
       DEF GrowthNext, GrowthStep

-----------------------------------------------------------------------------
(* The handoff *)

\* A step within a pass keeps the row's admission or releases the row.
LEMMA SameAdmission ==
    ASSUME GrowthTypeOK, gm # None,
           \/ \E whole \in BOOLEAN : \/ PlayerLapsed(whole) \/ PlayerNeedGone(whole) \/ RetireFinancing(whole)
                                     \/ CancelFinancing(whole) \/ Unwound(whole)
                                     \/ ResultGrowth(whole) \/ RejectGrowth(whole)
           \/ PlayerUnsent \/ PlayerApprove \/ AcceptNext \/ FinancedBuild \/ RepayFinancing \/ BuildByPasses
           \/ RefitHull \/ Commission \/ SendGrowth \/ YardTooDear \/ AnswerGrowth \/ CarryGrowth \/ FinishControl
    PROVE  /\ gm' = None \/ gm'.gen = gm.gen
           /\ UNCHANGED <<gens, created>>
<1>1. gm \in GrowthRow
    BY DEF GrowthTypeOK
<1>2. UNCHANGED <<gens, created>>
    BY DEF PlayerLapsed, PlayerNeedGone, RetireFinancing, CancelFinancing, Unwound, ResultGrowth, RejectGrowth,
       PlayerUnsent, PlayerApprove, AcceptNext, FinancedBuild, RepayFinancing, BuildByPasses,
       RefitHull, Commission, SendGrowth, YardTooDear, AnswerGrowth, CarryGrowth, FinishControl, history
<1>3. gm' = None \/ gm'.gen = gm.gen
  <2>1. CASE \E whole \in BOOLEAN : \/ PlayerLapsed(whole) \/ PlayerNeedGone(whole) \/ RetireFinancing(whole)
                                    \/ CancelFinancing(whole) \/ Unwound(whole)
      BY <1>1, <2>1 DEF PlayerLapsed, PlayerNeedGone, RetireFinancing, CancelFinancing, Unwound, GrowthRow
  <2>2. CASE \E whole \in BOOLEAN : ResultGrowth(whole)
      BY <1>1, <2>2 DEF ResultGrowth, AcceptedLoan, Done, GrowthRow
  <2>3. CASE \E whole \in BOOLEAN : RejectGrowth(whole)
      BY <1>1, <2>3 DEF RejectGrowth, Done, GrowthRow
  <2>4. CASE PlayerUnsent \/ PlayerApprove \/ AcceptNext \/ FinancedBuild \/ RepayFinancing \/ RefitHull \/ Commission
      BY <1>1, <2>4 DEF PlayerUnsent, PlayerApprove, AcceptNext, FinancedBuild, RepayFinancing, RefitHull, Commission,
         Stage, GrowthRow
  <2>5. CASE BuildByPasses \/ SendGrowth \/ YardTooDear \/ AnswerGrowth \/ FinishControl
      BY <1>1, <2>5 DEF BuildByPasses, SendGrowth, YardTooDear, AnswerGrowth, FinishControl, GrowthRow
  <2>6. CASE CarryGrowth
      BY <1>1, <2>6 DEF CarryGrowth, GrowthRow
  <2>7. QED
      BY <2>1, <2>2, <2>3, <2>4, <2>5, <2>6
<1>4. QED
    BY <1>2, <1>3

\* The steps that are about a row.
LEMMA AboutRow ==
    ASSUME \/ \E whole \in BOOLEAN : \/ PlayerLapsed(whole) \/ PlayerNeedGone(whole) \/ RetireFinancing(whole)
                                     \/ CancelFinancing(whole) \/ Unwound(whole)
                                     \/ ResultGrowth(whole) \/ RejectGrowth(whole)
           \/ PlayerUnsent \/ PlayerApprove \/ AcceptNext \/ FinancedBuild \/ RepayFinancing \/ BuildByPasses
           \/ RefitHull \/ Commission \/ SendGrowth \/ YardTooDear \/ AnswerGrowth \/ CarryGrowth \/ FinishControl
    PROVE  gm # None
BY DEF PlayerLapsed, PlayerNeedGone, RetireFinancing, CancelFinancing, Unwound, ResultGrowth, RejectGrowth,
   PlayerUnsent, PlayerApprove, AcceptNext, FinancedBuild, RepayFinancing, BuildByPasses, Asking, Financing, Going, At,
   RefitHull, Commission, SendGrowth, YardTooDear, Unsent, AnswerGrowth, CarryGrowth, FinishControl

LEMMA HandoffStep ==
    ASSUME GrowthInv, [GrowthNext]_gvars
    PROVE  HandoffOnce' /\ HandoffInv'
<1>1. GrowthTypeOK /\ HandoffOnce /\ HandoffInv /\ created \in [GrowthGens -> Nat] /\ gens \in Nat
    BY DEF GrowthInv, GrowthTypeOK
<1>2. \A g \in GrowthGens : g \in Nat
    BY DEF GrowthGens
<1>3. CASE UNCHANGED <<gm, gens, created>>
    BY <1>1, <1>3 DEF HandoffOnce, HandoffInv
<1>4. ASSUME gm # None, gm' = None \/ gm'.gen = gm.gen, UNCHANGED <<gens, created>>
      PROVE  HandoffOnce' /\ HandoffInv'
    BY <1>1, <1>4 DEF HandoffOnce, HandoffInv
<1>5. CASE (\E whole \in BOOLEAN : StartGrowth(whole)) \/ StagePlayerLoan \/ StageLiens
  <2>1. CASE UNCHANGED <<gm, gens, created>>
      BY <1>3, <2>1
  <2>2. CASE gens' = gens + 1 /\ gens < MaxGen /\ gm'.gen = gens + 1 /\ created' = created
    <3>1. gens + 1 \in GrowthGens /\ created[gens + 1] = 0
        BY <1>1, <2>2 DEF GrowthGens, HandoffInv
    <3>2. HandoffInv'
        BY <1>1, <1>2, <2>2, <3>1 DEF HandoffInv
    <3>3. QED
        BY <1>1, <2>2, <3>2 DEF HandoffOnce
  <2>3. QED
    <3>1. gens < MaxGen \/ UNCHANGED <<gm, gens, created>>
        BY <1>5 DEF StartGrowth, StagePlayerLoan, StageLiens, Wants, GrowthIdle
    <3>2. UNCHANGED <<gm, gens, created>> \/ (gens' = gens + 1 /\ gm'.gen = gens + 1 /\ created' = created)
        BY <1>5 DEF StartGrowth, StagePlayerLoan, StageLiens, Stage, NewRow
    <3>3. QED
        BY <2>1, <2>2, <3>1, <3>2
<1>6. ASSUME NEW g \in GrowthGens, HandoffGrowthMission(g), UNCHANGED gens
      PROVE  HandoffOnce' /\ HandoffInv'
  <2>1. gm' = None
      BY <1>6 DEF HandoffGrowthMission
  <2>2. CASE created' = created
      BY <1>1, <1>6, <2>1, <2>2 DEF HandoffOnce, HandoffInv
  <2>3. CASE gm # None /\ created' = [created EXCEPT ![g] = @ + 1]
    <3>1. gm.gen = g /\ g <= gens /\ created[g] = 0
        BY <1>1, <1>6, <2>3 DEF HandoffGrowthMission, HandoffInv
    <3>2. \A h \in GrowthGens : created'[h] = IF h = g THEN 1 ELSE created[h]
        BY <1>1, <2>3, <3>1
    <3>3. QED
        BY <1>1, <1>2, <1>6, <2>1, <3>1, <3>2 DEF HandoffOnce, HandoffInv
  <2>4. QED
      BY <1>6, <2>2, <2>3 DEF HandoffGrowthMission
<1>7. CASE (\E heard \in BOOLEAN : Handoff(heard)) \/ HandoffAgain
  <2>1. again \in GrowthGens \cup {None} /\ (gm # None => gm.gen \in GrowthGens)
      BY <1>1, RowTypes DEF GrowthTypeOK
  <2>2. QED
      BY <1>3, <1>6, <1>7, <2>1 DEF Handoff, HandoffAgain, At
<1>8. CASE CaptureGrowth \/ GrowthServer \/ Tick \/ WindowPasses \/ (\E g \in GrowthGens : VoyageMoves(g))
           \/ SaveUp \/ EndSavings \/ UNCHANGED gvars
    BY <1>3, <1>8 DEF CaptureGrowth, GrowthServer, Tick, WindowPasses, VoyageMoves, SaveUp, EndSavings, gvars, history
<1>9. QED
    BY <1>1, <1>4, <1>5, <1>7, <1>8, SameAdmission, AboutRow DEF GrowthNext, GrowthStep

-----------------------------------------------------------------------------
(* The debt *)

\* A step that leaves the row and its loans alone.
LEMMA QuietDebt ==
    ASSUME GrowthInv, UNCHANGED <<gm, kept>>, gw'.loan = gw.loan, gseen' = gseen \/ gseen' = gw
    PROVE  DebtInv'
<1>1. RowsShaped' <=> RowsShaped
    BY DEF RowsShaped
<1>2. LoansKnown'
    BY DEF GrowthInv, DebtInv, LoansKnown
<1>3. NoOrphanDebt'
    BY DEF GrowthInv, DebtInv, NoOrphanDebt
<1>4. QED
    BY <1>1, <1>2, <1>3 DEF GrowthInv, DebtInv

\* The row is released when every loan that is owed is kept.
LEMMA ReleasedDebt ==
    ASSUME GrowthInv, gm' = None, UNCHANGED <<gw, gseen>>,
           \A i \in Ids : gw.loan[i] \notin {None, 0} => i \in kept'
    PROVE  DebtInv'
<1>1. LoansKnown'
    BY DEF GrowthInv, DebtInv, LoansKnown
<1>2. NoOrphanDebt'
    BY DEF NoOrphanDebt
<1>3. QED
    BY <1>1, <1>2 DEF DebtInv

\* A row without a loan, where none is owed.
LEMMA FreshDebt ==
    ASSUME GrowthInv, UNCHANGED <<gw, gseen, kept>>,
           \A i \in Ids : gw.loan[i] \notin {None, 0} => i \in kept,
           RowsShaped', gm'.fin # None => gm'.fin.got = {}, gm'.act # None => gm'.act.loan = None
    PROVE  DebtInv'
<1>1. LoansKnown'
    BY DEF GrowthInv, DebtInv, LoansKnown
<1>2. NoOrphanDebt'
    BY DEF NoOrphanDebt
<1>3. QED
    BY <1>1, <1>2 DEF DebtInv

\* The row goes on: it forgets no loan and makes none up.
LEMMA KeptDebt ==
    ASSUME GrowthInv, gm # None, gm' \in GrowthRow, UNCHANGED <<gw, gseen, kept>>, RowsShaped',
           gm'.fin # None =>
             \A i \in gm'.fin.got : (gm.fin # None /\ i \in gm.fin.got) \/ (gm.act # None /\ gm.act.loan = i /\ i # None),
           gm'.act # None /\ gm'.act.loan # None =>
             (gm.act # None /\ gm'.act.loan = gm.act.loan) \/ (gm.fin # None /\ gm'.act.loan \in gm.fin.got),
           gm.fin # None => gm'.fin # None /\ gm.fin.got \subseteq gm'.fin.got,
           gm.act # None /\ gm.act.loan # None =>
             (gm'.act # None /\ gm'.act.loan = gm.act.loan) \/ (gm'.fin # None /\ gm.act.loan \in gm'.fin.got)
    PROVE  DebtInv'
<1>1. gm' # None
    OBVIOUS
<1>2. LoansKnown'
    BY DEF GrowthInv, DebtInv, LoansKnown
<1>3. NoOrphanDebt'
  <2>1. SUFFICES ASSUME NEW i \in Ids, gw.loan[i] \notin {None, 0}, i \notin kept
                 PROVE  gm'.fin # None /\ (i \in gm'.fin.got \/ (gm'.act # None /\ gm'.act.loan = i))
      BY <1>1 DEF NoOrphanDebt
  <2>2. gm.fin # None /\ (i \in gm.fin.got \/ (gm.act # None /\ gm.act.loan = i)) /\ i # None
      BY <2>1 DEF GrowthInv, DebtInv, NoOrphanDebt, Ids
  <2>3. QED
      BY <2>2
<1>4. QED
    BY <1>2, <1>3 DEF DebtInv

\* Without a loan in the row and without a request for one, none is owed but kept ones.
LEMMA NothingOwed ==
    ASSUME GrowthInv,
           \/ gm = None \/ gm.fin = None
           \/ gm.fin.got = {} /\ (gm.act = None \/ gm.act.loan = None)
    PROVE  \A i \in Ids : gw.loan[i] \notin {None, 0} => i \in kept
<1>1. \A i \in Ids : i # None
    BY DEF Ids
<1>2. QED
    BY <1>1 DEF GrowthInv, DebtInv, NoOrphanDebt

\* Rows are released without a loan, or when it is repaid or the hull is built.
LEMMA ReleaseStep ==
    ASSUME GrowthInv,
           \/ \E whole \in BOOLEAN : \/ PlayerLapsed(whole) \/ PlayerNeedGone(whole)
                                     \/ RetireFinancing(whole) \/ Unwound(whole)
           \/ FinishControl
    PROVE  DebtInv'
<1>1. GrowthTypeOK /\ LoansKnown /\ gm # None /\ RowsShaped
    BY DEF GrowthInv, DebtInv, PlayerLapsed, PlayerNeedGone, RetireFinancing, Unwound, FinishControl, Asking, Financing
<1>2. ASSUME gm' = gm \/ gm' = None, UNCHANGED <<gw, gseen, kept>>,
             \A i \in Ids : gw.loan[i] \notin {None, 0} => i \in kept
      PROVE  DebtInv'
    BY <1>2, QuietDebt, ReleasedDebt
<1>3. CASE \E whole \in BOOLEAN : PlayerLapsed(whole) \/ PlayerNeedGone(whole)
  <2>1. gm.fin = None \/ (gm.fin.got = {} /\ gm.act = None)
      BY <1>3 DEF PlayerLapsed, PlayerNeedGone, Asking
  <2>2. QED
      BY <1>2, <1>3, <2>1, NothingOwed DEF PlayerLapsed, PlayerNeedGone, history
<1>4. CASE \E whole \in BOOLEAN : RetireFinancing(whole)
  <2>1. gm.act # None => gm.act.st = "staged" /\ gm.act.stage # "loan-repay" /\ gm.act.loan = None
      BY <1>1, <1>4 DEF RetireFinancing, RowsShaped
  <2>2. gm.fin = None \/ gm.fin.got = {}
      BY <1>4 DEF RetireFinancing
  <2>3. QED
      BY <1>2, <1>4, <2>1, <2>2, NothingOwed DEF RetireFinancing, history
<1>5. CASE \E whole \in BOOLEAN : Unwound(whole)
  <2>1. gm.act = None /\ gm.fin # None /\ gseen # None /\ Owing(gseen) = {}
      BY <1>5 DEF Unwound, Financing
  <2>2. gm.fin.got \subseteq Ids
      BY <1>1, <2>1, RowTypes
  <2>3. \A i \in gm.fin.got : gw.loan[i] = 0
      BY <1>1, <2>1, <2>2 DEF Owing, LoansKnown
  <2>4. \A i \in Ids : gw.loan[i] \notin {None, 0} => i \in kept
      BY <2>1, <2>3 DEF GrowthInv, DebtInv, NoOrphanDebt
  <2>5. QED
      BY <1>2, <1>5, <2>4 DEF Unwound, history
<1>6. CASE FinishControl
  <2>1. gm.act = None /\ (gm.fin = None \/ gm.built)
      BY <1>6 DEF FinishControl
  <2>2. \A i \in Ids : gw.loan[i] \notin {None, 0} => i \in kept'
      BY <1>6, <2>1 DEF GrowthInv, DebtInv, NoOrphanDebt, FinishControl, Settled
  <2>3. QED
      BY <1>6, <2>2, ReleasedDebt DEF FinishControl
<1>7. QED
    BY <1>3, <1>4, <1>5, <1>6

\* A new row has no loan yet.
LEMMA StartStep ==
    ASSUME GrowthInv, (\E whole \in BOOLEAN : StartGrowth(whole)) \/ StagePlayerLoan \/ StageLiens
    PROVE  DebtInv'
<1>1. gm = None /\ UNCHANGED <<gw, gseen, kept>>
    BY DEF StartGrowth, StagePlayerLoan, StageLiens, Wants, GrowthIdle
<1>2. \A i \in Ids : gw.loan[i] \notin {None, 0} => i \in kept
    BY <1>1, NothingOwed
<1>3. CASE gm' = gm
    BY <1>1, <1>3, QuietDebt
<1>4. CASE \E k \in {"lane", "capacity"} : gm' = Stage(NewRow(k, "growth_build"), "build")
  <2>1. gm'.phase = "growth_build" /\ gm'.fin = None /\ gm'.pl = None /\ gm'.act = NewAct("build")
      BY <1>4 DEF Stage, NewRow
  <2>2. RowsShaped'
      BY <2>1 DEF RowsShaped, NewAct
  <2>3. QED
      BY <1>1, <1>2, <2>1, <2>2, FreshDebt DEF NewAct
<1>5. CASE gm' = Stage([NewRow("capacity", "growth_loan_request") EXCEPT !.pl = [req |-> FALSE, refused |-> FALSE]], "loan-request")
  <2>1. /\ gm'.kind = "capacity" /\ gm'.phase = "growth_loan_request" /\ gm'.fin = None
        /\ gm'.pl = [req |-> FALSE, refused |-> FALSE] /\ gm'.act = NewAct("loan-request")
      BY <1>5 DEF Stage, NewRow
  <2>2. gm'.pl # None
    <3>1. [req |-> FALSE, refused |-> FALSE] \in [req : BOOLEAN, refused : BOOLEAN]
        OBVIOUS
    <3>2. QED
        BY <2>1, <3>1
  <2>3. RowsShaped'
      BY <2>1, <2>2 DEF RowsShaped, NewAct
  <2>4. QED
      BY <1>1, <1>2, <2>1, <2>3, FreshDebt DEF NewAct
<1>6. CASE gm' = [NewRow("capacity", "growth_finance") EXCEPT !.fin = NewFin(Gap(gseen), 1)]
  <2>1. /\ gm'.kind = "capacity" /\ gm'.phase = "growth_finance" /\ gm'.fin = NewFin(Gap(gseen), 1)
        /\ gm'.pl = None /\ gm'.act = None
      BY <1>6 DEF NewRow
  <2>2. RowsShaped'
      BY <2>1 DEF RowsShaped
  <2>3. QED
      BY <1>1, <1>2, <2>1, <2>2, FreshDebt DEF NewFin
<1>7. QED
    BY <1>3, <1>4, <1>5, <1>6 DEF StartGrowth, StagePlayerLoan, StageLiens

\* No request for a loan or its repayment: the row changes beside its loans.
LEMMA PassStep ==
    ASSUME GrowthInv,
           \/ \E whole \in BOOLEAN : CancelFinancing(whole)
           \/ PlayerApprove \/ AcceptNext \/ FinancedBuild \/ RepayFinancing
           \/ RefitHull \/ Commission \/ BuildByPasses \/ SendGrowth \/ YardTooDear \/ AnswerGrowth
    PROVE  DebtInv'
<1>1. /\ GrowthTypeOK /\ gm # None /\ RowsShaped /\ gm \in GrowthRow
      /\ UNCHANGED <<gw, gseen, kept>>
    BY RowTypes DEF GrowthInv, DebtInv, CancelFinancing, PlayerApprove, AcceptNext, FinancedBuild, RepayFinancing,
       RefitHull, Commission, BuildByPasses, SendGrowth, YardTooDear, AnswerGrowth, Asking, Financing, Going, At, Unsent,
       history
<1>2. CASE gm' = gm
    BY <1>1, <1>2, QuietDebt
<1>3. CASE CancelFinancing(TRUE)
  <2>1. /\ gm.fin # None /\ gm.act = None /\ gm.fin \in Fin
        /\ gm' = [gm EXCEPT !.fin.cancel = TRUE, !.phase = "growth_finance_repay"] /\ gm' \in GrowthRow
      BY <1>1, <1>3, RowGoesOn, RowTypes DEF CancelFinancing, Financing
  <2>2. /\ gm'.act = None /\ gm'.kind = gm.kind /\ gm'.pl = gm.pl /\ gm'.phase = "growth_finance_repay"
        /\ gm'.fin # None /\ gm'.fin.got = gm.fin.got /\ gm'.fin.want = gm.fin.want
    <3>1. [gm.fin EXCEPT !.cancel = TRUE] \in Fin
        BY <2>1 DEF Fin
    <3>2. gm'.fin = [gm.fin EXCEPT !.cancel = TRUE]
        BY <1>1, <2>1 DEF GrowthRow
    <3>3. QED
        BY <1>1, <2>1, <3>1, <3>2 DEF GrowthRow, Fin
  <2>3. RowsShaped'
      BY <1>1, <2>1, <2>2 DEF RowsShaped
  <2>4. QED
      BY <1>1, <2>1, <2>2, <2>3, KeptDebt
<1>4. CASE BuildByPasses
  <2>1. gm.fin # None /\ gm.fin \in Fin /\ gm' = [gm EXCEPT !.fin.late = TRUE] /\ gm' \in GrowthRow
      BY <1>1, <1>4, RowGoesOn, RowTypes DEF BuildByPasses
  <2>2. /\ gm'.act = gm.act /\ gm'.kind = gm.kind /\ gm'.pl = gm.pl /\ gm'.phase = gm.phase
        /\ gm'.fin # None /\ gm'.fin.got = gm.fin.got /\ gm'.fin.want = gm.fin.want
    <3>1. [gm.fin EXCEPT !.late = TRUE] \in Fin
        BY <2>1 DEF Fin
    <3>2. gm'.fin = [gm.fin EXCEPT !.late = TRUE]
        BY <1>1, <2>1 DEF GrowthRow
    <3>3. QED
        BY <1>1, <2>1, <3>1, <3>2 DEF GrowthRow, Fin
  <2>3. RowsShaped'
      BY <1>1, <2>1, <2>2 DEF RowsShaped
  <2>4. QED
      BY <1>1, <2>1, <2>2, <2>3, KeptDebt
<1>5. CASE PlayerApprove
  <2>1. /\ gm.act = None /\ gm.pl # None /\ gm.pl.req /\ (gm.fin # None => gm.fin.got = {}) /\ gm' \in GrowthRow
        /\ gm' = Stage([gm EXCEPT !.fin = NewFin(1, Gap(gseen)), !.phase = "growth_finance"], "loan-accept")
      BY <1>1, <1>5, RowGoesOn DEF PlayerApprove, Asking
  <2>2. /\ gm'.kind = gm.kind /\ gm'.pl = gm.pl /\ gm'.phase = "growth_finance"
        /\ gm'.fin = NewFin(1, Gap(gseen)) /\ gm'.act = NewAct("loan-accept")
      BY <1>1, <2>1 DEF GrowthRow, Stage
  <2>3. gm'.fin # None
    <3>1. Gap(gseen) \in Nat
        BY <1>1, <1>5, GapTypes DEF PlayerApprove, Asking
    <3>2. NewFin(1, Gap(gseen)) \in Fin
        BY <3>1, NewTypes
    <3>3. QED
        BY <2>2, <3>2
  <2>4. RowsShaped'
      BY <1>1, <2>1, <2>2, <2>3 DEF RowsShaped, NewFin, NewAct
  <2>5. QED
      BY <1>1, <2>1, <2>2, <2>4, NothingOwed, FreshDebt DEF NewFin, NewAct
<1>6. CASE AcceptNext
  <2>1. /\ gm.act = None /\ gm.fin # None /\ gm' = Stage(gm, "loan-accept") /\ gm' \in GrowthRow
        /\ (gm.pl # None => gm.fin.got # {}) /\ Cardinality(gm.fin.got) < gm.fin.want
      BY <1>1, <1>6, RowGoesOn DEF AcceptNext, Going, Financing
  <2>2. gm.pl = None
    <3>1. IsFiniteSet(gm.fin.got)
      <4>1. gm.fin.got \subseteq Ids
          BY <1>1, <2>1, RowTypes
      <4>2. IsFiniteSet(Ids)
          BY FS_Interval DEF Ids
      <4>3. QED
          BY <4>1, <4>2, FS_Subset
    <3>2. Cardinality(gm.fin.got) < 1 => gm.fin.got = {}
        BY <3>1, FS_CardinalityType, FS_EmptySet
    <3>3. QED
        BY <1>1, <2>1, <3>2 DEF RowsShaped
  <2>3. /\ gm'.kind = gm.kind /\ gm'.pl = gm.pl /\ gm'.phase = gm.phase /\ gm'.fin = gm.fin
        /\ gm'.act = NewAct("loan-accept")
      BY <1>1, <2>1 DEF GrowthRow, Stage
  <2>4. RowsShaped'
      BY <1>1, <2>1, <2>2, <2>3 DEF RowsShaped, NewAct
  <2>5. QED
      BY <1>1, <2>1, <2>3, <2>4, KeptDebt DEF NewAct
<1>7. CASE FinancedBuild \/ RefitHull
  <2>1. gm.act = None /\ gm' \in GrowthRow
      BY <1>1, <1>7, RowGoesOn DEF FinancedBuild, Going, Financing, RefitHull, At
  <2>2. /\ gm'.kind = gm.kind /\ gm'.pl = gm.pl /\ gm'.fin = gm.fin /\ gm'.phase \in {gm.phase, "growth_build"}
        /\ gm'.act = NewAct("build") \/ gm'.act = NewAct("refit")
      BY <1>1, <1>7 DEF FinancedBuild, RefitHull, Stage, GrowthRow
  <2>3. RowsShaped'
      BY <1>1, <2>1, <2>2 DEF RowsShaped, NewAct
  <2>4. QED
      BY <1>1, <2>1, <2>2, <2>3, KeptDebt DEF NewAct
<1>8. CASE RepayFinancing
  <2>1. gm.act = None /\ gm.fin # None /\ gm' \in GrowthRow
      BY <1>1, <1>8, RowGoesOn DEF RepayFinancing, Financing
  <2>2. PICK i \in gm.fin.got : gm' = [gm EXCEPT !.act = [NewAct("loan-repay") EXCEPT !.loan = i]]
      BY <1>8 DEF RepayFinancing, Owing
  <2>3. /\ gm'.kind = gm.kind /\ gm'.pl = gm.pl /\ gm'.fin = gm.fin /\ gm'.phase = gm.phase
        /\ gm'.act = [NewAct("loan-repay") EXCEPT !.loan = i]
      BY <1>1, <2>2 DEF GrowthRow
  <2>4. gm'.act.stage = "loan-repay" /\ gm'.act.st = "staged" /\ ~gm'.act.done /\ gm'.act.loan = i
      BY <2>3 DEF NewAct
  <2>5. RowsShaped'
      BY <1>1, <2>1, <2>2, <2>3, <2>4 DEF RowsShaped
  <2>6. QED
      BY <1>1, <2>1, <2>2, <2>3, <2>4, <2>5, KeptDebt
<1>9. CASE Commission
  <2>1. gm.act = None /\ gm.kind = "lane" /\ gm' \in GrowthRow
      BY <1>1, <1>9, RowGoesOn DEF Commission
  <2>2. gm'.kind = gm.kind /\ gm'.pl = gm.pl /\ gm'.fin = gm.fin /\ gm'.act = None
      BY <1>1, <1>9, <2>1 DEF Commission, GrowthRow
  <2>3. RowsShaped'
      BY <1>1, <2>1, <2>2 DEF RowsShaped
  <2>4. QED
      BY <1>1, <2>1, <2>2, <2>3, KeptDebt
<1>10. CASE (SendGrowth /\ ~GrowthReady) \/ YardTooDear
  <2>1. gm.act # None /\ gm.act.st = "staged" /\ gm' = [gm EXCEPT !.act = None] /\ gm' \in GrowthRow
      BY <1>1, <1>10, RowGoesOn DEF SendGrowth, YardTooDear, Unsent
  <2>2. gm'.kind = gm.kind /\ gm'.pl = gm.pl /\ gm'.fin = gm.fin /\ gm'.phase = gm.phase /\ gm'.act = None
      BY <1>1, <2>1 DEF GrowthRow
  <2>3. gm.act.loan # None => gm.fin # None /\ gm.act.loan \in gm.fin.got
      BY <1>1, <2>1 DEF RowsShaped
  <2>4. RowsShaped'
      BY <1>1, <2>2 DEF RowsShaped
  <2>5. QED
      BY <1>1, <2>1, <2>2, <2>3, <2>4, KeptDebt
<1>11. CASE (SendGrowth /\ GrowthReady) \/ AnswerGrowth
  <2>1. PICK st \in {"pending", "receipt", "garbled", "refused", "throttled"} :
           /\ gm.act # None /\ gm' = [gm EXCEPT !.act.st = st]
           /\ st \in {"refused", "throttled"} => ~gm.act.done
           /\ st = "receipt" => gm.act.done
      BY <1>11 DEF SendGrowth, AnswerGrowth, Unsent
  <2>2. gm' \in GrowthRow /\ gm.act \in Act
      BY <1>1, <1>11, <2>1, RowGoesOn, RowTypes
  <2>3. /\ gm'.kind = gm.kind /\ gm'.pl = gm.pl /\ gm'.fin = gm.fin /\ gm'.phase = gm.phase
        /\ gm'.act = [gm.act EXCEPT !.st = st]
      BY <1>1, <2>1 DEF GrowthRow
  <2>4. /\ gm'.act # None /\ gm'.act.stage = gm.act.stage /\ gm'.act.st = st /\ gm'.act.loan = gm.act.loan
        /\ gm'.act.done = gm.act.done
    <3>1. [gm.act EXCEPT !.st = st] \in Act
        BY <2>1, <2>2 DEF Act
    <3>2. QED
        BY <2>2, <2>3, <3>1 DEF Act
  <2>5. RowsShaped'
      BY <1>1, <2>1, <2>3, <2>4 DEF RowsShaped
  <2>6. QED
      BY <1>1, <2>1, <2>2, <2>3, <2>4, <2>5, KeptDebt
<1>12. QED
    BY <1>2, <1>3, <1>4, <1>5, <1>6, <1>7, <1>8, <1>9, <1>10, <1>11 DEF CancelFinancing, SendGrowth

\* A borrower request is staged again, or the row goes.
LEMMA UnsentStep ==
    ASSUME GrowthInv, PlayerUnsent
    PROVE  DebtInv'
<1>1. /\ gm # None /\ RowsShaped /\ gm \in GrowthRow /\ gm.act = None /\ gm.pl # None
      /\ (gm.fin # None => gm.fin.got = {}) /\ UNCHANGED <<gw, gseen, kept>>
    BY RowTypes DEF GrowthInv, DebtInv, PlayerUnsent, Asking, history
<1>2. \A i \in Ids : gw.loan[i] \notin {None, 0} => i \in kept
    BY <1>1, NothingOwed
<1>3. CASE gm' = None
    BY <1>1, <1>2, <1>3, ReleasedDebt
<1>4. CASE gm' = Stage(gm, "loan-request")
  <2>1. /\ gm'.kind = gm.kind /\ gm'.pl = gm.pl /\ gm'.fin = gm.fin /\ gm'.phase = gm.phase
        /\ gm'.act = NewAct("loan-request")
      BY <1>1, <1>4 DEF Stage, GrowthRow
  <2>2. RowsShaped'
      BY <1>1, <2>1 DEF RowsShaped, NewAct
  <2>3. QED
      BY <1>1, <1>2, <2>1, <2>2, FreshDebt DEF NewAct
<1>5. QED
    BY <1>3, <1>4 DEF PlayerUnsent

\* The server grants a loan, or takes its repayment.
LEMMA CarryStep ==
    ASSUME GrowthInv, CarryGrowth
    PROVE  DebtInv'
<1>1. /\ GrowthTypeOK /\ gm # None /\ gm.act # None /\ RowsShaped /\ LoansKnown /\ NoOrphanDebt
      /\ gm \in GrowthRow /\ gm.act \in Act /\ gm' \in GrowthRow /\ gm' # None /\ gm.act.st = "pending" /\ ~gm.act.done
      /\ UNCHANGED <<gseen, kept>> /\ gw \in World
    BY CarryTypes, RowTypes, WorldTypes DEF GrowthInv, DebtInv, CarryGrowth, history
<1>2. ASSUME NEW a \in Act, gm' = [gm EXCEPT !.act = a]
      PROVE  /\ gm'.kind = gm.kind /\ gm'.pl = gm.pl /\ gm'.fin = gm.fin /\ gm'.phase = gm.phase
             /\ gm'.act = a /\ gm'.act # None
    BY <1>1, <1>2 DEF GrowthRow
<1>3. CASE gm' = [gm EXCEPT !.act.done = TRUE]
  <2>1. [gm.act EXCEPT !.done = TRUE] \in Act
      BY <1>1 DEF Act
  <2>2. /\ gm'.kind = gm.kind /\ gm'.pl = gm.pl /\ gm'.fin = gm.fin /\ gm'.phase = gm.phase
        /\ gm'.act = [gm.act EXCEPT !.done = TRUE] /\ gm'.act # None
      BY <1>2, <1>3, <2>1
  <2>3. gm'.act.stage = gm.act.stage /\ gm'.act.loan = gm.act.loan /\ gm'.act.st = "pending" /\ gm'.act.done
      BY <1>1, <2>2 DEF Act
  <2>4. CASE gm.act.stage # "loan-accept" /\ gw'.loan = gw.loan
    <3>1. RowsShaped'
        BY <1>1, <2>2, <2>3, <2>4 DEF RowsShaped
    <3>2. LoansKnown'
        BY <1>1, <2>2, <2>3, <2>4 DEF LoansKnown
    <3>3. NoOrphanDebt'
        BY <1>1, <2>2, <2>3, <2>4 DEF NoOrphanDebt
    <3>4. QED
        BY <3>1, <3>2, <3>3 DEF DebtInv
  <2>5. CASE gm.act.stage = "loan-repay" /\ gw' = [gw EXCEPT !.cash = @ - gw.loan[gm.act.loan], !.loan[gm.act.loan] = 0]
    <3>1. gm.fin # None /\ gm.act.loan \in gm.fin.got /\ gm.act.loan \in Ids
        BY <1>1, <2>5, RowTypes DEF RowsShaped
    <3>2. gw'.loan = [gw.loan EXCEPT ![gm.act.loan] = 0]
        BY <1>1, <2>5 DEF World
    <3>3. \A i \in Ids : gw'.loan[i] = IF i = gm.act.loan THEN 0 ELSE gw.loan[i]
        BY <1>1, <3>1, <3>2 DEF World
    <3>4. 0 # None
        OBVIOUS
    <3>5. RowsShaped'
        BY <1>1, <2>2, <2>3, <2>5 DEF RowsShaped
    <3>6. gm.fin.got \subseteq Ids
        BY <1>1, <3>1, RowTypes
    <3>7. LoansKnown'
      <4>1. (gseen # None => \A i \in Ids : (gseen.loan[i] # None => gw.loan[i] # None) /\ (gseen.loan[i] = 0 => gw.loan[i] = 0))'
          BY <1>1, <3>3, <3>4 DEF LoansKnown
      <4>2. \A i \in gm.fin.got : gw'.loan[i] # None
          BY <1>1, <3>1, <3>3, <3>4, <3>6 DEF LoansKnown
      <4>3. QED
          BY <2>2, <2>3, <3>1, <4>1, <4>2 DEF LoansKnown
    <3>8. NoOrphanDebt'
        BY <1>1, <2>2, <2>3, <3>3 DEF NoOrphanDebt
    <3>9. QED
        BY <3>5, <3>7, <3>8 DEF DebtInv
  <2>6. CASE gm.act.stage = "build" /\ gw' = [gw EXCEPT !.cash = @ - Price, !.hulls = @ + 1]
    <3>1. gw'.loan = gw.loan
        BY <1>1, <2>6 DEF World
    <3>2. QED
        BY <2>4, <2>6, <3>1
  <2>7. CASE gm.act.stage = "loan-request" /\ gw' = [gw EXCEPT !.req = "open", !.quote = FALSE]
    <3>1. gw'.loan = gw.loan
        BY <1>1, <2>7 DEF World
    <3>2. QED
        BY <2>4, <2>7, <3>1
  <2>8. CASE gm.act.stage = "refit" /\ UNCHANGED gw
      BY <2>4, <2>8
  <2>9. ASSUME NEW i \in Free(gw), gm' = [gm EXCEPT !.act.done = TRUE, !.act.loan = i], gm.act.stage = "loan-accept"
        PROVE  FALSE
    <3>1. i \in Ids /\ gm.act.loan = None /\ i # None
        BY <1>1, <2>9 DEF Free, RowsShaped, Ids
    <3>2. gm'.act.loan = i
        BY <1>1, <2>9 DEF GrowthRow, Act
    <3>3. QED
        BY <2>3, <3>1, <3>2
  <2>10. QED
      BY <2>5, <2>6, <2>7, <2>8, <2>9 DEF CarryGrowth
<1>4. ASSUME NEW i \in Free(gw), gm.act.stage = "loan-accept",
             gw' = [gw EXCEPT !.loan[i] = gm.fin.each, !.cash = @ + gm.fin.each, !.quote = FALSE,
                              !.req = IF gm.pl # None THEN "funded" ELSE @],
             gm' = [gm EXCEPT !.act.done = TRUE, !.act.loan = i]
      PROVE  DebtInv'
  <2>1. /\ i \in Ids /\ i # None /\ gw.loan[i] = None /\ gm.act.loan = None /\ gm.fin # None
        /\ gm.pl # None => gm.fin.got = {}
      BY <1>1, <1>4 DEF Free, Ids, RowsShaped
  <2>2. gm.fin.each \in Nat /\ gm.fin.each # None
      BY <1>1, <2>1, RowTypes
  <2>3. gw'.loan = [gw.loan EXCEPT ![i] = gm.fin.each]
      BY <1>1, <1>4 DEF World
  <2>4. \A j \in Ids : gw'.loan[j] = IF j = i THEN gm.fin.each ELSE gw.loan[j]
      BY <1>1, <2>1, <2>3 DEF World
  <2>5. [gm.act EXCEPT !.done = TRUE, !.loan = i] \in Act
      BY <1>1, <2>1 DEF Act
  <2>6. /\ gm'.kind = gm.kind /\ gm'.pl = gm.pl /\ gm'.fin = gm.fin /\ gm'.phase = gm.phase
        /\ gm'.act = [gm.act EXCEPT !.done = TRUE, !.loan = i] /\ gm'.act # None
      BY <1>2, <1>4, <2>5
  <2>7. gm'.act.stage = "loan-accept" /\ gm'.act.loan = i /\ gm'.act.st = "pending" /\ gm'.act.done
    <3>1. gm.act \in Act /\ gm.act.stage = "loan-accept" /\ gm.act.st = "pending"
        BY <1>1, <1>4
    <3>2. gm'.act = [gm.act EXCEPT !.done = TRUE, !.loan = i]
        BY <2>6
    <3>3. gm'.act.done
        BY <3>1, <3>2 DEF Act
    <3>4. QED
        BY <3>1, <3>2, <3>3 DEF Act
  <2>8. RowsShaped'
    <3>1. RowsShaped
        BY <1>1
    <3>2. gm'.act.done <=> gm'.act.loan # None
        BY <2>1, <2>7
    <3>3. QED
        BY <2>1, <2>6, <2>7, <3>1, <3>2 DEF RowsShaped
  <2>9. gm.fin.got \subseteq Ids
      BY <1>1, <2>1, RowTypes
  <2>10. LoansKnown'
    <3>1. (gseen # None => \A j \in Ids : (gseen.loan[j] # None => gw.loan[j] # None) /\ (gseen.loan[j] = 0 => gw.loan[j] = 0))'
      <4>1. 0 # None
          OBVIOUS
      <4>2. QED
          BY <1>1, <2>1, <2>2, <2>4, <4>1 DEF LoansKnown
    <3>2. \A j \in gm.fin.got : gw'.loan[j] # None
        BY <1>1, <2>1, <2>2, <2>4, <2>9 DEF LoansKnown
    <3>3. gw'.loan[i] # None
        BY <2>1, <2>2, <2>4
    <3>4. QED
        BY <2>6, <2>7, <3>1, <3>2, <3>3 DEF LoansKnown
  <2>11. NoOrphanDebt'
    <3>1. ASSUME NEW j \in Ids, gw'.loan[j] \notin {None, 0}, j \notin kept, j # i
          PROVE  j \in gm.fin.got
      <4>1. j # None
          BY DEF Ids
      <4>2. QED
          BY <1>1, <2>1, <2>4, <3>1, <4>1 DEF NoOrphanDebt
    <3>2. kept' = kept /\ gm' # None /\ gm'.fin # None /\ gm'.fin.got = gm.fin.got /\ gm'.act # None /\ gm'.act.loan = i
        BY <1>1, <2>1, <2>6, <2>7
    <3>3. QED
        BY <3>1, <3>2 DEF NoOrphanDebt
  <2>12. QED
      BY <2>8, <2>10, <2>11 DEF DebtInv
<1>5. QED
    BY <1>3, <1>4 DEF CarryGrowth

\* What a request did enters the row.
LEMMA ResultStep ==
    ASSUME GrowthInv, NEW whole \in BOOLEAN, ResultGrowth(whole)
    PROVE  DebtInv'
<1>1. /\ GrowthTypeOK /\ gm # None /\ gm.act # None /\ RowsShaped /\ gm \in GrowthRow /\ gm.act \in Act
      /\ gm' \in GrowthRow /\ UNCHANGED <<gw, gseen, kept>>
    BY ResultTypes, RowTypes DEF GrowthInv, DebtInv, ResultGrowth
<1>2. Done \in GrowthRow /\ Done.act = None /\ Done.fin = gm.fin /\ Done.pl = gm.pl /\ Done.kind = gm.kind
    BY <1>1 DEF Done, GrowthRow
<1>3. CASE gm' = gm
    BY <1>1, <1>3, QuietDebt
<1>4. ASSUME gm'.act = None, gm'.fin = gm.fin, gm'.kind = gm.kind, gm.pl = None <=> gm'.pl = None,
             gm'.phase # "commissioning", gm.act.loan # None => gm.fin # None /\ gm.act.loan \in gm.fin.got
      PROVE  DebtInv'
  <2>1. RowsShaped'
      BY <1>1, <1>4 DEF RowsShaped
  <2>2. QED
      BY <1>1, <1>4, <2>1, KeptDebt
<1>5. CASE gm.act.stage = "build" /\ gm' = [Done EXCEPT !.built = TRUE, !.phase = "growth_refit"]
  <2>1. gm.act.loan = None
      BY <1>1, <1>5 DEF RowsShaped
  <2>2. gm'.act = None /\ gm'.fin = gm.fin /\ gm'.kind = gm.kind /\ gm'.pl = gm.pl /\ gm'.phase = "growth_refit"
      BY <1>2, <1>5 DEF GrowthRow
  <2>3. QED
      BY <1>4, <2>1, <2>2
<1>6. CASE gm.act.stage = "refit"
  <2>1. gm.act.loan = None
      BY <1>1, <1>6 DEF RowsShaped
  <2>2. gm'.act = None /\ gm'.fin = gm.fin /\ gm'.kind = gm.kind /\ gm'.pl = gm.pl /\ gm'.phase = "growth_provision"
      BY <1>2, <1>6 DEF ResultGrowth, GrowthRow
  <2>3. QED
      BY <1>4, <2>1, <2>2
<1>7. CASE gm.act.stage = "loan-request"
  <2>1. gm.act.loan = None /\ gm.pl # None
      BY <1>1, <1>7 DEF RowsShaped
  <2>2. gm.pl \in [req : BOOLEAN, refused : BOOLEAN]
      BY <1>1, <2>1 DEF GrowthRow
  <2>3. [gm.pl EXCEPT !.req = TRUE] \in [req : BOOLEAN, refused : BOOLEAN]
      BY <2>2
  <2>4. gm' = [Done EXCEPT !.pl.req = TRUE, !.phase = "growth_loan_request"]
      BY <1>7 DEF ResultGrowth
  <2>5. /\ gm'.act = None /\ gm'.fin = gm.fin /\ gm'.kind = gm.kind /\ gm'.phase = "growth_loan_request"
        /\ gm'.pl = [gm.pl EXCEPT !.req = TRUE]
      BY <1>2, <2>4 DEF GrowthRow
  <2>6. QED
      BY <1>4, <2>1, <2>3, <2>5
<1>8. CASE gm.act.stage = "loan-repay"
  <2>1. gm.fin # None /\ gm.act.loan \in gm.fin.got
      BY <1>1, <1>8 DEF RowsShaped
  <2>2. gm' = Done /\ Done.phase = gm.phase
      BY <1>1, <1>8 DEF ResultGrowth, Done, GrowthRow
  <2>3. RowsShaped'
      BY <1>1, <1>2, <2>2 DEF RowsShaped
  <2>4. QED
      BY <1>1, <1>2, <2>1, <2>2, <2>3, KeptDebt
<1>9. CASE gm.act.stage = "loan-accept"
  <2>1. gm.fin # None /\ gm.fin \in Fin
      BY <1>1, <1>9, RowTypes DEF RowsShaped
  <2>2. PICK odd \in BOOLEAN :
           gm' = [Done EXCEPT !.fin.got = @ \cup {gm.act.loan}, !.fin.cancel = odd,
                              !.phase = IF odd THEN "growth_finance_repay" ELSE "growth_finance"]
      BY <1>9 DEF ResultGrowth, AcceptedLoan
  <2>3. gm.act.loan \in Ids
    <3>1. gm.act.done
        BY <1>1, <1>9 DEF ResultGrowth, GrowthEvidence, RowsShaped
    <3>2. gm.act.loan # None
        BY <1>1, <1>9, <3>1 DEF RowsShaped
    <3>3. QED
        BY <1>1, <3>2 DEF Act
  <2>4. [gm.fin EXCEPT !.got = @ \cup {gm.act.loan}, !.cancel = odd] \in Fin
      BY <2>1, <2>3 DEF Fin
  <2>5. /\ gm'.act = None /\ gm'.kind = gm.kind /\ gm'.pl = gm.pl /\ gm'.phase # "commissioning"
        /\ gm'.fin = [gm.fin EXCEPT !.got = @ \cup {gm.act.loan}, !.cancel = odd]
      BY <1>2, <2>1, <2>2 DEF GrowthRow
  <2>6. gm'.fin # None /\ gm'.fin.want = gm.fin.want /\ gm'.fin.got = gm.fin.got \cup {gm.act.loan}
      BY <2>1, <2>4, <2>5 DEF Fin
  <2>7. RowsShaped'
      BY <1>1, <2>1, <2>5, <2>6 DEF RowsShaped
  <2>8. gm.act.loan # None
      BY <2>3 DEF Ids
  <2>9. QED
      BY <1>1, <2>1, <2>5, <2>6, <2>7, <2>8, KeptDebt
<1>10. QED
    BY <1>3, <1>5, <1>6, <1>7, <1>8, <1>9 DEF ResultGrowth

\* A request that was not done leaves the row, or takes it along when no loan
\* depends on it.
LEMMA RejectStep ==
    ASSUME GrowthInv, NEW whole \in BOOLEAN, RejectGrowth(whole)
    PROVE  DebtInv'
<1>1. /\ GrowthTypeOK /\ gm # None /\ gm.act # None /\ RowsShaped /\ gm \in GrowthRow /\ gm.act \in Act
      /\ ~gm.act.done /\ UNCHANGED <<gw, gseen, kept>>
      /\ gm.act.stage # "loan-request" => gm' \in GrowthRow
    BY RejectTypes, RowTypes DEF GrowthInv, DebtInv, RejectGrowth, Refused, RowsShaped, history
<1>2. Done \in GrowthRow /\ Done.act = None /\ Done.fin = gm.fin /\ Done.pl = gm.pl /\ Done.kind = gm.kind /\ Done.phase = gm.phase
    BY <1>1 DEF Done, GrowthRow
<1>3. CASE gm' = gm
    BY <1>1, <1>3, QuietDebt
<1>4. gm.act.stage \in {"loan-accept", "loan-request", "build", "refit"} => gm.act.loan = None
    BY <1>1 DEF RowsShaped
<1>5. gm.act.loan # None => gm.fin # None /\ gm.act.loan \in gm.fin.got
    BY <1>1, <1>4 DEF RowsShaped, Act
<1>6. ASSUME gm' \in GrowthRow, gm'.act = None, gm'.fin = gm.fin, gm'.kind = gm.kind, gm'.pl = gm.pl,
             gm'.phase # "commissioning" \/ gm'.phase = gm.phase
      PROVE  DebtInv'
  <2>1. RowsShaped'
      BY <1>1, <1>6 DEF RowsShaped
  <2>2. QED
      BY <1>1, <1>5, <1>6, <2>1, KeptDebt
<1>7. CASE gm' = Done
    BY <1>2, <1>6, <1>7
<1>8. CASE gm.act.stage = "build" \/ (gm.act.stage = "loan-accept" /\ gm.pl = None)
  <2>1. \/ gm' = gm \/ gm' = Done
        \/ \E ph \in {"growth_rejected", "growth_finance_repay", gm.phase} : gm' = [Done EXCEPT !.phase = ph]
      BY <1>2, <1>8 DEF RejectGrowth
  <2>2. ASSUME NEW ph \in {"growth_rejected", "growth_finance_repay", gm.phase}, gm' = [Done EXCEPT !.phase = ph]
        PROVE  DebtInv'
    <3>1. /\ gm'.act = None /\ gm'.fin = gm.fin /\ gm'.kind = gm.kind /\ gm'.pl = gm.pl /\ gm'.phase = ph
        BY <1>2, <2>2 DEF GrowthRow
    <3>2. gm' \in GrowthRow
        BY <1>1, <1>8
    <3>3. QED
        BY <1>6, <2>2, <3>1, <3>2
  <2>3. QED
      BY <1>3, <1>7, <2>1, <2>2
<1>9. CASE gm.act.stage = "refit"
  <2>1. \E n : gm' = [Done EXCEPT !.refits = n]
      BY <1>9 DEF RejectGrowth
  <2>2. gm'.act = None /\ gm'.fin = gm.fin /\ gm'.kind = gm.kind /\ gm'.pl = gm.pl /\ gm'.phase = gm.phase
      BY <1>2, <2>1 DEF GrowthRow
  <2>3. QED
      BY <1>1, <1>6, <1>9, <2>2
<1>10. CASE gm.act.stage = "loan-request"
  <2>1. gm' = Done \/ gm' = None \/ gm' = gm
      BY <1>10 DEF RejectGrowth
  <2>2. gm.fin = None \/ gm.fin.got = {}
      BY <1>1, <1>10 DEF RowsShaped
  <2>3. QED
      BY <1>1, <1>3, <1>4, <1>7, <1>10, <2>1, <2>2, NothingOwed, ReleasedDebt
<1>11. CASE gm.act.stage = "loan-accept" /\ gm.pl # None
  <2>1. gm' = Done \/ gm' = [Done EXCEPT !.pl.refused = TRUE, !.fin = None, !.phase = "growth_loan_request"]
      BY <1>11 DEF RejectGrowth
  <2>2. gm.fin.got = {}
      BY <1>1, <1>11 DEF RowsShaped
  <2>3. CASE gm' = [Done EXCEPT !.pl.refused = TRUE, !.fin = None, !.phase = "growth_loan_request"]
    <3>1. gm'.act = None /\ gm'.fin = None /\ gm'.kind = gm.kind /\ gm'.phase = "growth_loan_request"
        BY <1>2, <2>3 DEF GrowthRow
    <3>2. gm'.pl = [gm.pl EXCEPT !.refused = TRUE]
        BY <1>2, <2>3 DEF GrowthRow
    <3>3. gm.kind # "lane"
        BY <1>1, <1>11 DEF RowsShaped
    <3>4. RowsShaped'
        BY <3>1, <3>3 DEF RowsShaped
    <3>5. QED
        BY <1>1, <1>4, <1>11, <2>2, <3>1, <3>4, NothingOwed, FreshDebt
  <2>4. QED
      BY <1>7, <2>1, <2>3
<1>12. CASE gm.act.stage = "loan-repay"
    BY <1>7, <1>12 DEF RejectGrowth
<1>13. QED
    BY <1>8, <1>9, <1>10, <1>11, <1>12 DEF RejectGrowth

\* A hull that is handed over has no loan to its row.
LEMMA HandoffDebt ==
    ASSUME GrowthInv, (\E heard \in BOOLEAN : Handoff(heard)) \/ HandoffAgain
    PROVE  DebtInv'
<1>1. UNCHANGED <<gw, gseen, kept>>
    BY DEF Handoff, HandoffAgain
<1>2. CASE gm' = gm
    BY <1>1, <1>2, QuietDebt
<1>3. ASSUME NEW g, HandoffGrowthMission(g)
      PROVE  DebtInv'
  <2>1. gm = None \/ gm.fin = None
      BY <1>3 DEF HandoffGrowthMission, GrowthInv, DebtInv, RowsShaped
  <2>2. gm' = None
      BY <1>3 DEF HandoffGrowthMission
  <2>3. QED
      BY <1>1, <2>1, <2>2, NothingOwed, ReleasedDebt
<1>4. QED
    BY <1>2, <1>3 DEF Handoff, HandoffAgain

LEMMA DebtStep ==
    ASSUME GrowthInv, [GrowthNext]_gvars
    PROVE  DebtInv'
<1>1. GrowthTypeOK
    BY DEF GrowthInv
<1>2. CASE CaptureGrowth \/ GrowthServer \/ Tick \/ WindowPasses \/ (\E g \in GrowthGens : VoyageMoves(g))
           \/ SaveUp \/ EndSavings \/ UNCHANGED gvars
  <2>1. UNCHANGED <<gm, kept>> /\ (gseen' = gseen \/ gseen' = gw)
      BY <1>2 DEF CaptureGrowth, GrowthServer, Tick, WindowPasses, VoyageMoves, SaveUp, EndSavings, gvars, history
  <2>2. gw'.loan = gw.loan
    <3>1. gw \in World
        BY <1>1 DEF GrowthTypeOK
    <3>2. \A c \in Nat : [gw EXCEPT !.cash = c].loan = gw.loan
        BY <3>1 DEF World
    <3>3. CASE GrowthServer
        BY <3>1, <3>3 DEF GrowthServer, World
    <3>4. QED
        BY <1>2, <3>3 DEF CaptureGrowth, Tick, WindowPasses, VoyageMoves, SaveUp, EndSavings, gvars, history
  <2>3. QED
      BY <2>1, <2>2, QuietDebt
<1>3. CASE (\E whole \in BOOLEAN : StartGrowth(whole)) \/ StagePlayerLoan \/ StageLiens
    BY <1>3, StartStep
<1>4. CASE \/ \E whole \in BOOLEAN : \/ PlayerLapsed(whole) \/ PlayerNeedGone(whole)
                                     \/ RetireFinancing(whole) \/ Unwound(whole)
           \/ FinishControl
    BY <1>4, ReleaseStep
<1>5. CASE \/ \E whole \in BOOLEAN : CancelFinancing(whole)
           \/ PlayerApprove \/ AcceptNext \/ FinancedBuild \/ RepayFinancing
           \/ RefitHull \/ Commission \/ BuildByPasses \/ SendGrowth \/ YardTooDear \/ AnswerGrowth
    BY <1>5, PassStep
<1>6. CASE PlayerUnsent \/ CarryGrowth \/ (\E whole \in BOOLEAN : ResultGrowth(whole) \/ RejectGrowth(whole))
    BY <1>6, UnsentStep, CarryStep, ResultStep, RejectStep
<1>7. CASE (\E heard \in BOOLEAN : Handoff(heard)) \/ HandoffAgain
    BY <1>7, HandoffDebt
<1>8. QED
    BY <1>2, <1>3, <1>4, <1>5, <1>6, <1>7 DEF GrowthNext, GrowthStep

-----------------------------------------------------------------------------
(* The theorems *)

LEMMA InitialGrowth == GrowthInit => GrowthInv
<1>1. SUFFICES ASSUME GrowthInit PROVE GrowthInv
    OBVIOUS
<1>2. GrowthTypeOK
  <2>1. PICK c \in {0, Need - 1, Need}, k \in Kinds :
           gw = [kind |-> k, cash |-> c, hulls |-> 0, loan |-> [i \in Ids |-> None], req |-> "none", quote |-> FALSE]
      BY <1>1 DEF GrowthInit
  <2>2. c \in Nat
    <3>1. Need - 1 \in Nat
        OBVIOUS
    <3>2. QED
        BY <2>1, <3>1
  <2>3. gw \in World
      BY <2>1, <2>2 DEF World
  <2>4. /\ gseen = None /\ gm = None /\ voy = [g \in GrowthGens |-> "none"] /\ sav = None /\ fb = FALSE /\ off = FALSE
        /\ exp = FALSE /\ again = None /\ gens = 0 /\ adopted = 0 /\ kept = {} /\ created = [g \in GrowthGens |-> 0]
      BY <1>1 DEF GrowthInit
  <2>5. {fb, off, exp} \subseteq BOOLEAN
      BY <2>4
  <2>6. gens \in 0..MaxGen /\ adopted \in Nat /\ created \in [GrowthGens -> Nat]
      BY <2>4
  <2>7. voy \in [GrowthGens -> {"none", "new", "advanced", "done"}] /\ kept \subseteq Ids
      BY <2>4
  <2>8. QED
      BY <2>3, <2>4, <2>5, <2>6, <2>7 DEF GrowthTypeOK
<1>3. HandoffOnce /\ HandoffInv
    BY <1>1 DEF GrowthInit, HandoffOnce, HandoffInv
<1>4. DebtInv
  <2>1. gm = None /\ gseen = None /\ \A i \in Ids : gw.loan[i] = None
      BY <1>1 DEF GrowthInit
  <2>2. QED
      BY <2>1 DEF DebtInv, LoansKnown, NoOrphanDebt
<1>5. QED
    BY <1>2, <1>3, <1>4 DEF GrowthInv

\* The inductive invariant of the "__growth" control: what a control row, its
\* request, the capture and the lender's books may say of each other, whatever
\* happens between two saves, two passes or a request and its answer.
THEOREM GrowthInvHolds == GrowthSpec => []GrowthInv
<1>1. GrowthInv /\ [GrowthNext]_gvars => GrowthInv'
    BY GrowthStepTypes, HandoffStep, DebtStep DEF GrowthInv
<1>2. QED
    BY InitialGrowth, <1>1, PTL DEF GrowthSpec

\* "A retried handoff never overwrites an already advancing voyage": however
\* often the commit of HandoffGrowthMission goes unheard and the handoff is made
\* again, each admission's voyage is created once.
THEOREM HandoffOnceHolds == GrowthSpec => []HandoffOnce
BY GrowthInvHolds, PTL DEF GrowthInv

\* No debt is lost sight of: a loan the company owes is in the control row, is
\* what the outstanding request did, or bought a hull, although rows are released
\* by lapses, refusals, handoffs and repayment, and results arrive in any order.
THEOREM NoOrphanDebtHolds == GrowthSpec => []NoOrphanDebt
BY GrowthInvHolds, PTL DEF GrowthInv, DebtInv
=============================================================================
