---------------------------- MODULE Underwriting ----------------------------
(***************************************************************************)
(* Writing insurance on other companies' hulls: recordUnderwriting,        *)
(* considerUnderwriting, driveUnderwriting, underwritingPreflight and      *)
(* acceptUnderwriting of internal/engine/underwriting_execution.go, the    *)
(* admission of internal/engine/underwriting.go and the permanent evidence *)
(* of internal/store/underwriting.go.                                      *)
(*                                                                         *)
(* A slice locks collateral until its policy ends.  The pilot may lose no  *)
(* more than a budget fixed once.  The board is read with a lag: a capture *)
(* may show any earlier version of a policy, leave it out, or show a       *)
(* version whose terms are not the policy's (terms 2).  Prices and cash    *)
(* are left open: an admission may always be refused.  Some of our slices  *)
(* may be older than this database and have no receipt in it.              *)
(***************************************************************************)
EXTENDS Integers, FiniteSets, FiniteSetsExt

CONSTANTS
    Policies,
    Unknown,        \* no record, no position, no mission, no capture
    Collateral,     \* pence locked by the minimum slice
    Premium,        \* its share of the premium
    Budgets,        \* a tenth of the discretionary cash at the first admission
    MaxVersions,    \* versions of a policy
    MaxFaults       \* lost answers, crashes, odd versions

ASSUME UnderwritingAssumption ==
    /\ {Collateral, Premium, MaxVersions, MaxFaults} \subseteq Nat
    /\ Budgets \subseteq Nat \ {0} /\ Premium <= Collateral /\ IsFiniteSet(Policies)

VARIABLES
    policy,         \* the server's policies: status, version, our slice, versions shown
    foreign,        \* our slices from before this database
    request,        \* the policy whose lost request may still be applied
    rec,            \* underwriting_policies
    pos,            \* underwriting_positions
    initial,        \* underwriting_budgets, 0 before it is seeded
    mission,        \* the __underwriting mission and its journalled request
    observed,       \* the captured board, Unknown when it is not fresh
    faults

uwvars == <<policy, foreign, request, rec, pos, initial, mission, observed, faults>>

TermEnds == {"settled_safe", "claimed_loss"}
Terminal(status) == status \in TermEnds \cup {"cancelled"}
Listed(status, at, terms) == [status |-> status, at |-> at, terms |-> terms]

\* What is listed, recorded, receipted and in progress.
Listing == [status : TermEnds \cup {"open", "cancelled"}, at : Nat, terms : {1, 2}]
Record == [first : {1, 2}, now : Listing, changed : BOOLEAN]
Position == [terms : {1, 2}, funded : BOOLEAN, closed : BOOLEAN, status : TermEnds \cup {"active"}]
Undertaking == [policy : Policies, terms : {1, 2}, state : {"new", "staged", "ambiguous", "complete", "refused", "done"}]
Observed == [board : [Policies -> Listing \cup {Unknown}], owned : SUBSET Policies]
ASSUME UnknownAssumption == Unknown \notin Policies \cup Listing \cup Record \cup Position \cup Undertaking \cup Observed

UnderwritingInit ==
    /\ foreign \in {{}} \cup {{p} : p \in Policies}
    /\ policy = [p \in Policies |-> [status |-> "open", at |-> 1, ours |-> p \in foreign, shown |-> {Listed("open", 1, 1)}]]
    /\ request = Unknown /\ initial = 0 /\ mission = Unknown /\ observed = Unknown /\ faults = 0
    /\ rec = [p \in Policies |-> Unknown] /\ pos = [p \in Policies |-> Unknown]

Fault == faults < MaxFaults /\ faults' = faults + 1

-----------------------------------------------------------------------------
\* The server: a policy ends once; a listing may show odd terms.
UnderwrittenEnds(p) ==
    /\ policy[p].status = "open" /\ policy[p].at < MaxVersions
    /\ \E status \in TermEnds \cup {"cancelled"} :
         policy' = [policy EXCEPT ![p] = [@ EXCEPT !.status = status, !.at = policy[p].at + 1,
                                                   !.shown = policy[p].shown \cup {Listed(status, policy[p].at + 1, 1)}]]
    /\ UNCHANGED <<foreign, request, rec, pos, initial, mission, observed, faults>>
OddListing(p) ==
    /\ Fault /\ policy[p].at < MaxVersions
    /\ \E status \in TermEnds \cup {"open"} :
         policy' = [policy EXCEPT ![p] = [@ EXCEPT !.at = policy[p].at + 1,
                                                   !.shown = policy[p].shown \cup {Listed(status, policy[p].at + 1, 2)}]]
    /\ UNCHANGED <<foreign, request, rec, pos, initial, mission, observed>>
Locks(p) == [policy EXCEPT ![p].ours = TRUE]

-----------------------------------------------------------------------------
\* PutUnderwritingPolicies: the first terms stay, a contradiction is permanent,
\* an end is not undone and an older version replaces nothing.
Merge(old, new) ==
    IF old = Unknown THEN [first |-> new.terms, now |-> new, changed |-> FALSE]
    ELSE LET ended == Terminal(old.now.status)
             ends == Terminal(new.status)
         IN  [first |-> old.first,
              now |-> IF new.at >= old.now.at /\ (~ended \/ ends) THEN new ELSE old.now,
              changed |-> \/ old.changed \/ old.first # new.terms \/ old.now.terms # new.terms
                          \/ ended /\ ends /\ old.now.status # new.status
                          \/ ended /\ old.now.status # new.status /\ new.at >= old.now.at
                          \/ ends /\ ~ended /\ new.at < old.now.at]
Recorded(board) == [p \in Policies |-> IF board[p] = Unknown THEN rec[p] ELSE Merge(rec[p], board[p])]

\* underwritingFundingEvidence: the unique ledger debit that names the slice.
PolicyFunded(position, proven) == [position EXCEPT !.funded = @ \/ proven]
\* CloseUnderwritingPosition, from the record alone and only on frozen terms.
ClosedOnSight(position, record) ==
    IF position.closed \/ record = Unknown \/ record.now.status \notin TermEnds THEN position
    ELSE [position EXCEPT !.closed = TRUE, !.status = record.now.status]
Closed(position, record) ==
    IF position.closed \/ record = Unknown \/ record.changed \/ record.now.status \notin TermEnds
       \/ record.now.terms # position.terms
    THEN position
    ELSE [position EXCEPT !.closed = TRUE, !.status = record.now.status]
Settled(records, proven) ==
    [p \in Policies |-> IF pos[p] = Unknown THEN Unknown
                        ELSE Closed(PolicyFunded(pos[p], p \in proven), records[p])]

\* recordUnderwriting in a capture; an error after the first transaction
\* leaves no fresh board behind.
Boards == {b \in [Policies -> UNION {policy[p].shown : p \in Policies} \cup {Unknown}] :
             \A p \in Policies : b[p] \in policy[p].shown \cup {Unknown}}
CapturePolicies ==
    \E board \in Boards, proven \in SUBSET {p \in Policies : policy[p].ours} :
      /\ rec' = Recorded(board)
      /\ \/ /\ pos' = Settled(Recorded(board), proven)
            /\ observed' = [board |-> board, owned |-> {p \in Policies : policy[p].ours}] /\ UNCHANGED faults
         \/ Fault /\ observed' = Unknown /\ UNCHANGED pos
      /\ UNCHANGED <<policy, foreign, request, initial, mission>>

-----------------------------------------------------------------------------
\* underwritingRisk: what the positions may still lose and have lost.
Net(position) == IF position.status = "claimed_loss" THEN Premium - Collateral ELSE Premium
Positions == {p \in Policies : pos[p] # Unknown}
Gains == SumFunction([p \in Positions |-> IF pos[p].closed /\ Net(pos[p]) > 0 THEN Net(pos[p]) ELSE 0])
Losses == SumFunction([p \in Positions |-> IF pos[p].closed /\ Net(pos[p]) < 0 THEN -Net(pos[p]) ELSE 0])
Outstanding == SumFunction([p \in Positions |-> IF pos[p].closed THEN 0 ELSE Collateral])
Remaining == LET left == initial' + Gains \div 10 - Losses - Outstanding IN IF left > 0 THEN left ELSE 0

\* underwritingEvidence: every position agrees with its record and is funded,
\* and every slice the server lists has a position.
Consistent(p) ==
    /\ rec[p] # Unknown /\ pos[p].funded
    /\ rec[p] # Unknown => /\ ~rec[p].changed /\ rec[p].now.terms = pos[p].terms
                           /\ pos[p].closed => pos[p].status = rec[p].now.status
EvidenceOfPositions == observed # Unknown /\ \A p \in Positions : Consistent(p)
PolicyEvidence == observed # Unknown /\ (\A p \in Positions : Consistent(p)) /\ observed.owned \subseteq Positions

\* retainedInsuranceTermsAgree and underwritingAdmission.
Agrees(p, terms) ==
    rec[p] # Unknown /\ ~rec[p].changed /\ rec[p].now.terms = terms /\ ~Terminal(rec[p].now.status)
Candidate(p) ==
    /\ observed.board[p] # Unknown
    /\ observed.board[p] # Unknown => observed.board[p].status = "open" /\ Agrees(p, observed.board[p].terms)
    /\ pos[p] = Unknown
Admits(p) == Candidate(p) /\ Remaining >= Collateral
\* EnsureUnderwritingBudget: seeded by the first admission that is priced.
Seeded == IF initial = 0 THEN initial' \in Budgets ELSE initial' = initial

ConsiderUnderwriting ==
    /\ mission = Unknown /\ PolicyEvidence /\ Seeded
    /\ \E p \in Policies :
         \/ Admits(p) /\ mission' = [policy |-> p, terms |-> observed.board[p].terms, state |-> "new"]
         \/ Candidate(p) /\ UNCHANGED mission
    /\ UNCHANGED <<policy, foreign, request, rec, pos, observed, faults>>

Preflight == PolicyEvidence /\ Seeded /\ Admits(mission.policy) /\ observed.board[mission.policy].terms = mission.terms
In(states) == mission # Unknown /\ mission.state \in states
Becomes(state) == mission' = [mission EXCEPT !.state = state]
\* A failing preflight, a refusal and a receipt all end the mission.
DriveUnderwriting ==
    \/ /\ In({"new"}) /\ \/ Preflight /\ Becomes("staged")
                         \/ mission' = Unknown /\ UNCHANGED initial
       /\ UNCHANGED <<policy, foreign, request, rec, pos, observed, faults>>
    \/ /\ In({"done", "refused"}) /\ mission' = Unknown
       /\ UNCHANGED <<policy, foreign, request, rec, pos, initial, observed, faults>>

\* First send after its own preflight; an unknown outcome is only sent again.
Sends == \/ In({"staged"}) /\ Preflight
         \/ In({"ambiguous"}) /\ UNCHANGED initial
CanLock == policy[mission.policy].status = "open" \/ policy[mission.policy].ours
RequestAnswered ==
    /\ Sends /\ CanLock /\ policy' = Locks(mission.policy) /\ request' = Unknown /\ Becomes("complete")
    /\ UNCHANGED <<foreign, rec, pos, observed, faults>>
AnswerLost ==
    /\ Sends /\ Fault /\ Becomes("ambiguous") /\ request' = mission.policy
    /\ UNCHANGED <<policy, foreign, rec, pos, observed>>
RequestRefused ==
    /\ Sends /\ (~policy[mission.policy].ours \/ mission.policy \in foreign)
    /\ Becomes("refused") /\ request' = Unknown
    /\ UNCHANGED <<policy, foreign, rec, pos, observed, faults>>
RequestVetoed ==
    /\ In({"staged"}) /\ Becomes("new")
    /\ UNCHANGED <<policy, foreign, request, rec, pos, initial, observed, faults>>
UnderwrittenLate ==
    /\ request # Unknown /\ request' = Unknown
    /\ policy' = IF policy[request].status = "open" THEN Locks(request) ELSE policy
    /\ UNCHANGED <<foreign, rec, pos, initial, mission, observed, faults>>

\* acceptUnderwriting and PutUnderwritingPosition: the receipt is committed
\* before the mission moves on, and putting it again changes nothing.
Receipt(p) ==
    [pos EXCEPT ![p] = IF @ = Unknown
                       THEN [terms |-> mission.terms, funded |-> FALSE, closed |-> FALSE, status |-> "active"]
                       ELSE @]
AcceptUnchecked ==
    /\ In({"complete"}) /\ Becomes("done")
    /\ pos' = IF mission.terms = 1 THEN Receipt(mission.policy) ELSE pos
    /\ UNCHANGED <<policy, foreign, request, rec, initial, observed, faults>>
AcceptUnderwriting ==
    /\ In({"complete"}) /\ mission.terms = 1
    /\ pos' = Receipt(mission.policy)
    /\ \/ Becomes("done") /\ UNCHANGED faults
       \/ Fault /\ UNCHANGED mission
    /\ UNCHANGED <<policy, foreign, request, rec, initial, observed>>

\* A crash leaves the database, and a capture is needed before anything else.
CrashUnderwriting == observed # Unknown /\ Fault /\ observed' = Unknown /\ UNCHANGED <<policy, foreign, request, rec, pos, initial, mission>>

UnderwritingNext ==
    \/ \E p \in Policies : UnderwrittenEnds(p) \/ OddListing(p)
    \/ CapturePolicies \/ ConsiderUnderwriting \/ DriveUnderwriting
    \/ RequestAnswered \/ AnswerLost \/ RequestRefused \/ RequestVetoed \/ UnderwrittenLate \/ AcceptUnderwriting \/ CrashUnderwriting
UnderwritingSpec == UnderwritingInit /\ [][UnderwritingNext]_uwvars

-----------------------------------------------------------------------------
Slices == {p \in Policies : policy[p].ours}
RealLoss(p) ==
    IF policy[p].status = "open" THEN Collateral
    ELSE IF policy[p].status = "claimed_loss" THEN Collateral - Premium ELSE 0
RealGain(p) == IF policy[p].status = "settled_safe" THEN Premium ELSE 0
\* Once this database has written a slice, what all our slices have lost or may
\* still lose stays within the budget fixed at the start and a tenth of what was
\* earned: whatever answer was lost, slice unreceipted or end not yet observed.
BudgetRespected ==
    Slices # foreign =>
      SumFunction([p \in Slices |-> RealLoss(p)]) <= initial + SumFunction([p \in Slices |-> RealGain(p)]) \div 10

\* A slice of ours is never forgotten: with no mission open, each one this
\* database asked for has its receipt.
SliceReceipted == mission = Unknown => Slices \ foreign \subseteq Positions

\* A position is closed as its policy really ended, whatever odd or late
\* version of the policy the board showed before or after.
ClosedAsEnded == \A p \in Positions : pos[p].closed => pos[p].status = policy[p].status
=============================================================================
