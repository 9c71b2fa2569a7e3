--------------------------- MODULE VoyageInsurance ---------------------------
(***************************************************************************)
(* Cover for our own ocean voyages: internal/engine/voyage_insurance.go,   *)
(* and the part of finishMission (internal/engine/mission.go) that waits   *)
(* for the policies to end before it settles the mission.                  *)
(*                                                                         *)
(* One mission sails out and back.  Before each leg it may offer a policy  *)
(* once, pays the premium with the offer, and books it from the receipt or *)
(* from the policy found on the board.  A policy ends with a refund of the *)
(* premium, a claim, both or neither, each a row of the ledger.  The hull  *)
(* may also hold a policy that is older than the mission.  Whether cover   *)
(* is worth its price, and how long to wait for an underwriter, are left   *)
(* open: the ship may always sail without an offer.                        *)
(***************************************************************************)
EXTENDS Integers, FiniteSets, FiniteSetsExt, Sequences

CONSTANTS
    NoCover,        \* no policy, no request, no board
    CoverPremium,   \* pence paid with an offer
    Refunds,        \* what may come back of it
    Claim,          \* pence paid for a loss
    MaxOffers,      \* policies at the server
    MaxMisses       \* lost answers, failed fetches and crashes

ASSUME CoverAssumption ==
    /\ {CoverPremium, Claim, MaxOffers, MaxMisses} \subseteq Nat
    /\ Refunds \subseteq 0..CoverPremium /\ NoCover \notin {"out", "back"}

VARIABLES
    policies,       \* the server's policies on this hull, in the order of their creation
    offer,          \* the leg of a request that may still be applied
    board,          \* the captured insurance board, NoCover when it is not fresh
    ledger,         \* the captured ledger: rows of ended policies, fetched after SettledAt or not
    cover,          \* the mission: its leg, action, intents and books
    misses

vivars == <<policies, offer, board, ledger, cover, misses>>

Legs == {"out", "back"}
Miss == misses < MaxMisses /\ misses' = misses + 1
Open(p) == p.status = "open"
Offered(leg) == [leg |-> leg, old |-> FALSE, status |-> "open", refund |-> 0, claim |-> 0]
NoIntent == [offered |-> FALSE, declined |-> FALSE, policy |-> 0]

CoverInit ==
    /\ policies \in {<<>>, <<[Offered("out") EXCEPT !.old = TRUE]>>}
    /\ offer = NoCover /\ board = NoCover /\ ledger = NoCover /\ misses = 0
    /\ cover = [leg |-> "out", at |-> "port", action |-> "none", found |-> 0,
                intent |-> [l \in Legs |-> NoIntent], fees |-> 0, proceeds |-> 0,
                observed |-> FALSE, settled |-> FALSE, known |-> TRUE]

-----------------------------------------------------------------------------
\* The server.
PolicyEnds(i) ==
    /\ Open(policies[i])
    /\ \E status \in {"settled_safe", "claimed_loss", "cancelled"}, refund \in Refunds :
         policies' = [policies EXCEPT ![i] = [@ EXCEPT !.status = status, !.refund = refund,
                                                       !.claim = IF status = "claimed_loss" THEN Claim ELSE 0]]
    /\ UNCHANGED <<offer, board, ledger, cover, misses>>
MayOffer == Len(policies) < MaxOffers
Created(leg) == Append(policies, Offered(leg))
LateOffer ==
    /\ offer # NoCover /\ MayOffer /\ policies' = Created(offer) /\ offer' = NoCover
    /\ UNCHANGED <<board, ledger, cover, misses>>

\* A capture: the insurance board and the ledger are two requests, either
\* of which may come first or fail.
Ended(i) == ~Open(policies[i])
CaptureBoard ==
    /\ ~cover.settled
    /\ \/ board' = policies /\ UNCHANGED misses
       \/ board' = NoCover /\ Miss
    /\ UNCHANGED <<policies, offer, ledger, cover>>
CaptureLedger ==
    /\ ~cover.settled
    /\ \/ /\ ledger' = [rows |-> {i \in DOMAIN policies : Ended(i)}, after |-> cover.observed] /\ UNCHANGED misses
       \/ ledger' = NoCover /\ Miss
    /\ UNCHANGED <<policies, offer, board, cover>>

-----------------------------------------------------------------------------
\* prepareVoyageInsurance
Intent == cover.intent[cover.leg]
InPort == cover.at = "port" /\ cover.action = "none"
OpenOnBoard == {i \in DOMAIN board : Open(board[i])}
StageCover ==
    /\ InPort /\ board # NoCover /\ ~Intent.declined /\ Intent.policy = 0
    /\ board # NoCover => OpenOnBoard = {}
    /\ cover' = [cover EXCEPT !.action = "staged", !.intent[cover.leg] = [NoIntent EXCEPT !.offered = TRUE], !.observed = FALSE]
    /\ UNCHANGED <<policies, offer, board, ledger, misses>>
\* Departure: with no cover to wait for, or under the policy of this leg.
Foreign == board # NoCover /\ (board # NoCover => \E i \in OpenOnBoard : board[i].leg # cover.leg)
Unrecorded == board # NoCover /\ (board # NoCover => OpenOnBoard # {}) /\ ~Intent.offered
PolicyMissing == Intent.policy > 0 /\ (board = NoCover \/ (board # NoCover => Intent.policy \notin DOMAIN board))
Depart ==
    /\ InPort
    /\ Intent.declined \/ ~(PolicyMissing \/ (Intent.policy = 0 /\ Foreign))
    /\ cover' = [cover EXCEPT !.at = "sea", !.known = @ /\ ~(Unrecorded /\ ~Intent.declined)]
    /\ board' = NoCover /\ ledger' = NoCover
    /\ UNCHANGED <<policies, offer, misses>>
ArriveInsured ==
    /\ cover.at = "sea"
    /\ \/ cover.leg = "out" /\ cover' = [cover EXCEPT !.leg = "back", !.at = "port"]
       \/ cover' = [cover EXCEPT !.at = "ended"]            \* home, or sunk
    /\ board' = NoCover /\ ledger' = NoCover
    /\ UNCHANGED <<policies, offer, misses>>

\* applyVoyageInsurance: the premium is a fee of the mission, once.
Applied(c, i) == [c EXCEPT !.intent[c.leg].policy = i, !.fees = @ + CoverPremium, !.found = 0, !.action = "none"]
Declined == [cover EXCEPT !.action = "none", !.intent[cover.leg].declined = TRUE]
Retried == [cover EXCEPT !.action = "none"]
\* An answer that never came leaves the request outstanding.
Unanswered == [cover EXCEPT !.action = "sent"]

\* Dispatch: voyageInsurancePreflight, the request and consumeVoyageInsuranceResult.
SendCover ==
    /\ cover.action = "staged" /\ board # NoCover
    /\ board # NoCover =>
         \/ /\ OpenOnBoard = {} /\ MayOffer /\ policies' = Created(cover.leg)
            /\ cover' = Applied(cover, Len(policies) + 1) /\ UNCHANGED <<offer, misses>>
         \/ /\ OpenOnBoard = {} /\ cover' \in {Declined, Retried} /\ UNCHANGED <<policies, offer, misses>>
         \/ /\ OpenOnBoard = {} /\ Miss /\ cover' = Unanswered
            /\ \/ MayOffer /\ policies' = Created(cover.leg) /\ UNCHANGED offer
               \/ offer' = cover.leg /\ UNCHANGED policies
         \/ cover' = Retried /\ UNCHANGED <<policies, offer, misses>>          \* vetoed, never sent
    /\ board' = NoCover /\ ledger' = NoCover
\* The same key again: applied now, or the answer of the first application.
Ours == {i \in DOMAIN policies : ~policies[i].old /\ policies[i].leg = cover.leg}
ResendCover ==
    /\ cover.action = "sent"
    /\ \/ /\ offer # NoCover /\ MayOffer /\ policies' = Created(offer) /\ offer' = NoCover
          /\ cover' = Applied(cover, Len(policies) + 1)
       \/ /\ offer = NoCover /\ \E i \in Ours : cover' = Applied(cover, i)
          /\ UNCHANGED <<policies, offer>>
    /\ board' = NoCover /\ ledger' = NoCover /\ UNCHANGED misses

\* reconcileVoyageInsurance: the one policy on the board with the frozen terms
\* and no older than the request becomes durable evidence first.
Match(i) == board[i].leg = cover.leg /\ ~board[i].old
Matching == {i \in DOMAIN board : Match(i)}
Reconcile ==
    /\ cover.action = "sent" /\ board # NoCover
    /\ board # NoCover =>
         \E i \in DOMAIN board : Matching = {i} /\ cover' = [cover EXCEPT !.action = "reconciled", !.found = i]
    /\ UNCHANGED <<policies, offer, board, ledger, misses>>
ApplyReconciled ==
    /\ cover.action = "reconciled" /\ cover' = Applied(cover, cover.found)
    /\ board' = NoCover /\ ledger' = NoCover /\ UNCHANGED <<policies, offer, misses>>
\* The mission and the journal are durable, the capture is not.
RestartCover ==
    /\ Miss /\ ~cover.settled /\ board' = NoCover /\ ledger' = NoCover
    /\ UNCHANGED <<policies, offer, cover>>

-----------------------------------------------------------------------------
\* finishMission: the ends are observed, then a ledger fetched after that
\* observation is read.
CoverPolicies == {cover.intent[l].policy : l \in Legs} \ {0}
PoliciesTerminal == board # NoCover /\ (board # NoCover => \A i \in CoverPolicies : i \in DOMAIN board /\ ~Open(board[i]))
Finished == cover.at = "ended" /\ cover.action = "none" /\ ~cover.settled
ObserveEnds ==
    /\ Finished /\ CoverPolicies # {} /\ ~cover.observed /\ PoliciesTerminal
    /\ cover' = [cover EXCEPT !.observed = TRUE]
    /\ board' = NoCover /\ UNCHANGED <<policies, offer, ledger, misses>>
\* settleVoyageInsurance
LedgerPresent == ledger # NoCover
LedgerCurrent == ledger # NoCover /\ cover.observed /\ (ledger # NoCover => ledger.after)
Row(i, amount) == IF i \in ledger.rows THEN amount ELSE 0
Settle ==
    /\ Finished
    /\ CoverPolicies # {} => PoliciesTerminal /\ LedgerCurrent
    /\ cover' = [cover EXCEPT !.settled = TRUE,
                   !.fees = IF CoverPolicies = {} THEN @ ELSE @ - SumFunction([i \in CoverPolicies |-> Row(i, policies[i].refund)]),
                   !.proceeds = IF CoverPolicies = {} THEN @ ELSE @ + SumFunction([i \in CoverPolicies |-> Row(i, policies[i].claim)])]
    /\ UNCHANGED <<policies, offer, board, ledger, misses>>

CoverNext ==
    \/ (\E i \in DOMAIN policies : PolicyEnds(i)) \/ LateOffer \/ CaptureBoard \/ CaptureLedger
    \/ StageCover \/ Depart \/ ArriveInsured \/ SendCover \/ ResendCover \/ Reconcile \/ ApplyReconciled
    \/ RestartCover \/ ObserveEnds \/ Settle
CoverSpec == CoverInit /\ [][CoverNext]_vivars

-----------------------------------------------------------------------------
OwnPolicies == {i \in DOMAIN policies : ~policies[i].old}
\* A settled mission has booked what its policies really cost and paid: the
\* premiums less the refunds, and the claims, whichever way each was learnt.
CoverBooked ==
    cover.settled =>
      /\ cover.fees = SumFunction([i \in OwnPolicies |-> CoverPremium - policies[i].refund])
      /\ cover.proceeds = SumFunction([i \in OwnPolicies |-> policies[i].claim])
=============================================================================
