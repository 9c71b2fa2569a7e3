---------------------------- MODULE LoanService -----------------------------
(***************************************************************************)
(* The "__loans" control of internal/engine/loans.go: curing arrears,      *)
(* bridging an installment with a Goldsmiths lien, prepaying from surplus. *)
(*                                                                         *)
(* One unsecured amortised loan, one banking region, amounts in            *)
(* installments.  The account's snapshot (dates, retry) and its mission    *)
(* row (lm) are written one after the other: every operation that writes   *)
(* both has a parameter whole, FALSE when the process dies after the first *)
(* write.  Nothing else is in memory between two passes but the capture,   *)
(* seen.  The life of a request is ActionJournal's: it is carried out at   *)
(* most once and its answer may be lost or unreadable.                     *)
(***************************************************************************)
EXTENDS Naturals, FiniteSets

CONSTANTS
    None,
    Owed,       \* installments of the loan
    MaxCash,    \* bound on the vault
    MaxDue,     \* bound on due dates
    MaxReq,     \* bound on borrower requests (used by LoanRefinance)
    Rounding,   \* the most a bridge brings in above its need: the houses lend
                \* no less than 100,000p, in steps of 10,000p
    Markets     \* hulls free to pledge (at most loanBridgeInstantLimit) and
                \* requests the player lenders of the region take

ASSUME LoanAssumption ==
    /\ {Owed, MaxCash, MaxDue, MaxReq, Rounding} \subseteq Nat /\ Owed > 0
    /\ Markets \subseteq [hulls : Nat, lenders : 0..MaxReq]
    /\ None \notin Nat

VARIABLES
    w,          \* the server: vault, loan, liens, borrower requests
    seen,       \* the capture, or None
    lm,         \* the "__loans" mission row, or None
    dates,      \* _loan_bridge_due: progress of each due date, or None
    retry,      \* due dates cooling down in _loan_bridge_retry_at
    \* history
    funded,     \* what bridges really paid in, by due date
    prepaid     \* prepayments carried out and taken as done, and w.paid at the last

svars == <<lm, dates, retry, funded, prepaid>>

Dues  == 0..MaxDue
Reqs  == 1..MaxReq
World == [cash : 0..MaxCash, owed : 0..Owed, st : {"active", "defaulted", "repaid"},
          arrears : 0..1, due : Dues, paid : 0..Owed, liens : Nat, mkt : Markets,
          req : 0..MaxReq, rst : {"none", "open", "funded", "lapsed"}, quote : BOOLEAN,
          repl : [Reqs -> {"none", "good", "odd", "closed"}]]

Progress == [need : Nat, bridged : Nat, pending : BOOLEAN, banned : BOOLEAN]
Bridge   == [due : Dues, need : Nat, before : Nat, fund : Nat]
Repay    == [amount : 0..Owed, paid : 0..Owed]              \* amount 0: the full balance
Act      == [stage : {"loan-accept", "loan-repay", "loan-request"},
             st : {"staged", "pending", "receipt", "garbled", "refused", "banned", "throttled"},
             done : BOOLEAN]                                \* the server carried it out
Mission  == [phase : {"loan_bridge", "loan_repay", "loan_prepay", "loan_prepay_done", "done"},
             bridge : Bridge \cup {None}, rep : Repay \cup {None}, act : Act \cup {None}]

\* None is none of the records it may stand in the place of.
ASSUME LoanNone == None \notin World \cup Progress \cup Bridge \cup Repay \cup Act \cup Mission

ServiceTypeOK ==
    /\ w \in World /\ seen \in World \cup {None}
    /\ lm \in Mission \cup {None}
    /\ dates \in [Dues -> Progress \cup {None}] /\ retry \in SUBSET Dues
    /\ funded \in [Dues -> Nat] /\ prepaid \in [done : Nat, believed : Nat, at : Nat]

ServiceInit ==
    /\ \E c \in {0, MaxCash}, k \in Markets :
          w = [cash |-> c, owed |-> Owed, st |-> "active", arrears |-> 0, due |-> 0, paid |-> 0,
               liens |-> 0, mkt |-> k, req |-> 0, rst |-> "none", quote |-> FALSE,
               repl |-> [r \in Reqs |-> "none"]]
    /\ seen = None /\ lm = None
    /\ dates = [d \in Dues |-> None] /\ retry = {}
    /\ funded = [d \in Dues |-> 0] /\ prepaid = [done |-> 0, believed |-> 0, at |-> 0]

NewAct(stage) == [stage |-> stage, st |-> "staged", done |-> FALSE]

-----------------------------------------------------------------------------
(* The server (external) *)

\* The loan after a payment of n.
Paid(x, n) ==
    [x EXCEPT !.cash = @ - n, !.owed = @ - n, !.paid = @ + n,
              !.arrears = IF n >= @ THEN 0 ELSE @,
              !.st = IF x.owed = n THEN "repaid" ELSE @]

\* A due date passes: the installment is collected, or falls into arrears and
\* the second time into default.
Collect ==
    /\ w.st = "active" /\ w.due < MaxDue
    /\ w' = IF w.cash > w.arrears
            THEN [Paid(w, IF w.owed > w.arrears THEN w.arrears + 1 ELSE w.owed) EXCEPT !.due = @ + 1]
            ELSE [w EXCEPT !.due = @ + 1, !.arrears = 1,
                           !.st = IF w.arrears = 1 THEN "defaulted" ELSE @]

\* Trading income, and a payment none of the controls here made.
Earn == w.cash = 0 /\ MaxCash > 0 /\ w' = [w EXCEPT !.cash = 1]

-----------------------------------------------------------------------------
(* What a pass computes from its capture *)

\* Cash for the coming collection is missing (loanBridgeShortfall).
BridgeShortfall(x) == x.st = "active" /\ x.cash < 1

\* Installments short, with or without the other bills due by then.
BridgeNeeds(x) == {x.arrears + 1, x.arrears + 2}

\* A hull free to be pledged (loanBridgeShips).
HullFree(x) == x.liens < x.mkt.hulls

Key(x) == x.due

\* The progress left behind by a bridge that ended without funds.
Ended(p) == IF p = None \/ (p.bridged = 0 /\ ~p.banned) THEN None ELSE [p EXCEPT !.pending = FALSE]

-----------------------------------------------------------------------------
(* serviceLoans *)

Idle == seen # None /\ lm = None

\* Arrears are cured first, when the vault can pay them.
ServiceArrears ==
    /\ Idle /\ seen.st = "active" /\ seen.arrears > 0 /\ seen.cash >= seen.arrears
    /\ lm' = [phase |-> "loan_repay", bridge |-> None, act |-> NewAct("loan-repay"),
              rep |-> [amount |-> seen.arrears, paid |-> seen.paid]]
    /\ UNCHANGED <<w, seen, dates, retry, funded, prepaid>>

Attempted == dates[Key(seen)]

Marked(b, banned) ==
    LET p == IF dates[b.due] = None
             THEN [need |-> b.need, bridged |-> b.before, pending |-> FALSE, banned |-> FALSE]
             ELSE dates[b.due]
    IN  [dates EXCEPT ![b.due] = [p EXCEPT !.pending = ~banned, !.banned = @ \/ banned]]

\* The intent is persisted before its due date is marked.
StageBridge(b, whole) ==
    /\ lm' = [phase |-> "loan_bridge", bridge |-> b, rep |-> None, act |-> NewAct("loan-accept")]
    /\ dates' = IF whole THEN Marked(b, FALSE) ELSE dates
    /\ retry' = IF whole THEN retry \ {b.due} ELSE retry

\* What a bridge for so much brings in: rounded up to what the houses lend, or
\* less when they or the hull do not cover it (loanBridgeQuoteAmount).
Lent(amount) == 1..(amount + Rounding)

\* An installment the cash at hand will not pay is bridged by the least lien
\* that can, for what the due date was first found to need and no bridge has
\* brought in yet.  The houses may have no funds (try again later) or ban the
\* company.
ServiceInstallmentBridge(whole) ==
    /\ Idle /\ BridgeShortfall(seen) /\ Key(seen) \notin retry
    /\ seen.mkt.hulls > 0                       \* else it only puts itself off
    /\ Attempted # None => /\ ~Attempted.pending /\ ~Attempted.banned
                           /\ Attempted.bridged < Attempted.need
    /\ \E n \in BridgeNeeds(seen) :
          LET need   == IF Attempted = None THEN n ELSE Attempted.need
              before == IF Attempted = None THEN 0 ELSE Attempted.bridged
              left   == IF n < need - before THEN n ELSE need - before
              b(f)   == [due |-> Key(seen), need |-> need, before |-> before, fund |-> f]
          IN  \/ /\ HullFree(seen)
                 /\ \E f \in Lent(left) : StageBridge(b(f), whole)
              \/ /\ whole /\ HullFree(seen) /\ dates' = Marked(b(1), TRUE)                    \* walk-away ban
                 /\ retry' = retry \ {Key(seen)} /\ UNCHANGED lm
              \/ /\ whole /\ dates' = [dates EXCEPT ![Key(seen)] = Ended(@)] \* deferLoanBridge
                 /\ retry' = retry \cup {Key(seen)} /\ UNCHANGED lm
    /\ UNCHANGED <<w, seen, funded, prepaid>>

\* loanBridgeRetryDelay passes.
RetryDue(d) ==
    /\ d \in retry /\ retry' = retry \ {d}
    /\ UNCHANGED <<w, seen, lm, dates, funded, prepaid>>

\* The ordinary surplus above the reserves (one installment and the lots).
Surplus(x) == IF x.cash > 1 + x.arrears THEN x.cash - 1 - x.arrears ELSE 0

\* Surplus pays the loan down, all of it if it can.
PrepayLoans ==
    /\ Idle /\ seen.st = "active" /\ seen.owed > 0
    /\ LET amount == IF seen.cash > seen.owed THEN 0 ELSE Surplus(seen)
       IN  /\ seen.cash > seen.owed \/ amount > 0
           /\ lm' = [phase |-> "loan_prepay", bridge |-> None, act |-> NewAct("loan-repay"),
                     rep |-> [amount |-> amount, paid |-> seen.paid]]
    /\ UNCHANGED <<w, seen, dates, retry, funded, prepaid>>

-----------------------------------------------------------------------------
(* The request *)

\* loanActionReady for a bridge: the same installment, still short, still
\* within its budget.
BridgeReady(b) ==
    /\ Key(seen) = b.due /\ BridgeShortfall(seen) /\ HullFree(seen)
    /\ dates[b.due] # None => ~dates[b.due].banned /\ dates[b.due].bridged <= b.before
    /\ b.before < b.need

\* loanActionReady for a repayment.
RepayReady(r, phase) ==
    /\ seen.owed > 0 /\ seen.st # "repaid"
    /\ CASE phase = "loan_prepay" -> IF r.amount = 0 THEN seen.cash > seen.owed ELSE Surplus(seen) >= r.amount
         [] OTHER -> seen.cash >= r.amount

\* loanActionReady
LoanReady == IF lm.bridge # None THEN BridgeReady(lm.bridge) ELSE RepayReady(lm.rep, lm.phase)

\* First send.  A bridge whose due date lost its marker in a crash gets it back.
SendLoan(whole) ==
    /\ lm # None /\ lm.act # None /\ lm.act.st = "staged" /\ seen # None /\ LoanReady
    /\ IF lm.bridge # None /\ dates[lm.bridge.due] = None
       THEN dates' = Marked(lm.bridge, FALSE) /\ retry' = retry \ {lm.bridge.due}
       ELSE UNCHANGED <<dates, retry>>
    /\ lm' = IF whole THEN [lm EXCEPT !.act.st = "pending"] ELSE lm
    /\ UNCHANGED <<w, seen, funded, prepaid>>

\* replanUnsentAction: a request that was never sent is given up.
VetoLoan(whole) ==
    /\ lm # None /\ lm.act # None /\ lm.act.st = "staged" /\ seen # None /\ ~LoanReady
    /\ dates' = IF lm.bridge = None THEN dates ELSE [dates EXCEPT ![lm.bridge.due] = Ended(@)]
    /\ lm' = IF whole THEN [lm EXCEPT !.act = None] ELSE lm
    /\ UNCHANGED <<w, seen, retry, funded, prepaid>>

LoanAmount == IF lm.rep.amount = 0 THEN w.owed ELSE lm.rep.amount

CarryLoan ==
    /\ lm # None /\ lm.act # None /\ lm.act.st = "pending" /\ ~lm.act.done
    /\ IF lm.bridge # None
       THEN /\ HullFree(w) /\ w.cash + lm.bridge.fund <= MaxCash
            /\ w' = [w EXCEPT !.cash = @ + lm.bridge.fund, !.liens = @ + 1]
            /\ funded' = [funded EXCEPT ![lm.bridge.due] = @ + lm.bridge.fund]
            /\ UNCHANGED prepaid
       ELSE /\ w.st # "repaid" /\ LoanAmount <= w.owed /\ LoanAmount <= w.cash
            /\ w' = Paid(w, LoanAmount)
            /\ prepaid' = IF lm.phase # "loan_prepay" THEN prepaid
                          ELSE [prepaid EXCEPT !.done = @ + 1, !.at = w.paid + LoanAmount]
            /\ UNCHANGED funded
    /\ lm' = [lm EXCEPT !.act.done = TRUE]
    /\ UNCHANGED <<seen, dates, retry>>

AnswerLoan ==
    /\ lm # None /\ lm.act # None /\ lm.act.st = "pending"
    /\ \E st \in IF lm.act.done THEN {"receipt", "garbled"}
                 ELSE {"refused", "throttled"} \cup (IF lm.bridge # None THEN {"banned"} ELSE {}) :
          lm' = [lm EXCEPT !.act.st = st]
    /\ UNCHANGED <<w, seen, dates, retry, funded, prepaid>>

\* loanRepaymentObserved
RepaymentObserved(r) ==
    seen.st = "repaid" \/ (r.amount > 0 /\ seen.paid >= r.paid + r.amount)

\* loanRepaymentReconciled: scheduled installments move the same counters, so
\* only a closed loan proves a prepayment, and an open one a cure only when
\* nothing is in arrears.
RepaymentReconciled(r, phase) ==
    /\ RepaymentObserved(r)
    /\ seen.st = "repaid" \/ (phase = "loan_repay" /\ seen.arrears = 0)

\* reconcileLoanAction: the capture stands in for a receipt.  A lien of the
\* quote's own identity is found in it.
LoanEvidence ==
    /\ lm.act.st \in {"pending", "garbled"} /\ seen # None
    /\ IF lm.bridge # None THEN lm.act.done /\ seen.liens = w.liens
       ELSE RepaymentReconciled(lm.rep, lm.phase)

\* Mutant: the amount is added again when the result is applied again.
RecordBridgeFundingTwice(b) ==
    [dates EXCEPT ![b.due] =
       LET p == IF @ = None THEN [need |-> b.need, bridged |-> 0, pending |-> FALSE, banned |-> FALSE] ELSE @
       IN  [p EXCEPT !.bridged = @ + b.fund, !.pending = FALSE]]

\* recordLoanBridgeFunding: safe to apply again after a crash.
RecordBridgeFunding(b) ==
    [dates EXCEPT ![b.due] =
       LET p == IF @ = None THEN [need |-> b.need, bridged |-> 0, pending |-> FALSE, banned |-> FALSE] ELSE @
       IN  [p EXCEPT !.bridged = IF b.before + b.fund > @ THEN b.before + b.fund ELSE @, !.pending = FALSE]]

\* acceptLoanResult or applyReconciliation, then loanResultPhase.
ResultLoan(whole) ==
    /\ lm # None /\ lm.act # None /\ (lm.act.st = "receipt" \/ LoanEvidence)
    /\ dates' = IF lm.bridge = None THEN dates ELSE RecordBridgeFunding(lm.bridge)
    /\ lm' = IF ~whole THEN lm
             ELSE [lm EXCEPT !.act = None,
                             !.phase = IF @ = "loan_prepay" THEN "loan_prepay_done" ELSE "done"]
    /\ prepaid' = [prepaid EXCEPT !.believed = IF whole /\ lm.phase = "loan_prepay" THEN @ + 1 ELSE @]
    /\ UNCHANGED <<w, seen, retry, funded>>

\* rejectResult: a refused bridge leaves its progress, not its mission; a ban
\* is for the due date; the others release the row.
RejectLoan(whole) ==
    /\ lm # None /\ lm.act # None /\ lm.act.st \in {"refused", "banned", "throttled"}
    /\ IF lm.bridge # None
       THEN /\ IF lm.act.st = "banned"
               THEN dates' = Marked(lm.bridge, TRUE) /\ retry' = retry \ {lm.bridge.due}
               ELSE /\ dates' = [dates EXCEPT ![lm.bridge.due] = Ended(@)]
                    /\ retry' = retry \cup {lm.bridge.due}
            /\ lm' = IF whole THEN None ELSE lm
       ELSE /\ lm' = [lm EXCEPT !.act = None, !.phase = IF lm.act.st = "throttled" THEN @ ELSE "done"]
            /\ UNCHANGED <<dates, retry>>
    /\ UNCHANGED <<w, seen, funded, prepaid>>

\* Mutant: the paid loan's row is released on the old capture.
ReleaseLoanStale(whole) ==
    /\ lm # None /\ lm.act = None /\ seen # None
    /\ UNCHANGED seen
    /\ dates' = IF lm.bridge = None THEN dates ELSE [dates EXCEPT ![lm.bridge.due] = Ended(@)]
    /\ lm' = IF whole THEN None ELSE lm
    /\ UNCHANGED <<w, retry, funded, prepaid>>

\* serviceLoans on a row without a request.  A prepayment keeps its row until
\* a fresh capture shows it.
ReleaseLoan(whole) ==
    /\ lm # None /\ lm.act = None /\ seen # None
    /\ IF lm.phase = "loan_prepay_done"
       THEN /\ seen' = w
            /\ w.st = "repaid" \/ (lm.rep.amount > 0 /\ w.paid >= lm.rep.paid + lm.rep.amount)
       ELSE UNCHANGED seen
    /\ dates' = IF lm.bridge = None THEN dates ELSE [dates EXCEPT ![lm.bridge.due] = Ended(@)]
    /\ lm' = IF whole THEN None ELSE lm
    /\ UNCHANGED <<w, retry, funded, prepaid>>

ServiceStep(whole) ==
    \/ ServiceInstallmentBridge(whole) \/ SendLoan(whole) \/ VetoLoan(whole) \/ ResultLoan(whole)
    \/ RejectLoan(whole) \/ ReleaseLoan(whole)

-----------------------------------------------------------------------------
(* Properties *)

\* "It must never find a newly burned due date with no staged mission"
\* (serviceInstallmentBridge): a due date marked as being bridged has the
\* mission that bridges it, whatever write the process died after.
MarkerHasMission ==
    \A d \in Dues : dates[d] # None /\ dates[d].pending =>
        lm # None /\ lm.bridge # None /\ lm.bridge.due = d

\* The books of a due date are what its bridges really paid in, once no bridge
\* is under way.  And however many bridges a due date took, they exceed what it
\* was found to need by one rounding at the most: a bridge asks for what is
\* still missing, and none starts once the need is met.
BridgeBooksTrue ==
    \A d \in Dues :
        /\ lm = None \/ lm.bridge = None \/ lm.bridge.due # d =>
              funded[d] = IF dates[d] = None THEN 0 ELSE dates[d].bridged
        /\ dates[d] # None => funded[d] <= dates[d].need + Rounding

\* Never two prepayments from one capture: when one is decided, the capture
\* shows every payment made before.
PrepaidFromFresh ==
    [][lm = None /\ lm' # None /\ lm'.phase = "loan_prepay" => seen.paid >= prepaid.at]_<<w, seen, lm, dates, retry, funded, prepaid>>

-----------------------------------------------------------------------------
(* Why the properties hold: the parts of their inductive invariant *)

\* What is owed and what was paid make up the loan.
LoanWhole == w.owed + w.paid = Owed

\* A row is about a bridge or a repayment, and its request's status tells
\* whether it was carried out.
RowShaped ==
    lm # None =>
        /\ lm.bridge = None => lm.rep # None
        /\ lm.phase = "loan_prepay_done" => lm.act = None
        /\ lm.act # None /\ lm.act.st \in {"staged", "refused", "banned", "throttled"} => ~lm.act.done
        /\ lm.act # None /\ lm.act.st \in {"receipt", "garbled"} => lm.act.done

Booked(d) == IF dates[d] = None THEN 0 ELSE dates[d].bridged

\* The books of a due date: closed, or with a bridge under way.
Closed(d) == funded[d] = Booked(d) /\ (dates[d] # None => funded[d] <= dates[d].need + Rounding)
UnderWay(d, b) ==
    /\ b.before + b.fund <= b.need + Rounding
    /\ dates[d] # None => dates[d].need = b.need
    /\ lm.act = None => funded[d] = Booked(d) /\ funded[d] <= b.need + Rounding
    /\ lm.act # None /\ ~lm.act.done => funded[d] = b.before /\ Booked(d) = b.before
    /\ lm.act # None /\ lm.act.done => funded[d] = b.before + b.fund /\ Booked(d) \in {b.before, b.before + b.fund}

BridgeOf(d) == lm # None /\ lm.bridge # None /\ lm.bridge.due = d
BooksInv == \A d \in Dues : (BridgeOf(d) => UnderWay(d, lm.bridge)) /\ (~BridgeOf(d) => Closed(d))

\* A prepayment that was carried out, or is taken as done, is not yet captured.
Unseen == lm # None /\ (lm.phase = "loan_prepay_done" \/ (lm.phase = "loan_prepay" /\ lm.act # None /\ lm.act.done))

FreshInv == prepaid.at <= w.paid /\ (seen # None /\ ~Unseen => seen.paid >= prepaid.at)

LoanInv == ServiceTypeOK /\ LoanWhole /\ RowShaped /\ BooksInv /\ MarkerHasMission /\ FreshInv
=============================================================================
