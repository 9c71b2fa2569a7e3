--------------------------- MODULE LoanRefinance ----------------------------
(***************************************************************************)
(* The emergency refinance controller: internal/engine/loan_refinance.go,  *)
(* loan_refinance_guard.go and their calls from results.go and journal.go, *)
(* beside LoanService, whose loan, vault and capture it shares.            *)
(*                                                                         *)
(* Its state is spread over the account snapshot (rf, rdue, cool, off) and *)
(* the mission row "__loan_refinance" (rm), written in the order of the    *)
(* code; a parameter tells after which write the process dies (whole, or   *)
(* cut for three writes).  A request has at most one acceptable quote.     *)
(***************************************************************************)
EXTENDS LoanService

CONSTANT MaxAttempts    \* payoffs tried before the controller gives up

ASSUME RefinanceAssumption == MaxAttempts \in Nat \ {0}

VARIABLES
    rf,         \* _loan_refinance, or None
    rdue,       \* _loan_refinance_due_dates of the loan, or None
    cool, off,  \* _loan_refinance_retry_at and _loan_refinance_backoffs lie ahead
    rm,         \* the mission row, or None
    posted      \* history: due dates for which a request was posted, once per request

rvars == <<rf, rdue, cool, off, rm, posted>>
vars  == <<w, seen, svars, rvars>>

RState  == [st : {"request", "wait", "approve", "repay", "repay_wait", "backoff"},
            req : 0..MaxReq, new : 0..MaxReq, quote : BOOLEAN, attempts : Nat, key : Dues \cup {None}]
Intent  == [req : 0..MaxReq, refused : BOOLEAN]                 \* RequestID, RejectedQuotes
RMission == [intent : Intent \cup {None}, quoted : BOOLEAN,      \* Capacity.Financing
             act : Act \cup {None}]

TypeOK ==
    /\ ServiceTypeOK
    /\ rf \in RState \cup {None} /\ rdue \in Dues \cup {None} /\ cool \in BOOLEAN /\ off \in BOOLEAN
    /\ rm \in RMission \cup {None}
    /\ posted \in [Reqs -> Dues \cup {None}]

Init ==
    /\ ServiceInit
    /\ rf = None /\ rdue = None /\ cool = FALSE /\ off = FALSE /\ rm = None
    /\ posted = [r \in Reqs |-> None]

-----------------------------------------------------------------------------
(* The server (external) *)

Capture == seen # w /\ seen' = w /\ UNCHANGED <<w, svars, rvars>>

Server ==
    /\ \/ Collect \/ Earn
       \/ w.rst = "open" /\ ~w.quote /\ w' = [w EXCEPT !.quote = TRUE]
       \/ w.rst = "open" /\ w' = [w EXCEPT !.rst = "lapsed", !.quote = FALSE]
       \/ \E r \in Reqs : w.repl[r] \in {"good", "odd"}        \* repaid or defaulted
                          /\ w' = [w EXCEPT !.repl[r] = "closed"]
    /\ UNCHANGED <<seen, svars, rvars>>

\* A day later no capture is fresh.
CoolDown ==
    /\ cool \/ off
    /\ cool' = FALSE /\ off' = FALSE /\ seen' = None
    /\ UNCHANGED <<w, svars, rf, rdue, rm, posted>>

-----------------------------------------------------------------------------
(* What a pass computes from its capture *)

Open(x, r) == x.repl[r] \in {"good", "odd"}

\* loanRefinanceNeeded: an active unsecured loan, the only one, whose next
\* installment the vaults do not cover.
Needed(x) ==
    /\ x.st = "active" /\ x.owed > 0 /\ x.cash < 1
    /\ \A r \in Reqs : ~Open(x, r)

\* loanRefinanceMayRequest
MayRequest(x) == rdue # Key(x) /\ ~cool

\* loanRefinanceEarmark is positive: the payoff of the old loan is reserved.
Earmarked == rf # None /\ (rf.new # 0 \/ rf.st = "approve")

\* loanRefinanceHoldsPrepay
HoldsPrepay ==
    /\ rf # None
    /\ rf.new # 0 \/ rf.st \in {"approve", "repay", "repay_wait"}
       \/ (rf.req # 0 /\ seen.req = rf.req /\ seen.rst = "open")

\* loanRefinanceDisbursement: the loan of the approved quote, on its terms.
Disbursed(x, s) == s.quote /\ x.repl[s.new] = "good"

-----------------------------------------------------------------------------
(* driveLoanRefinance *)

Driven == seen # None /\ (rm # None => rm.act = None) /\ (lm # None => lm.act = None)

\* finishLoanRefinance: the row goes first, the snapshot follows.
Finish(s, kind, whole) ==
    /\ rm' = None
    /\ rf' = IF whole THEN None ELSE rf
    /\ cool' = (cool \/ (whole /\ s.req # 0))
    /\ off' = (off \/ (whole /\ kind \in {"quarantined", "exhausted"}))
    /\ UNCHANGED <<rdue, posted>>

NewMission == [intent |-> None, quoted |-> FALSE, act |-> None]
Row        == IF rm = None THEN NewMission ELSE rm
NewState   == [st |-> "request", req |-> 0, new |-> 0, quote |-> FALSE, attempts |-> 0, key |-> None]
Restart(s) == IF s.st = "backoff" THEN [s EXCEPT !.st = "request", !.req = 0, !.key = None] ELSE s

\* A request is posted for the loan's current due date: the state first.
DriveRequest(whole) ==
    /\ Driven /\ (rf = None => rm = None /\ ~off)
    /\ LET s == IF rf = None THEN NewState ELSE Restart(rf)
       IN  /\ s.new = 0 /\ s.req = 0
           /\ Needed(seen) /\ MayRequest(seen) /\ seen.rst # "open" /\ seen.arrears = 0
           /\ seen.req < seen.mkt.lenders                               \* bound
           /\ rf' = [s EXCEPT !.st = "request", !.key = Key(seen)]
           /\ rm' = IF whole THEN [Row EXCEPT !.intent = [req |-> 0, refused |-> FALSE], !.quoted = FALSE,
                                              !.act = NewAct("loan-request")]
                    ELSE rm
    /\ UNCHANGED <<rdue, cool, off, posted>>

\* The old loan is gone, or nothing was requested and nothing is needed.
DriveStop(whole) ==
    /\ Driven /\ rf # None
    /\ \/ seen.st # "active"
       \/ rf.new = 0 /\ rf.req = 0 /\ ~Needed(seen) /\ (rf.st = "backoff" => MayRequest(seen))
    /\ Finish(rf, "stopped", whole)

\* The request lapsed: another due date, a day later, or none at all.
DriveLapsed(whole) ==
    /\ Driven /\ rf # None /\ rf.new = 0 /\ rf.req # 0 /\ seen.st = "active"
    /\ seen.repl[rf.req] = "none" /\ seen.req = rf.req /\ seen.rst = "lapsed"
    /\ IF Needed(seen)
       THEN /\ rf' = [rf EXCEPT !.st = "backoff", !.req = 0] /\ cool' = TRUE
            /\ rm' = IF whole THEN [Row EXCEPT !.intent = None, !.quoted = FALSE] ELSE rm
            /\ UNCHANGED <<rdue, off, posted>>
       ELSE Finish(rf, "stopped", whole)

\* The cheapest acceptable quote is approved: state, row with the request,
\* state again; cut is the number of writes before the process dies.
DriveApprove(cut) ==
    /\ Driven /\ rf # None /\ rf.new = 0 /\ rf.req # 0 /\ seen.st = "active"
    /\ seen.repl[rf.req] = "none" /\ seen.req = rf.req /\ seen.rst = "open" /\ seen.quote
    /\ Needed(seen) /\ (rm # None /\ rm.intent # None => ~rm.intent.refused)
    /\ rf' = [rf EXCEPT !.quote = TRUE, !.st = IF cut = 3 THEN "approve" ELSE "wait"]
    /\ rm' = LET row == [Row EXCEPT !.intent = IF @ = None THEN [req |-> rf.req, refused |-> FALSE] ELSE @]
             IN  IF cut = 1 THEN row ELSE [row EXCEPT !.quoted = TRUE, !.act = NewAct("loan-accept")]
    /\ UNCHANGED <<rdue, cool, off, posted>>

\* The state once its replacement loan is known by the request it came from.
Adopted(s) ==
    LET q == s.quote \/ (rm # None /\ rm.quoted)
    IN  IF s.new = 0 /\ s.req # 0 /\ seen.repl[s.req] # "none"
        THEN [s EXCEPT !.new = s.req, !.st = "repay", !.quote = q] ELSE [s EXCEPT !.quote = q]

\* With the replacement at hand the old loan is paid off in full, from above
\* the floor.  A loan that is closed, or not the one approved, ends it all.
DriveDisbursed(whole) ==
    /\ Driven /\ rf # None /\ seen.st = "active"
    /\ LET s == Adopted(rf)
       IN  /\ s.new # 0 /\ s.st # "repay_wait"
           /\ \/ /\ seen.repl[s.new] = "closed" /\ Finish(s, "stopped", whole)
              \/ /\ seen.repl[s.new] # "closed" /\ ~Disbursed(seen, s) /\ Finish(s, "quarantined", whole)
              \/ /\ Disbursed(seen, s) /\ seen.cash > seen.owed
                 /\ rf' = s
                 /\ rm' = IF whole THEN [Row EXCEPT !.act = NewAct("loan-repay")] ELSE Row
                 /\ UNCHANGED <<rdue, cool, off, posted>>

\* After a payoff the borrower history is fetched before anything else.
DriveRepayWait(whole) ==
    /\ Driven /\ rf # None /\ rf.st = "repay_wait"
    /\ \/ w.st # "active" /\ Finish(rf, "done", whole)
       \/ w.st = "active" /\ rf.attempts >= MaxAttempts /\ Finish(rf, "exhausted", whole)
       \/ /\ w.st = "active" /\ rf.attempts < MaxAttempts
          /\ rf' = [rf EXCEPT !.st = "repay"] /\ UNCHANGED <<rdue, cool, off, rm, posted>>

-----------------------------------------------------------------------------
(* The request *)

\* Mutant: the payoff, too, is for a company whose cash does not suffice.
RefinanceReadyNeedy ==
    CASE rm.act.stage = "loan-request" ->
            /\ Needed(seen) /\ MayRequest(seen) /\ seen.arrears = 0
            /\ rf # None /\ rf.new = 0 /\ rm.intent.req = 0 /\ seen.rst # "open"
      [] rm.act.stage = "loan-accept" ->
            /\ Needed(seen) /\ rf # None /\ rf.new = 0 /\ rf.req = rm.intent.req
            /\ rf.quote /\ seen.req = rf.req /\ seen.rst = "open" /\ seen.quote
      [] rm.act.stage = "loan-repay" ->
            /\ rf # None /\ rf.st = "repay" /\ seen.st = "active" /\ seen.cash < 1
            /\ Disbursed(seen, rf)

\* loanRefinancePreflight
RefinanceReady ==
    CASE rm.act.stage = "loan-request" ->
            /\ Needed(seen) /\ MayRequest(seen) /\ seen.arrears = 0
            /\ rf # None /\ rf.new = 0 /\ rm.intent.req = 0 /\ seen.rst # "open"
      [] rm.act.stage = "loan-accept" ->
            /\ Needed(seen) /\ rf # None /\ rf.new = 0 /\ rf.req = rm.intent.req
            /\ rf.quote /\ seen.req = rf.req /\ seen.rst = "open" /\ seen.quote
      [] rm.act.stage = "loan-repay" ->
            /\ rf # None /\ rf.st = "repay" /\ seen.st = "active"
            /\ Disbursed(seen, rf) /\ seen.cash > seen.owed

Staged == rm # None /\ rm.act # None /\ rm.act.st = "staged" /\ seen # None

SendRefinance ==
    /\ Staged /\ RefinanceReady
    /\ rm' = [rm EXCEPT !.act.st = "pending"]
    /\ UNCHANGED <<rf, rdue, cool, off, posted>>

\* resetUnsentLoanRefinanceApproval
Unapproved(s) == IF s.new = 0 THEN [s EXCEPT !.st = "wait", !.quote = FALSE] ELSE s

\* replanUnsentAction
VetoRefinance(whole) ==
    /\ Staged /\ ~RefinanceReady
    /\ rf' = IF rm.act.stage = "loan-accept" /\ rf # None THEN Unapproved(rf) ELSE rf
    /\ rm' = IF whole THEN [rm EXCEPT !.act = None, !.quoted = IF rm.act.stage = "loan-accept" THEN FALSE ELSE @]
             ELSE rm
    /\ UNCHANGED <<rdue, cool, off, posted>>

\* The server posts one request at a time, and funds an open one once.
CarryRefinance ==
    /\ rm # None /\ rm.act # None /\ rm.act.st = "pending" /\ ~rm.act.done
    /\ \/ /\ rm.act.stage = "loan-request" /\ w.rst # "open" /\ w.req < w.mkt.lenders
          /\ w' = [w EXCEPT !.req = @ + 1, !.rst = "open", !.quote = FALSE]
          /\ posted' = [posted EXCEPT ![w.req + 1] = rf.key]
       \/ /\ rm.act.stage = "loan-accept" /\ w.rst = "open" /\ w.quote /\ w.cash + w.owed <= MaxCash
          /\ \E k \in {"good", "odd"} :
                w' = [w EXCEPT !.rst = "funded", !.quote = FALSE, !.repl[w.req] = k, !.cash = @ + w.owed]
          /\ UNCHANGED posted
       \/ /\ rm.act.stage = "loan-repay" /\ w.st = "active" /\ w.cash >= w.owed
          /\ w' = Paid(w, w.owed) /\ UNCHANGED posted
    /\ rm' = [rm EXCEPT !.act.done = TRUE]
    /\ UNCHANGED <<rf, rdue, cool, off>>

AnswerRefinance ==
    /\ rm # None /\ rm.act # None /\ rm.act.st = "pending"
    /\ \E st \in IF rm.act.done THEN {"receipt", "garbled"} ELSE {"refused", "throttled"} :
          rm' = [rm EXCEPT !.act.st = st]
    /\ UNCHANGED <<rf, rdue, cool, off, posted>>

\* A request is recognised in the capture, whatever became of it; a loan by
\* its request and quote; a payoff by the closed loan.
RefinanceEvidence ==
    /\ rm.act.st \in {"pending", "garbled"} /\ seen # None
    /\ CASE rm.act.stage = "loan-request" -> rm.act.done /\ seen.req = w.req
         [] rm.act.stage = "loan-accept"  -> seen.repl[rm.intent.req] # "none"
         [] rm.act.stage = "loan-repay"   -> seen.st = "repaid"

Done == [rm EXCEPT !.act = None]

\* loanRefinanceResult: the snapshot first, the row second; safe to repeat.
ResultRefinance(whole) ==
    /\ rm # None /\ rm.act # None /\ seen # None /\ (rm.act.st = "receipt" \/ RefinanceEvidence)
    /\ \/ /\ rm.act.stage = "loan-request"
          /\ rf' = [rf EXCEPT !.req = w.req, !.st = "wait"]
          /\ rdue' = IF seen.st # "repaid" THEN rf.key ELSE rdue
          /\ rm' = IF whole THEN [Done EXCEPT !.intent.req = w.req] ELSE rm
          /\ UNCHANGED <<cool, off, posted>>
       \/ /\ rm.act.stage = "loan-accept"
          /\ LET s == [rf EXCEPT !.new = rm.intent.req, !.st = "repay", !.quote = TRUE]
             IN  IF seen.st = "active" /\ Disbursed(w, s)
                 THEN /\ rf' = s /\ rm' = IF whole THEN Done ELSE rm
                      /\ UNCHANGED <<rdue, cool, off, posted>>
                 ELSE Finish(s, "quarantined", whole)
       \/ /\ rm.act.stage = "loan-repay"
          /\ \E confirmed \in {TRUE, w.st = "repaid"} :
                rf' = [rf EXCEPT !.st = "repay_wait",
                                 !.attempts = IF confirmed \/ @ > MaxAttempts THEN @ ELSE @ + 1]
          /\ rm' = IF whole THEN Done ELSE rm
          /\ UNCHANGED <<rdue, cool, off, posted>>

\* rejectLoanRefinance
RejectRefinance(whole) ==
    /\ rm # None /\ rm.act # None /\ rm.act.st \in {"refused", "throttled"} /\ seen # None
    /\ \/ /\ rm.act.stage = "loan-accept"
          /\ rf' = Unapproved(rf)
          /\ rm' = IF ~whole THEN rm
                   ELSE [Done EXCEPT !.quoted = FALSE,
                                     !.intent.refused = @ \/ rm.act.st = "refused"]
          /\ UNCHANGED <<rdue, cool, off, posted>>
       \/ /\ rm.act.stage # "loan-accept" /\ rm.act.st = "throttled"
          /\ rm' = Done /\ UNCHANGED <<rf, rdue, cool, off, posted>>
       \/ /\ rm.act.stage = "loan-repay" /\ rm.act.st = "refused"
          /\ rf' = [rf EXCEPT !.st = "repay_wait", !.attempts = IF @ > MaxAttempts THEN @ ELSE @ + 1]
          /\ rm' = IF whole THEN Done ELSE rm
          /\ UNCHANGED <<rdue, cool, off, posted>>
       \/ /\ rm.act.stage = "loan-request" /\ rm.act.st = "refused"
          /\ rf' = [rf EXCEPT !.st = "backoff", !.req = 0] /\ cool' = TRUE
          /\ rdue' = IF seen.st # "repaid" THEN rf.key ELSE rdue
          /\ rm' = IF whole THEN [Done EXCEPT !.intent = None] ELSE rm
          /\ UNCHANGED <<off, posted>>

-----------------------------------------------------------------------------
\* Cash above what is set aside is free for trade when no control is unresolved
\* and the capture of the vault is current.
Trade ==
    /\ seen # None /\ seen.cash = w.cash /\ w.cash > 0
    /\ (lm # None => lm.act = None) /\ (rm # None => rm.act = None)
    /\ Earmarked /\ seen.st = "active" => w.cash > w.owed
    /\ w' = [w EXCEPT !.cash = @ - 1]
    /\ UNCHANGED <<seen, svars, rvars>>

RefinanceStep(whole) ==
    \/ DriveRequest(whole) \/ DriveStop(whole) \/ DriveLapsed(whole) \/ DriveDisbursed(whole)
    \/ VetoRefinance(whole) \/ ResultRefinance(whole) \/ RejectRefinance(whole)
    \/ DriveApprove(IF whole THEN 3 ELSE 1) \/ DriveApprove(IF whole THEN 3 ELSE 2)
    \/ SendRefinance \/ AnswerRefinance

Service ==
    /\ \/ \E whole \in BOOLEAN : ServiceStep(whole)
       \/ ServiceArrears \/ (~HoldsPrepay /\ PrepayLoans) \/ CarryLoan \/ AnswerLoan
       \/ \E d \in Dues : RetryDue(d)
    /\ UNCHANGED rvars

Refinance ==
    \/ /\ \E whole \in BOOLEAN : RefinanceStep(whole)
       /\ UNCHANGED <<w, seen, svars>>
    \/ /\ \E whole \in BOOLEAN : DriveRepayWait(whole)
       /\ seen' = w /\ UNCHANGED <<w, svars>>
    \/ CarryRefinance /\ UNCHANGED <<seen, svars>>

Next == Capture \/ Server \/ CoolDown \/ Service \/ Refinance \/ Trade

\* The runner keeps making passes, a dead process is started again, requests
\* are answered in the end and not refused or throttled for ever.
Fairness ==
    /\ WF_vars(Capture)
    /\ WF_vars((ServiceStep(TRUE) \/ AnswerLoan) /\ UNCHANGED rvars)
    /\ WF_vars(RefinanceStep(TRUE) /\ UNCHANGED <<w, seen, svars>>)
    /\ WF_vars(DriveRepayWait(TRUE) /\ seen' = w /\ UNCHANGED <<w, svars>>)
    /\ SF_vars(CarryLoan /\ UNCHANGED rvars)
    /\ SF_vars(CarryRefinance /\ UNCHANGED <<seen, svars>>)

Spec == Init /\ [][Next]_vars /\ Fairness

-----------------------------------------------------------------------------
(* Properties *)

\* A controller that got its replacement loan ends, if the cash to pay the old
\* loan off stays: it does not retry for ever and does not hold the proceeds
\* for ever.
RefinanceEnds ==
    (rf # None /\ rf.new # 0) ~> (rf = None \/ w.cash <= w.owed)
=============================================================================
