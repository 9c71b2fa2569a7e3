------------------------------- MODULE Growth -------------------------------
(***************************************************************************)
(* The "__growth" control: internal/engine/growth.go, growth_capacity.go,  *)
(* the capacity financing of loans.go, player_loans.go, their results in   *)
(* results.go and journal.go, and the handoff in internal/store/missions.go *)
(*                                                                         *)
(* One candidate hull at one yard.  Its economics are a verdict: every     *)
(* evaluation may come out either way.  What the hull costs, what must be  *)
(* kept back and what is borrowed are small amounts of one vault.  The     *)
(* snapshot (savings, fallback, backoff) and the control row gm are saved  *)
(* one after the other: with whole = FALSE the process dies in between.    *)
(***************************************************************************)
EXTENDS Naturals, FiniteSets

CONSTANTS
    None,
    Price, Reserve,     \* of the hull; kept back for the region, loans and lots
    Loans,              \* loans the lenders may grant, in order
    MaxGen,             \* bound on admissions
    MaxSave,            \* bound on the deadline of a savings target
    Kinds,              \* companies: with a lane proven for one more hull, or
                        \* with room for capacity and either no credit or no
                        \* income to save from
    MaxRefits           \* refits tried (3 in the code)

ASSUME GrowthAssumption ==
    /\ {Price, Reserve, Loans, MaxGen, MaxSave, MaxRefits} \subseteq Nat
    /\ Price > 0 /\ None \notin Nat /\ Kinds \subseteq {"lane", "savings", "credit"}

VARIABLES
    gw,         \* the server: vault, hulls of this control, loans, borrower request
    gseen,      \* the capture, or None
    gm,         \* the control row, or None
    voy,        \* the voyage row of the hull built under each admission
    sav,        \* days left to the savings target's deadline, or None
    fb, off,    \* Goldsmiths fallback allowed; candidate cooling down
    exp,        \* the target has expired and may not be set again yet
    again,      \* a handoff whose commit was not heard of, or None
    \* history
    gens, adopted, kept, created

gvars == <<gw, gseen, gm, voy, sav, fb, off, exp, again, gens, adopted, kept, created>>

Need  == Price + Reserve
Ids   == 1..Loans
GrowthGens  == 1..MaxGen
World == [kind : Kinds, cash : Nat, hulls : Nat, loan : [Ids -> Nat \cup {None}],     \* owed, 0 when repaid
          req : {"none", "open", "funded", "lapsed"}, quote : BOOLEAN]
Act   == [stage : {"build", "refit", "loan-request", "loan-accept", "loan-repay"},
          st : {"staged", "pending", "receipt", "garbled", "refused", "throttled"},
          done : BOOLEAN, loan : Ids \cup {None}]
Fin   == [want : Nat, each : Nat, got : SUBSET Ids, cancel : BOOLEAN, late : BOOLEAN]
GrowthRow   == [gen : GrowthGens, kind : {"lane", "capacity"},
          phase : {"growth_build", "growth_refit", "growth_provision", "commissioning", "growth_rejected",
                   "growth_loan_request", "growth_finance", "growth_finance_repay"},
          fin : Fin \cup {None},
          pl : [req : BOOLEAN, refused : BOOLEAN] \cup {None},
          built : BOOLEAN, refits : Nat, act : Act \cup {None}]

\* None is none of the records it may stand in the place of.
ASSUME GrowthNone == None \notin GrowthRow \cup Fin \cup Act \cup [req : BOOLEAN, refused : BOOLEAN]

GrowthTypeOK ==
    /\ gw \in World /\ gseen \in World \cup {None} /\ gm \in GrowthRow \cup {None}
    /\ voy \in [GrowthGens -> {"none", "new", "advanced", "done"}]
    /\ sav \in 0..MaxSave \cup {None} /\ {fb, off, exp} \subseteq BOOLEAN
    /\ again \in GrowthGens \cup {None} /\ gens \in 0..MaxGen
    /\ adopted \in Nat /\ kept \subseteq Ids /\ created \in [GrowthGens -> Nat]

GrowthInit ==
    /\ \E c \in {0, Need - 1, Need}, k \in Kinds :
          gw = [kind |-> k, cash |-> c, hulls |-> 0, loan |-> [i \in Ids |-> None], req |-> "none", quote |-> FALSE]
    /\ gseen = None /\ gm = None /\ voy = [g \in GrowthGens |-> "none"]
    /\ sav = None /\ fb = FALSE /\ off = FALSE /\ exp = FALSE /\ again = None
    /\ gens = 0 /\ adopted = 0 /\ kept = {} /\ created = [g \in GrowthGens |-> 0]

snap    == <<sav, fb, off, exp>>
history == <<gens, adopted, kept, created>>

-----------------------------------------------------------------------------
(* The server and time (external) *)

CaptureGrowth ==
    /\ gseen # gw /\ gseen' = gw
    /\ UNCHANGED <<gw, gm, voy, snap, again, history>>

GrowthServer ==
    /\ \/ gw.cash < Reserve + Need /\ gw' = [gw EXCEPT !.cash = @ + 1] \* trade
       \/ gw.cash >= Need /\ gw' = [gw EXCEPT !.cash = @ - 1]            \* a bill
       \/ gw.req = "open" /\ ~gw.quote /\ gw' = [gw EXCEPT !.quote = TRUE]
       \/ gw.req = "open" /\ gw' = [gw EXCEPT !.req = "lapsed", !.quote = FALSE]
    /\ UNCHANGED <<gseen, gm, voy, snap, again, history>>

\* A day of saving passes.
Tick ==
    /\ sav # None /\ sav > 0 /\ sav' = sav - 1
    /\ UNCHANGED <<gw, gseen, gm, voy, fb, off, exp, again, history>>

\* capacityHistoryWindow and the backoffs pass.
WindowPasses ==
    /\ exp \/ off
    /\ exp' = FALSE /\ off' = FALSE
    /\ UNCHANGED <<gw, gseen, gm, voy, sav, fb, again, history>>

\* BuildBy: one game day after the first loan was received.
BuildByPasses ==
    /\ gm # None /\ gm.fin # None /\ gm.fin.got # {} /\ ~gm.fin.late /\ ~gm.built
    /\ gm' = [gm EXCEPT !.fin.late = TRUE]
    /\ UNCHANGED <<gw, gseen, voy, snap, again, history>>

\* The first voyage of a commissioned hull moves on, and ends.
VoyageMoves(g) ==
    /\ \/ voy[g] = "new" /\ voy' = [voy EXCEPT ![g] = "advanced"]
       \/ voy[g] = "advanced" /\ voy' = [voy EXCEPT ![g] = "done"]
    /\ UNCHANGED <<gw, gseen, gm, snap, again, history>>

-----------------------------------------------------------------------------
(* What a pass computes from its capture *)

\* The package and the reserves are in the vault (evaluateGrowth,
\* growthCashFunding); whether it pays for itself is a verdict.
Fundable(x) == x.cash >= Need

Gap(x) == Need - x.cash

Free(x) == {i \in Ids : x.loan[i] = None}

GrowthIdle == gm = None /\ gseen # None /\ gens < MaxGen

\* A capacity hull that pays for itself and is beyond the cash at hand.
Wants(how) == GrowthIdle /\ gseen.kind = how /\ ~Fundable(gseen)

At(p) == gm # None /\ gseen # None /\ gm.act = None /\ gm.phase = p

NewAct(stage) == [stage |-> stage, st |-> "staged", done |-> FALSE, loan |-> None]
NewRow(kind, phase) ==
    [gen |-> gens + 1, kind |-> kind, phase |-> phase, fin |-> None, pl |-> None,
     built |-> FALSE, refits |-> 0, act |-> None]
NewFin(n, each) == [want |-> n, each |-> each, got |-> {}, cancel |-> FALSE, late |-> FALSE]
Stage(row, stage) == [row EXCEPT !.act = NewAct(stage)]

\* setCapacitySavingsTarget: the target of the same hull keeps the earlier
\* deadline.
SavingsTarget(d) == IF sav # None /\ sav < d THEN sav ELSE d

-----------------------------------------------------------------------------
(* considerGrowth, considerCapacityGrowthAt *)

\* startGrowth, startCapacityGrowth: a hull the own cash pays for.  The row is
\* saved before the savings target of the hull is cleared.
StartGrowth(whole) ==
    /\ GrowthIdle /\ ~off /\ Fundable(gseen) /\ sav # 0
    /\ gm' = Stage(NewRow(IF gseen.kind = "lane" THEN "lane" ELSE "capacity", "growth_build"), "build")
    /\ sav' = IF whole THEN None ELSE sav
    /\ gens' = gens + 1
    /\ UNCHANGED <<gw, gseen, voy, fb, off, exp, again, adopted, kept, created>>

\* A better hull than cash allows is saved for, if the wait is short.
SaveUp ==
    /\ Wants("savings") /\ ~exp /\ ~off /\ sav # 0
    /\ \E d \in 1..MaxSave : sav' = SavingsTarget(d)
    /\ UNCHANGED <<gw, gseen, gm, voy, fb, off, exp, again, history>>

\* liveCapacitySavingsTarget: the target expires, or is given up.
EndSavings ==
    /\ gm = None /\ gseen # None /\ sav # None
    /\ sav' = None /\ exp' = (exp \/ sav = 0)
    /\ UNCHANGED <<gw, gseen, gm, voy, fb, off, again, history>>

\* stagePlayerLoan: players are asked first.  Without the collateral the
\* Goldsmiths may be.
StagePlayerLoan ==
    /\ Wants("credit") /\ ~off /\ ~fb /\ gseen.req # "open" /\ Free(gseen) # {}
    /\ \/ /\ gm' = Stage([NewRow("capacity", "growth_loan_request") EXCEPT
                           !.pl = [req |-> FALSE, refused |-> FALSE]], "loan-request")
          /\ gens' = gens + 1 /\ UNCHANGED fb
       \/ fb' = TRUE /\ UNCHANGED <<gm, gens>>
    /\ UNCHANGED <<gw, gseen, voy, sav, off, exp, again, adopted, kept, created>>

\* considerCapacityFinancing: several liens, or none are to be had.
StageLiens ==
    /\ Wants("credit") /\ ~off /\ fb
    /\ \/ /\ Gap(gseen) <= Cardinality(Free(gseen))
          /\ gm' = [NewRow("capacity", "growth_finance") EXCEPT !.fin = NewFin(Gap(gseen), 1)]
          /\ gens' = gens + 1 /\ UNCHANGED off
       \/ off' = TRUE /\ UNCHANGED <<gm, gens>>
    /\ UNCHANGED <<gw, gseen, voy, sav, fb, exp, again, adopted, kept, created>>

-----------------------------------------------------------------------------
(* drivePlayerLoan *)

\* The row is still about its borrower request.
Asking == /\ gm # None /\ gseen # None /\ gm.act = None /\ gm.pl # None
          /\ gm.phase # "growth_rejected" /\ (gm.fin # None => gm.fin.got = {})

\* An unfunded request lapsed: this candidate may use the Goldsmiths.
PlayerLapsed(whole) ==
    /\ Asking /\ gm.pl.req /\ gseen.req = "lapsed"
    /\ fb' = TRUE
    /\ gm' = IF whole THEN None ELSE gm
    /\ UNCHANGED <<gw, gseen, voy, sav, off, exp, again, history>>

\* No request was sent: it is staged again, or the row is released.
PlayerUnsent ==
    /\ Asking /\ ~gm.pl.req
    /\ gm' = IF ~Fundable(gseen) /\ gseen.req # "open" THEN Stage(gm, "loan-request") ELSE None
    /\ UNCHANGED <<gw, gseen, voy, snap, again, history>>

\* The need is gone; the request is left to lapse.
PlayerNeedGone(whole) ==
    /\ Asking /\ gm.pl.req /\ gseen.req = "open"
    /\ fb' = FALSE /\ off' = TRUE
    /\ gm' = IF whole THEN None ELSE gm
    /\ UNCHANGED <<gw, gseen, voy, sav, exp, again, history>>

\* The cheapest quote that passes playerQuoteGate and playerApprovalReady.
PlayerApprove ==
    /\ Asking /\ gm.pl.req /\ gseen.req = "open" /\ gseen.quote /\ ~gm.pl.refused
    /\ ~Fundable(gseen)
    /\ gm' = Stage([gm EXCEPT !.fin = NewFin(1, Gap(gseen)), !.phase = "growth_finance"], "loan-accept")
    /\ UNCHANGED <<gw, gseen, voy, snap, again, history>>

\* Mutant: a journaled request is dropped, too.
RetireFinancingJournaled(whole) ==
    /\ gm # None /\ gseen # None /\ ~gm.built /\ (gm.pl # None \/ gm.fin # None)
    /\ gm.fin # None => gm.fin.got = {}
    /\ gm.pl # None /\ gm.pl.req => gseen.req # "funded"
    /\ sav' = None
    /\ gm' = IF whole THEN None ELSE gm
    /\ UNCHANGED <<gw, gseen, voy, fb, off, exp, again, history>>

\* retirePhaseOneFinancing: once yards overseas are open, financing of a home
\* yard is dropped, unless a loan or a journaled request exists.
RetireFinancing(whole) ==
    /\ gm # None /\ gseen # None /\ ~gm.built /\ (gm.pl # None \/ gm.fin # None)
    /\ gm.fin # None => gm.fin.got = {}
    /\ gm.pl # None /\ gm.pl.req => gseen.req # "funded"
    /\ gm.act # None => gm.act.st = "staged" /\ gm.act.stage \in {"loan-request", "loan-accept", "build"}
    /\ sav' = None
    /\ gm' = IF whole THEN None ELSE gm
    /\ UNCHANGED <<gw, gseen, voy, fb, off, exp, again, history>>

-----------------------------------------------------------------------------
(* driveCapacityFinancing *)

Financing == /\ gm # None /\ gseen # None /\ gm.act = None /\ gm.fin # None /\ ~gm.built
             /\ (gm.pl # None => gm.fin.got # {})

\* The deadline passed, or capacityFinanceReady says no for good.
CancelFinancing(whole) ==
    /\ Financing /\ gm.phase # "growth_finance_repay"
    /\ fb' = FALSE /\ off' = TRUE
    /\ gm' = IF whole THEN [gm EXCEPT !.fin.cancel = TRUE, !.phase = "growth_finance_repay"] ELSE gm
    /\ UNCHANGED <<gw, gseen, voy, sav, exp, again, history>>

Going == Financing /\ ~gm.fin.cancel /\ ~gm.fin.late /\ gm.phase # "growth_finance_repay"

\* The frozen quotes are accepted one by one.
AcceptNext ==
    /\ Going /\ Cardinality(gm.fin.got) < gm.fin.want
    /\ gm' = Stage(gm, "loan-accept")
    /\ UNCHANGED <<gw, gseen, voy, snap, again, history>>

\* With every loan in the vault the hull is ordered.
FinancedBuild ==
    /\ Going /\ Cardinality(gm.fin.got) = gm.fin.want /\ Fundable(gseen)
    /\ gm' = Stage([gm EXCEPT !.phase = "growth_build"], "build")
    /\ UNCHANGED <<gw, gseen, voy, snap, again, history>>

Owing(x) == {i \in gm.fin.got : x.loan[i] # 0}

\* The loan can be paid in full and what must be kept back stays in the vault;
\* the package of this control is not counted any more (fullLoanReserves
\* without "__growth" and without the loan itself).
Repayable(x, i) == x.loan[i] # None /\ x.cash >= Reserve + x.loan[i]

\* Mutant: the package the debt was for is still set aside.
RepayFinancingReserved ==
    /\ Financing /\ gm.phase = "growth_finance_repay"
    /\ \E i \in Owing(gseen) :
          /\ Repayable(gseen, i) /\ gseen.cash >= Need + gseen.loan[i]
          /\ \A j \in Owing(gseen) : i <= j
          /\ gm' = [gm EXCEPT !.act = [NewAct("loan-repay") EXCEPT !.loan = i]]
    /\ UNCHANGED <<gw, gseen, voy, snap, again, history>>

\* repayCapacityFinancing: debt that bought nothing is paid back, loan by loan,
\* in their order.
RepayFinancing ==
    /\ Financing /\ gm.phase = "growth_finance_repay"
    /\ \E i \in Owing(gseen) :
          /\ Repayable(gseen, i)
          /\ \A j \in Owing(gseen) : i <= j
          /\ gm' = [gm EXCEPT !.act = [NewAct("loan-repay") EXCEPT !.loan = i]]
    /\ UNCHANGED <<gw, gseen, voy, snap, again, history>>

\* All of it is paid back: the row goes.
Unwound(whole) ==
    /\ Financing /\ gm.phase = "growth_finance_repay" /\ Owing(gseen) = {}
    /\ fb' = FALSE
    /\ gm' = IF whole THEN None ELSE gm
    /\ UNCHANGED <<gw, gseen, voy, sav, off, exp, again, history>>

-----------------------------------------------------------------------------
(* driveGrowth *)

\* The loans of a hull that was built are ordinary debt from here on.
Settled == kept' = IF gm.built /\ gm.fin # None THEN kept \cup gm.fin.got ELSE kept

\* finishGrowthControl: nothing was built, the hull was lost, or a capacity
\* hull is armed or cannot be.
FinishControl ==
    /\ gm # None /\ gseen # None /\ gm.act = None
    /\ \/ ~gm.built /\ gm.fin = None /\ gm.pl = None /\ gm.phase \in {"growth_build", "growth_rejected"}
       \/ gm.built /\ gseen.hulls = adopted /\ (gm.kind = "lane" \/ gm.refits >= MaxRefits)
    /\ gm' = None /\ Settled
    /\ UNCHANGED <<gw, gseen, voy, snap, again, gens, adopted, created>>

\* The hull is in the captured fleet and is to be armed.
RefitHull ==
    /\ At("growth_refit") /\ gm.built /\ gseen.hulls = adopted /\ gm.refits < MaxRefits
    /\ gm' = Stage(gm, "refit")
    /\ UNCHANGED <<gw, gseen, voy, snap, again, history>>

\* A lane hull is provisioned, or its lane is withdrawn or no longer pays;
\* either way it is commissioned.
Commission ==
    /\ gm # None /\ gseen # None /\ gm.act = None /\ gm.built /\ gm.kind = "lane" /\ gseen.hulls = adopted
    /\ \/ /\ gm.phase = "growth_refit"                   \* armed already
          /\ gm' = [gm EXCEPT !.phase = "growth_provision"]
       \/ /\ gm.phase \in {"growth_refit", "growth_provision"}
          /\ gm' = [gm EXCEPT !.phase = "commissioning"]
    /\ UNCHANGED <<gw, gseen, voy, snap, again, history>>

\* Mutant: the voyage is written whatever is there.
HandoffGrowthMissionUpsert(g) ==
    /\ gm # None => gm.gen = g /\ gm.phase = "commissioning" /\ gm.act = None
    /\ voy' = [voy EXCEPT ![g] = "new"]
    /\ created' = [created EXCEPT ![g] = @ + 1]
    /\ gm' = None

\* HandoffGrowthMission: one transaction.  The control row, if it is there,
\* must be this admission's and ready; the voyage row, if it is there, is kept;
\* without either there is nothing to hand off.
HandoffGrowthMission(g) ==
    /\ gm # None => gm.gen = g /\ gm.phase = "commissioning" /\ gm.act = None
    /\ \/ voy[g] \in {"new", "advanced"} /\ UNCHANGED <<voy, created>>
       \/ /\ voy[g] \in {"none", "done"} /\ gm # None
          /\ voy' = [voy EXCEPT ![g] = "new"]
          /\ created' = [created EXCEPT ![g] = @ + 1]
    /\ gm' = None

\* handoffGrowthVoyage; the answer of the commit may be lost.
Handoff(heard) ==
    /\ At("commissioning") /\ gm.kind = "lane" /\ HandoffGrowthMission(gm.gen)
    /\ again' = IF heard THEN again ELSE gm.gen
    /\ UNCHANGED <<gw, gseen, snap, gens, adopted, kept>>

\* The same call again, however late.
HandoffAgain ==
    /\ again # None
    /\ HandoffGrowthMission(again) \/ UNCHANGED <<voy, created, gm>>
    /\ again' = None
    /\ UNCHANGED <<gw, gseen, snap, gens, adopted, kept>>

-----------------------------------------------------------------------------
(* The request *)

\* growthBuildReady: everything the admission rests on is looked at again.
LaneBuildReady == Fundable(gseen)

\* capacityBuildReady
CapacityBuildReady == Fundable(gseen) /\ (gm.fin # None => ~gm.fin.cancel /\ ~gm.fin.late)

\* playerRequestReady
RequestReady == ~Fundable(gseen) /\ gseen.req # "open"

\* playerApprovalReady for a player's quote, capacityFinanceReady for a lien.
ApprovalReady == gm.pl # None => gseen.req = "open" /\ gseen.quote

AcceptReady == ~gm.fin.cancel /\ ~gm.fin.late /\ ApprovalReady

\* newActionPreflight
GrowthReady ==
    CASE gm.act.stage = "build" /\ gm.kind = "lane" -> LaneBuildReady
      [] gm.act.stage = "build" /\ gm.kind # "lane" -> CapacityBuildReady
      [] gm.act.stage = "loan-request" -> RequestReady
      [] gm.act.stage = "loan-accept"  -> AcceptReady
      [] gm.act.stage = "loan-repay"   -> gseen.loan[gm.act.loan] # 0 /\ Repayable(gseen, gm.act.loan)
      [] OTHER                         -> TRUE

Unsent == gm # None /\ gm.act # None /\ gm.act.st = "staged" /\ gseen # None

\* First send, or the veto that shows it was never sent (replanUnsentAction).
SendGrowth ==
    /\ Unsent
    /\ gm' = IF GrowthReady THEN [gm EXCEPT !.act.st = "pending"] ELSE [gm EXCEPT !.act = None]
    /\ UNCHANGED <<gw, gseen, voy, snap, again, history>>

\* capacityYardReady: the live quote is above the admitted limit.
YardTooDear ==
    /\ Unsent /\ gm.act.stage = "build" /\ gm.kind = "capacity"
    /\ off' = (off \/ gm.fin = None)
    /\ gm' = [gm EXCEPT !.act = None]
    /\ UNCHANGED <<gw, gseen, voy, sav, fb, exp, again, history>>

\* The server (external): the hull under its reserved name, one open request,
\* one loan per quote.
CarryGrowth ==
    /\ gm # None /\ gm.act # None /\ gm.act.st = "pending" /\ ~gm.act.done
    /\ \/ /\ gm.act.stage = "build" /\ gw.cash >= Price
          /\ gw' = [gw EXCEPT !.cash = @ - Price, !.hulls = @ + 1]
          /\ gm' = [gm EXCEPT !.act.done = TRUE]
       \/ gm.act.stage = "refit" /\ UNCHANGED gw /\ gm' = [gm EXCEPT !.act.done = TRUE]
       \/ /\ gm.act.stage = "loan-request" /\ gw.req # "open"
          /\ gw' = [gw EXCEPT !.req = "open", !.quote = FALSE]
          /\ gm' = [gm EXCEPT !.act.done = TRUE]
       \/ \E i \in Free(gw) :
             /\ gm.act.stage = "loan-accept" /\ \A j \in Free(gw) : i <= j
             /\ gm.pl # None => gw.req = "open" /\ gw.quote
             /\ gw' = [gw EXCEPT !.loan[i] = gm.fin.each, !.cash = @ + gm.fin.each, !.quote = FALSE,
                                 !.req = IF gm.pl # None THEN "funded" ELSE @]
             /\ gm' = [gm EXCEPT !.act.done = TRUE, !.act.loan = i]
       \/ /\ gm.act.stage = "loan-repay" /\ gw.cash >= gw.loan[gm.act.loan]
          /\ gw' = [gw EXCEPT !.cash = @ - gw.loan[gm.act.loan], !.loan[gm.act.loan] = 0]
          /\ gm' = [gm EXCEPT !.act.done = TRUE]
    /\ UNCHANGED <<gseen, voy, snap, again, history>>

AnswerGrowth ==
    /\ gm # None /\ gm.act # None /\ gm.act.st = "pending"
    /\ \E st \in IF gm.act.done THEN {"receipt", "garbled"} ELSE {"refused", "throttled"} :
          gm' = [gm EXCEPT !.act.st = st]
    /\ UNCHANGED <<gw, gseen, voy, snap, again, history>>

\* reconcileMortgageBuild, reconcilePlayerLoanRequest, reconcileLoanAction: a
\* hull of the reserved name, a request, a loan of the quote, a closed loan.
GrowthEvidence ==
    /\ gm.act.st \in {"pending", "garbled"} /\ gm.act.done /\ gseen # None
    /\ CASE gm.act.stage = "build"        -> gseen.hulls = gw.hulls
         [] gm.act.stage = "loan-request" -> gseen.req # "none"
         [] gm.act.stage = "loan-accept"  -> gseen.loan[gm.act.loan] # None
         [] gm.act.stage = "loan-repay"   -> gseen.loan[gm.act.loan] = 0
         [] OTHER                         -> TRUE

Done == [gm EXCEPT !.act = None]

\* acceptLoanResult, recordAcceptedCapacityLoan and the phase that follows: the
\* loan joins the debt, and other terms than the quote's cancel the financing.
AcceptedLoan(odd) ==
    [Done EXCEPT !.fin.got = @ \cup {gm.act.loan}, !.fin.cancel = odd,
                 !.phase = IF odd THEN "growth_finance_repay" ELSE "growth_finance"]

\* consumeResult or applyReconciliation.  A hull clears the savings first.
ResultGrowth(whole) ==
    /\ gm # None /\ gm.act # None /\ (gm.act.st = "receipt" \/ GrowthEvidence)
    /\ \/ /\ gm.act.stage = "build"
          /\ sav' = None /\ exp' = FALSE /\ UNCHANGED <<fb, off>>
          /\ gm' = IF whole THEN [Done EXCEPT !.built = TRUE, !.phase = "growth_refit"] ELSE gm
          /\ adopted' = IF whole THEN adopted + 1 ELSE adopted
       \/ /\ gm.act.stage = "refit" /\ gm' = [Done EXCEPT !.refits = MaxRefits, !.phase = "growth_provision"]
          /\ UNCHANGED <<snap, adopted>>
       \/ /\ gm.act.stage = "loan-request"
          /\ gm' = [Done EXCEPT !.pl.req = TRUE, !.phase = "growth_loan_request"]
          /\ UNCHANGED <<snap, adopted>>
       \/ /\ gm.act.stage = "loan-accept" /\ \E odd \in BOOLEAN : gm' = AcceptedLoan(odd)
          /\ UNCHANGED <<snap, adopted>>
       \/ /\ gm.act.stage = "loan-repay" /\ gm' = Done
          /\ UNCHANGED <<snap, adopted>>
    /\ UNCHANGED <<gw, gseen, voy, again, gens, kept, created>>

\* A definitive answer that it was not done.
Refused(a) == a.st \in {"refused", "throttled"}

\* consumeRejection, applyRejectedResult: backoffs first, the row second.
RejectGrowth(whole) ==
    /\ gm # None /\ gm.act # None /\ Refused(gm.act)
    /\ LET said == gm.act.st # "throttled"
       IN  \/ /\ gm.act.stage = "build"
              /\ off' = (off \/ said) /\ UNCHANGED fb
              /\ gm' = IF ~whole THEN gm
                       ELSE [Done EXCEPT !.phase = IF gm.fin = None THEN "growth_rejected"
                                                   ELSE IF said THEN "growth_finance_repay" ELSE @]
           \/ /\ gm.act.stage = "refit"
              /\ gm' = [Done EXCEPT !.refits = IF gm.kind = "lane" THEN @ ELSE IF said THEN MaxRefits ELSE @ + 1]
              /\ UNCHANGED <<fb, off>>
           \/ /\ gm.act.stage = "loan-request"
              /\ fb' = (fb \/ said) /\ UNCHANGED off
              /\ gm' = IF ~said THEN Done ELSE IF whole THEN None ELSE gm
           \/ /\ gm.act.stage = "loan-accept" /\ gm.pl # None
              /\ gm' = IF ~said THEN Done
                       ELSE [Done EXCEPT !.pl.refused = TRUE, !.fin = None, !.phase = "growth_loan_request"]
              /\ UNCHANGED <<fb, off>>
           \/ /\ gm.act.stage = "loan-accept" /\ gm.pl = None
              /\ off' = (off \/ said) /\ UNCHANGED fb
              /\ gm' = IF ~said THEN Done ELSE IF whole THEN [Done EXCEPT !.phase = "growth_finance_repay"] ELSE gm
           \/ /\ gm.act.stage = "loan-repay" /\ gm' = Done /\ UNCHANGED <<fb, off>>
    /\ UNCHANGED <<gw, gseen, voy, sav, exp, again, history>>

-----------------------------------------------------------------------------
GrowthStep(whole) ==
    \/ PlayerLapsed(whole) \/ Unwound(whole) \/ ResultGrowth(whole) \/ RejectGrowth(whole)
    \/ (gm # None /\ gm.fin # None /\ (gm.fin.late \/ gm.fin.cancel) /\ CancelFinancing(whole))

GrowthNext ==
    \/ CaptureGrowth \/ GrowthServer \/ Tick \/ WindowPasses \/ BuildByPasses
    \/ (\E g \in GrowthGens : VoyageMoves(g))
    \/ SaveUp \/ EndSavings \/ StagePlayerLoan \/ StageLiens
    \/ PlayerUnsent \/ PlayerApprove \/ AcceptNext \/ FinancedBuild \/ RepayFinancing
    \/ FinishControl \/ RefitHull \/ Commission \/ HandoffAgain
    \/ SendGrowth \/ YardTooDear \/ CarryGrowth \/ AnswerGrowth
    \/ (\E whole \in BOOLEAN :
          \/ GrowthStep(whole) \/ CancelFinancing(whole) \/ PlayerNeedGone(whole) \/ RetireFinancing(whole)
          \/ Handoff(whole) \/ StartGrowth(whole))

\* Passes are made and requests answered; time passes.
GrowthFairness ==
    /\ WF_gvars(CaptureGrowth) /\ WF_gvars(Tick)
    /\ WF_gvars(EndSavings /\ sav = 0)
    /\ WF_gvars(GrowthStep(TRUE)) /\ WF_gvars(SendGrowth) /\ WF_gvars(AnswerGrowth)
    /\ WF_gvars(RepayFinancing) /\ SF_gvars(CarryGrowth)

GrowthSpec == GrowthInit /\ [][GrowthNext]_gvars /\ GrowthFairness

-----------------------------------------------------------------------------
(* Properties *)

\* No debt is lost sight of: a loan that is owed is recorded in the control row,
\* is the effect of its outstanding request, or paid for a hull that was built.
NoOrphanDebt ==
    \A i \in Ids : gw.loan[i] \notin {None, 0} /\ i \notin kept =>
        /\ gm # None /\ gm.fin # None
        /\ i \in gm.fin.got \/ (gm.act # None /\ gm.act.loan = i)

\* "A retried handoff never overwrites an already advancing voyage"
\* (HandoffGrowthMission): an admission's voyage is created once.
HandoffOnce == \A g \in GrowthGens : created[g] <= 1

\* Debt that bought nothing is paid back and its row released, as long as the
\* vault can pay each loan still owed and keep the reserve
\* (repayCapacityFinancing, newActionPreflight).
UnusedDebtRepaid ==
    (gm # None /\ gm.phase = "growth_finance_repay")
        ~> (gm = None \/ (gm.fin # None /\ \E i \in Owing(gw) : ~Repayable(gw, i)))

-----------------------------------------------------------------------------
(* Why the properties hold: the parts of their inductive invariant *)

\* A row's admission is not handed off while the row is there, and admissions
\* are numbered in order.
HandoffInv ==
    /\ \A g \in GrowthGens : g > gens => created[g] = 0
    /\ gm # None => gm.gen <= gens /\ created[gm.gen] = 0

\* What a control row is about, by its kind, phase and request.
RowsShaped ==
    /\ gm.kind = "lane" => gm.fin = None /\ gm.pl = None
    /\ gm.phase = "commissioning" => gm.kind = "lane"
    /\ gm.fin # None /\ gm.pl # None => gm.fin.want = 1
    /\ gm.act # None =>
         /\ gm.act.stage = "loan-request" => gm.pl # None /\ (gm.fin # None => gm.fin.got = {})
         /\ gm.act.stage = "loan-accept" =>
              gm.fin # None /\ (gm.pl # None => gm.fin.got = {}) /\ (gm.act.done <=> gm.act.loan # None)
         /\ gm.act.stage = "loan-repay" => gm.fin # None /\ gm.act.loan \in gm.fin.got
         /\ gm.act.stage \notin {"loan-accept", "loan-repay"} => gm.act.loan = None
         /\ gm.act.st \in {"staged", "refused", "throttled"} => ~gm.act.done
         /\ gm.act.st = "receipt" => gm.act.done

\* A loan in the books was granted, and what the capture shows repaid stays so.
LoansKnown ==
    /\ gseen # None => \A i \in Ids : /\ gseen.loan[i] # None => gw.loan[i] # None
                                      /\ gseen.loan[i] = 0 => gw.loan[i] = 0
    /\ gm # None =>
         /\ gm.fin # None => \A i \in gm.fin.got : gw.loan[i] # None
         /\ gm.act # None /\ gm.act.loan # None => gw.loan[gm.act.loan] # None

DebtInv == (gm # None => RowsShaped) /\ LoansKnown /\ NoOrphanDebt

GrowthInv == GrowthTypeOK /\ HandoffOnce /\ HandoffInv /\ DebtInv
=============================================================================
