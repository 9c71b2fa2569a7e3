----------------------------- MODULE MCContracts -----------------------------
(* What control missions leave to be settled: the bills of two ships'        *)
(* voyages, and the hull a company adds and the debt it takes for it.  Every *)
(* behaviour is one of a single part, the one "part" names; the parts do not *)
(* interact here.                                                            *)
EXTENDS BillClaims, Growth

CONSTANTS b1, s1, s2

VARIABLE part

ContractsInit ==
    /\ Init /\ GrowthInit
    /\ \/ part = "bills" /\ gw.cash = 0 /\ gw.kind = "lane"
       \/ part = "growth"

ContractsNext ==
    /\ UNCHANGED part
    /\ \/ part = "bills" /\ Next /\ UNCHANGED gvars
       \/ part = "growth" /\ GrowthNext /\ UNCHANGED vars


ContractsSpec ==
    /\ ContractsInit /\ [][ContractsNext]_<<part, vars, gvars>>
    /\ WF_vars(part = "bills" /\ Start) /\ WF_vars(part = "bills" /\ Refresh)
    /\ WF_vars(part = "bills" /\ RecordFlows) /\ WF_vars(part = "bills" /\ SaveSettled)
    /\ WF_vars(part = "bills" /\ EndPass) /\ WF_vars(part = "bills" /\ Idle)
    /\ \A s \in Ships : SF_vars(part = "bills" /\ PutSettlement(s)) /\ SF_vars(part = "bills" /\ Delete(s))
    /\ WF_gvars(part = "growth" /\ CaptureGrowth)
    /\ WF_gvars(part = "growth" /\ GrowthStep(TRUE)) /\ WF_gvars(part = "growth" /\ SendGrowth)
    /\ WF_gvars(part = "growth" /\ AnswerGrowth)
    /\ WF_gvars(part = "growth" /\ RepayFinancing) /\ SF_gvars(part = "growth" /\ CarryGrowth)
=============================================================================
