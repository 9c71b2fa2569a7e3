----------------------------- MODULE LoanProofs ------------------------------
(***************************************************************************)
(* The books of the loan bridges are true, a marked due date has its       *)
(* mission and a prepayment is decided from a capture that shows the one   *)
(* before, for any loan, vault, due dates and markets, beside the          *)
(* refinance controller that shares the loan and the vault.                *)
(***************************************************************************)
EXTENDS LoanRefinance, TLAPS

LEMMA Facts ==
    /\ Owed \in Nat /\ MaxCash \in Nat /\ MaxDue \in Nat /\ MaxReq \in Nat /\ Rounding \in Nat /\ Owed > 0
    /\ Markets \subseteq [hulls : Nat, lenders : 0..MaxReq]
    /\ None \notin Nat /\ None \notin World /\ None \notin Progress /\ None \notin Bridge /\ None \notin Repay
    /\ None \notin Act /\ None \notin Mission
BY LoanAssumption, LoanNone

USE Facts

-----------------------------------------------------------------------------
(* The server *)

LEMMA WorldFields ==
    ASSUME NEW x \in World
    PROVE  /\ x.cash \in 0..MaxCash /\ x.owed \in 0..Owed /\ x.arrears \in 0..1 /\ x.due \in Dues
           /\ x.paid \in 0..Owed /\ x.liens \in Nat /\ x.mkt \in Markets /\ x.req \in 0..MaxReq
           /\ x.mkt.lenders \in 0..MaxReq /\ x.mkt.hulls \in Nat
<1>1. x.mkt \in Markets
    BY DEF World
<1>2. x.mkt \in [hulls : Nat, lenders : 0..MaxReq]
    BY <1>1
<1>3. QED
    BY <1>2 DEF World

\* A payment within the debt and the vault keeps the loan whole.
LEMMA PaidWorld ==
    ASSUME NEW x \in World, x.owed + x.paid = Owed, NEW n \in 0..x.owed, n <= x.cash
    PROVE  /\ Paid(x, n) \in World /\ Paid(x, n).owed + Paid(x, n).paid = Owed
           /\ Paid(x, n).paid = x.paid + n /\ Paid(x, n).due = x.due /\ Paid(x, n).liens = x.liens
<1>1. x.cash - n \in 0..MaxCash /\ x.owed - n \in 0..Owed /\ x.paid + n \in 0..Owed
    BY WorldFields
<1>2. PICK c \in 0..MaxCash, o \in 0..Owed, p \in 0..Owed : c = x.cash - n /\ o = x.owed - n /\ p = x.paid + n
    BY <1>1
<1>3. PICK a \in 0..1 : a = IF n >= x.arrears THEN 0 ELSE x.arrears
    BY WorldFields
<1>4. PICK st \in {"active", "defaulted", "repaid"} : st = IF x.owed = n THEN "repaid" ELSE x.st
    BY DEF World
<1>5. Paid(x, n) = [x EXCEPT !.cash = c, !.owed = o, !.paid = p, !.arrears = a, !.st = st]
    BY <1>2, <1>3, <1>4 DEF Paid
<1>6. [x EXCEPT !.cash = c, !.owed = o, !.paid = p, !.arrears = a, !.st = st] \in World
    BY DEF World
<1>7. /\ Paid(x, n).owed = o /\ Paid(x, n).paid = p /\ Paid(x, n).due = x.due /\ Paid(x, n).liens = x.liens
    BY <1>5 DEF World
<1>8. o + p = Owed
    BY <1>2, WorldFields
<1>9. QED
    BY <1>2, <1>5, <1>6, <1>7, <1>8

\* What the server and the refinance controller do to the loan.
LEMMA CollectWorld ==
    ASSUME w \in World, LoanWhole, Collect
    PROVE  w' \in World /\ LoanWhole' /\ w'.paid >= w.paid
<1>1. w.due + 1 \in Dues
    BY WorldFields DEF Collect, Dues
<1>2. CASE w.cash > w.arrears
  <2>1. PICK n \in 0..w.owed : n = (IF w.owed > w.arrears THEN w.arrears + 1 ELSE w.owed) /\ n <= w.cash
      BY <1>2, WorldFields
  <2>2. /\ Paid(w, n) \in World /\ Paid(w, n).owed + Paid(w, n).paid = Owed /\ Paid(w, n).paid = w.paid + n
      BY <2>1, PaidWorld DEF LoanWhole
  <2>3. w' = [Paid(w, n) EXCEPT !.due = @ + 1] /\ Paid(w, n).due = w.due
      BY <1>2, <2>1, PaidWorld DEF Collect, LoanWhole
  <2>4. PICK d \in Dues : d = w.due + 1
      BY <1>1
  <2>5. w' = [Paid(w, n) EXCEPT !.due = d]
      BY <2>3, <2>4
  <2>6. w' \in World /\ w'.owed = Paid(w, n).owed /\ w'.paid = Paid(w, n).paid
      BY <2>2, <2>5 DEF World
  <2>7. QED
      BY <2>2, <2>6, WorldFields DEF LoanWhole
<1>3. CASE ~(w.cash > w.arrears)
  <2>1. PICK d \in Dues, st \in {"active", "defaulted", "repaid"} :
           d = w.due + 1 /\ w' = [w EXCEPT !.due = d, !.arrears = 1, !.st = st]
    <3>1. PICK st \in {"active", "defaulted", "repaid"} : st = IF w.arrears = 1 THEN "defaulted" ELSE w.st
        BY DEF World
    <3>2. QED
        BY <1>1, <1>3, <3>1 DEF Collect
  <2>2. PICK a \in 0..1 : a = 1
      OBVIOUS
  <2>3. w' = [w EXCEPT !.due = d, !.arrears = a, !.st = st]
      BY <2>1, <2>2
  <2>4. w' \in World /\ w'.owed = w.owed /\ w'.paid = w.paid
      BY <2>3 DEF World
  <2>5. QED
      BY <2>4, WorldFields DEF LoanWhole
<1>4. QED
    BY <1>2, <1>3

\* A step that leaves the "__loans" control alone: the loan stays whole, what
\* was paid is never less, and a new capture is of what is there.
Outside ==
    /\ UNCHANGED svars
    /\ w' \in World /\ LoanWhole' /\ w'.paid >= w.paid
    /\ seen' = seen \/ seen' = w \/ seen' = None

LEMMA OutsideSteps ==
    ASSUME LoanInv, Capture \/ Server \/ CoolDown \/ Trade \/ Refinance
    PROVE  Outside
<1>1. /\ w \in World /\ LoanWhole
      /\ w.cash \in Nat /\ w.owed \in Nat /\ w.paid \in Nat
    BY WorldFields DEF LoanInv, ServiceTypeOK
<1>2. ASSUME w' \in World, w'.owed = w.owed, w'.paid = w.paid
      PROVE  w' \in World /\ LoanWhole' /\ w'.paid >= w.paid
    BY <1>1, <1>2 DEF LoanWhole
<1>3. CASE Capture \/ CoolDown
    BY <1>1, <1>2, <1>3 DEF Capture, CoolDown, Outside
<1>4. CASE Server
  <2>1. UNCHANGED <<seen, svars>>
      BY <1>4 DEF Server
  <2>2. CASE Collect
      BY <1>1, <2>1, <2>2, CollectWorld DEF Outside
  <2>3. CASE Earn
    <3>1. w' = [w EXCEPT !.cash = 1] /\ 1 \in 0..MaxCash
        BY <2>3 DEF Earn
    <3>2. w' \in World /\ w'.owed = w.owed /\ w'.paid = w.paid
        BY <1>1, <3>1 DEF World
    <3>3. QED
        BY <1>2, <2>1, <3>2 DEF Outside
  <2>4. CASE w' = [w EXCEPT !.quote = TRUE] \/ w' = [w EXCEPT !.rst = "lapsed", !.quote = FALSE]
    <3>1. PICK q \in BOOLEAN, r \in {w.rst, "lapsed"} : w' = [w EXCEPT !.rst = r, !.quote = q]
        BY <1>1, <2>4 DEF World
    <3>2. w' \in World /\ w'.owed = w.owed /\ w'.paid = w.paid
        BY <1>1, <3>1 DEF World
    <3>3. QED
        BY <1>2, <2>1, <3>2 DEF Outside
  <2>5. CASE \E r \in Reqs : w' = [w EXCEPT !.repl[r] = "closed"]
    <3>1. w' \in World /\ w'.owed = w.owed /\ w'.paid = w.paid
        BY <1>1, <2>5 DEF World
    <3>2. QED
        BY <1>2, <2>1, <3>1 DEF Outside
  <2>6. QED
      BY <1>4, <2>2, <2>3, <2>4, <2>5 DEF Server
<1>5. CASE Trade
  <2>1. w.cash - 1 \in 0..MaxCash /\ UNCHANGED <<seen, svars>>
      BY <1>1, <1>5, WorldFields DEF Trade
  <2>2. PICK c \in 0..MaxCash : c = w.cash - 1 /\ w' = [w EXCEPT !.cash = c]
      BY <1>5, <2>1 DEF Trade
  <2>3. w' \in World /\ w'.owed = w.owed /\ w'.paid = w.paid
      BY <1>1, <2>2 DEF World
  <2>4. QED
      BY <1>2, <2>1, <2>3 DEF Outside
<1>6. CASE Refinance
  <2>1. CASE UNCHANGED <<w, svars>> /\ (seen' = seen \/ seen' = w)
      BY <1>1, <1>2, <2>1 DEF Outside
  <2>2. CASE CarryRefinance /\ UNCHANGED <<seen, svars>>
    <3>1. CASE w.req < w.mkt.lenders /\ w' = [w EXCEPT !.req = @ + 1, !.rst = "open", !.quote = FALSE]
      <4>1. PICK r \in 0..MaxReq : r = w.req + 1
          BY <1>1, <3>1, WorldFields
      <4>2. w' = [w EXCEPT !.req = r, !.rst = "open", !.quote = FALSE]
          BY <3>1, <4>1
      <4>3. w' \in World /\ w'.owed = w.owed /\ w'.paid = w.paid
          BY <1>1, <4>2 DEF World
      <4>4. QED
          BY <1>2, <2>2, <4>3 DEF Outside
    <3>2. ASSUME w.cash + w.owed <= MaxCash, NEW k \in {"good", "odd"},
                 w' = [w EXCEPT !.rst = "funded", !.quote = FALSE, !.repl[w.req] = k, !.cash = @ + w.owed]
          PROVE  Outside
      <4>1. PICK c \in 0..MaxCash : c = w.cash + w.owed
          BY <1>1, <3>2
      <4>2. PICK l \in [Reqs -> {"none", "good", "odd", "closed"}] : l = [w.repl EXCEPT ![w.req] = k]
          BY <1>1 DEF World
      <4>3. w' = [w EXCEPT !.rst = "funded", !.quote = FALSE, !.repl = l, !.cash = c]
          BY <3>2, <4>1, <4>2
      <4>4. w' \in World /\ w'.owed = w.owed /\ w'.paid = w.paid
          BY <1>1, <4>3 DEF World
      <4>5. QED
          BY <1>2, <2>2, <4>4 DEF Outside
    <3>3. CASE w.cash >= w.owed /\ w' = Paid(w, w.owed)
      <4>1. w.owed \in 0..w.owed /\ w.owed <= w.cash
          BY <1>1, <3>3
      <4>2. w' \in World /\ w'.owed + w'.paid = Owed /\ w'.paid = w.paid + w.owed
          BY <1>1, <3>3, <4>1, PaidWorld DEF LoanWhole
      <4>3. QED
          BY <1>1, <2>2, <4>2 DEF Outside, LoanWhole
    <3>4. QED
        BY <2>2, <3>1, <3>2, <3>3 DEF CarryRefinance
  <2>3. QED
      BY <1>6, <2>1, <2>2 DEF Refinance
<1>7. QED
    BY <1>3, <1>4, <1>5, <1>6

LEMMA OutsideKeeps ==
    ASSUME LoanInv, Outside
    PROVE  LoanInv'
<1>1. ServiceTypeOK'
    BY DEF LoanInv, ServiceTypeOK, Outside, svars
<1>2. RowShaped' /\ MarkerHasMission'
    BY DEF LoanInv, RowShaped, MarkerHasMission, Outside, svars
<1>3. BooksInv'
    BY DEF LoanInv, BooksInv, BridgeOf, UnderWay, Closed, Booked, Outside, svars
<1>4. FreshInv'
  <2>1. Unseen' <=> Unseen
      BY DEF Unseen, Outside, svars
  <2>2. w.paid \in Nat /\ w'.paid \in Nat /\ prepaid.at \in Nat
      BY WorldFields DEF LoanInv, ServiceTypeOK, Outside
  <2>3. prepaid' = prepaid
      BY DEF Outside, svars
  <2>4. QED
      BY <2>1, <2>2, <2>3 DEF LoanInv, FreshInv, Outside
<1>5. QED
    BY <1>1, <1>2, <1>3, <1>4 DEF LoanInv, Outside

-----------------------------------------------------------------------------
(* The row and the progress of a due date *)

LEMMA RowFields ==
    ASSUME ServiceTypeOK, lm # None
    PROVE  /\ lm \in Mission /\ lm.act \in Act \cup {None} /\ lm.bridge \in Bridge \cup {None}
           /\ lm.rep \in Repay \cup {None}
           /\ lm.bridge # None => /\ lm.bridge \in Bridge /\ lm.bridge.due \in Dues /\ lm.bridge.need \in Nat
                                  /\ lm.bridge.before \in Nat /\ lm.bridge.fund \in Nat
           /\ lm.rep # None => lm.rep.amount \in 0..Owed /\ lm.rep.paid \in 0..Owed
           /\ \A a \in Act \cup {None} : [lm EXCEPT !.act = a] \in Mission
<1>1. lm \in Mission
    BY DEF ServiceTypeOK
<1>2. QED
    BY <1>1 DEF Mission, Bridge, Repay

LEMMA NewActType ==
    ASSUME NEW stage \in {"loan-accept", "loan-repay", "loan-request"}
    PROVE  NewAct(stage) \in Act /\ NewAct(stage) # None /\ NewAct(stage).st = "staged" /\ ~NewAct(stage).done
<1>1. NewAct(stage) \in Act
    BY DEF NewAct, Act
<1>2. QED
    BY <1>1 DEF NewAct

\* What is booked for a due date by its progress.
BookedOf(p) == IF p = None THEN 0 ELSE p.bridged

LEMMA EndedFacts ==
    ASSUME NEW p \in Progress \cup {None}
    PROVE  /\ Ended(p) \in Progress \cup {None} /\ BookedOf(Ended(p)) = BookedOf(p)
           /\ Ended(p) # None => p # None /\ Ended(p).need = p.need /\ ~Ended(p).pending
<1>1. CASE p = None
    BY <1>1 DEF Ended
<1>2. CASE p # None
  <2>1. p \in Progress
      BY <1>2
  <2>2. [p EXCEPT !.pending = FALSE] \in Progress
      BY <2>1 DEF Progress
  <2>3. [p EXCEPT !.pending = FALSE].pending = FALSE
      BY <2>1 DEF Progress
  <2>4. [p EXCEPT !.pending = FALSE].need = p.need /\ [p EXCEPT !.pending = FALSE].bridged = p.bridged
      BY <2>1 DEF Progress
  <2>5. (Ended(p) = None /\ p.bridged = 0) \/ Ended(p) = [p EXCEPT !.pending = FALSE]
      BY <1>2 DEF Ended
  <2>6. QED
      BY <1>2, <2>2, <2>3, <2>4, <2>5 DEF BookedOf
<1>3. QED
    BY <1>1, <1>2

LEMMA MarkedFacts ==
    ASSUME ServiceTypeOK, NEW b \in Bridge, NEW banned \in BOOLEAN
    PROVE  /\ Marked(b, banned) \in [Dues -> Progress \cup {None}]
           /\ \A d \in Dues : d # b.due => Marked(b, banned)[d] = dates[d]
           /\ Marked(b, banned)[b.due] # None
           /\ Marked(b, banned)[b.due].need = IF dates[b.due] = None THEN b.need ELSE dates[b.due].need
           /\ Marked(b, banned)[b.due].bridged = IF dates[b.due] = None THEN b.before ELSE dates[b.due].bridged
           /\ Marked(b, banned)[b.due].pending = ~banned
<1>1. b.due \in Dues /\ b.need \in Nat /\ b.before \in Nat /\ dates \in [Dues -> Progress \cup {None}]
    BY DEF Bridge, ServiceTypeOK
<1>2. DEFINE p == IF dates[b.due] = None
                  THEN [need |-> b.need, bridged |-> b.before, pending |-> FALSE, banned |-> FALSE]
                  ELSE dates[b.due]
             q == [p EXCEPT !.pending = ~banned, !.banned = @ \/ banned]
<1>3. p \in Progress
  <2>1. [need |-> b.need, bridged |-> b.before, pending |-> FALSE, banned |-> FALSE] \in Progress
      BY <1>1 DEF Progress
  <2>2. QED
      BY <1>1, <2>1
<1>4. /\ p.need = IF dates[b.due] = None THEN b.need ELSE dates[b.due].need
      /\ p.bridged = IF dates[b.due] = None THEN b.before ELSE dates[b.due].bridged
    OBVIOUS
<1>5. Marked(b, banned) = [dates EXCEPT ![b.due] = q]
    BY DEF Marked
<1>6. q \in Progress /\ q.need = p.need /\ q.bridged = p.bridged /\ q.pending = ~banned
  <2>1. PICK x \in BOOLEAN, y \in BOOLEAN : x = ~banned /\ y = (p.banned \/ banned)
      OBVIOUS
  <2>2. q = [p EXCEPT !.pending = x, !.banned = y]
      BY <2>1
  <2>3. q \in Progress /\ q.need = p.need /\ q.bridged = p.bridged /\ q.pending = x
      BY <1>3, <2>2 DEF Progress
  <2>4. QED
      BY <2>1, <2>3
<1>7. HIDE DEF p, q
<1>8. /\ [dates EXCEPT ![b.due] = q] \in [Dues -> Progress \cup {None}]
      /\ \A d \in Dues : d # b.due => [dates EXCEPT ![b.due] = q][d] = dates[d]
      /\ [dates EXCEPT ![b.due] = q][b.due] = q
    BY <1>1, <1>6
<1>9. q # None
    BY <1>6
<1>10. QED
    BY <1>4, <1>5, <1>6, <1>8, <1>9

LEMMA RecordFacts ==
    ASSUME ServiceTypeOK, NEW b \in Bridge
    PROVE  /\ RecordBridgeFunding(b) \in [Dues -> Progress \cup {None}]
           /\ \A d \in Dues : d # b.due => RecordBridgeFunding(b)[d] = dates[d]
           /\ RecordBridgeFunding(b)[b.due] # None
           /\ RecordBridgeFunding(b)[b.due].need = IF dates[b.due] = None THEN b.need ELSE dates[b.due].need
           /\ RecordBridgeFunding(b)[b.due].bridged =
                IF b.before + b.fund > BookedOf(dates[b.due]) THEN b.before + b.fund ELSE BookedOf(dates[b.due])
           /\ ~RecordBridgeFunding(b)[b.due].pending
<1>1. b.due \in Dues /\ b.need \in Nat /\ b.before \in Nat /\ b.fund \in Nat /\ dates \in [Dues -> Progress \cup {None}]
    BY DEF Bridge, ServiceTypeOK
<1>2. DEFINE p == IF dates[b.due] = None
                  THEN [need |-> b.need, bridged |-> 0, pending |-> FALSE, banned |-> FALSE]
                  ELSE dates[b.due]
             q == [p EXCEPT !.bridged = IF b.before + b.fund > @ THEN b.before + b.fund ELSE @, !.pending = FALSE]
<1>3. p \in Progress
  <2>1. [need |-> b.need, bridged |-> 0, pending |-> FALSE, banned |-> FALSE] \in Progress
      BY <1>1 DEF Progress
  <2>2. QED
      BY <1>1, <2>1
<1>4. p.need = (IF dates[b.due] = None THEN b.need ELSE dates[b.due].need) /\ p.bridged = BookedOf(dates[b.due])
    BY DEF BookedOf
<1>5. RecordBridgeFunding(b) = [dates EXCEPT ![b.due] = q]
    BY <1>1 DEF RecordBridgeFunding
<1>6. PICK n \in Nat : n = IF b.before + b.fund > p.bridged THEN b.before + b.fund ELSE p.bridged
    BY <1>1, <1>3 DEF Progress
<1>7. q \in Progress /\ q.need = p.need /\ q.bridged = n /\ q.pending = FALSE
  <2>1. q = [p EXCEPT !.bridged = n, !.pending = FALSE]
      BY <1>6
  <2>2. q \in Progress /\ q.need = p.need /\ q.bridged = n
      BY <1>3, <2>1 DEF Progress
  <2>3. q.pending = FALSE
      BY <1>3, <2>1 DEF Progress
  <2>4. QED
      BY <2>2, <2>3
<1>8. HIDE DEF p, q
<1>9. /\ [dates EXCEPT ![b.due] = q] \in [Dues -> Progress \cup {None}]
      /\ \A d \in Dues : d # b.due => [dates EXCEPT ![b.due] = q][d] = dates[d]
      /\ [dates EXCEPT ![b.due] = q][b.due] = q
    BY <1>1, <1>7
<1>10. q # None
    BY <1>7
<1>11. QED
    BY <1>4, <1>5, <1>6, <1>7, <1>9, <1>10


LEMMA MissionType ==
    ASSUME NEW p \in {"loan_bridge", "loan_repay", "loan_prepay", "loan_prepay_done", "done"},
           NEW b \in Bridge \cup {None}, NEW r \in Repay \cup {None}, NEW a \in Act \cup {None},
           NEW m, m = [phase |-> p, bridge |-> b, rep |-> r, act |-> a]
    PROVE  m \in Mission /\ m # None /\ m.phase = p /\ m.bridge = b /\ m.rep = r /\ m.act = a
<1>1. m \in Mission
    BY DEF Mission
<1>2. QED
    BY <1>1

-----------------------------------------------------------------------------
(* The books, when a step concerns one due date or none *)

LEMMA BooksQuiet ==
    ASSUME BooksInv, MarkerHasMission, UNCHANGED <<dates, funded>>,
           \A d \in Dues : ~BridgeOf(d) /\ ~BridgeOf(d)'
    PROVE  BooksInv' /\ MarkerHasMission'
<1>1. \A d \in Dues : Closed(d)'
    BY DEF BooksInv, Closed, Booked
<1>2. \A d \in Dues : ~(dates[d] # None /\ dates[d].pending)
    BY DEF MarkerHasMission, BridgeOf
<1>3. QED
    BY <1>1, <1>2 DEF BooksInv, MarkerHasMission

LEMMA BooksAt ==
    ASSUME BooksInv, MarkerHasMission, NEW e \in Dues,
           \A d \in Dues : d # e => dates'[d] = dates[d] /\ funded'[d] = funded[d] /\ ~BridgeOf(d) /\ ~BridgeOf(d)',
           BridgeOf(e)' => UnderWay(e, lm.bridge)',
           ~BridgeOf(e)' => Closed(e)',
           dates'[e] # None /\ dates'[e].pending => BridgeOf(e)'
    PROVE  BooksInv' /\ MarkerHasMission'
<1>1. ASSUME NEW d \in Dues, d # e
      PROVE  ~BridgeOf(d)' /\ Closed(d)' /\ ~(dates'[d] # None /\ dates'[d].pending)
  <2>1. ~BridgeOf(d) /\ dates'[d] = dates[d] /\ funded'[d] = funded[d]
      BY <1>1
  <2>2. Closed(d) /\ ~(dates[d] # None /\ dates[d].pending)
      BY <2>1 DEF BooksInv, MarkerHasMission, BridgeOf
  <2>3. QED
      BY <1>1, <2>1, <2>2 DEF Closed, Booked
<1>2. BooksInv'
    BY <1>1 DEF BooksInv
<1>3. MarkerHasMission'
    BY <1>1 DEF MarkerHasMission, BridgeOf
<1>4. QED
    BY <1>2, <1>3

-----------------------------------------------------------------------------
(* A pass stages a request *)

LEMMA RepayStarted ==
    ASSUME LoanInv, Idle, NEW p \in {"loan_repay", "loan_prepay"}, NEW n \in 0..Owed,
           lm' = [phase |-> p, bridge |-> None, act |-> NewAct("loan-repay"),
                  rep |-> [amount |-> n, paid |-> seen.paid]],
           UNCHANGED <<w, seen, dates, retry, funded, prepaid>>
    PROVE  LoanInv'
<1>1. seen \in World /\ seen.paid \in 0..Owed
    BY WorldFields DEF LoanInv, ServiceTypeOK, Idle
<1>2. [amount |-> n, paid |-> seen.paid] \in Repay
    BY <1>1 DEF Repay
<1>3. NewAct("loan-repay") \in Act /\ NewAct("loan-repay") # None /\ NewAct("loan-repay").st = "staged" /\ ~NewAct("loan-repay").done
    BY NewActType
<1>4. /\ lm' \in Mission /\ lm' # None /\ lm'.phase = p /\ lm'.bridge = None /\ lm'.rep # None
      /\ lm'.act = NewAct("loan-repay")
    BY <1>2, <1>3, MissionType
<1>5. ServiceTypeOK'
    BY <1>4 DEF LoanInv, ServiceTypeOK
<1>6. RowShaped'
    BY <1>3, <1>4 DEF RowShaped
<1>7. BooksInv' /\ MarkerHasMission'
    BY <1>4, BooksQuiet DEF LoanInv, Idle, BridgeOf
<1>8. FreshInv' /\ LoanWhole'
    BY DEF LoanInv, FreshInv, Unseen, Idle, LoanWhole
<1>9. QED
    BY <1>5, <1>6, <1>7, <1>8 DEF LoanInv

LEMMA RepayStartKeeps ==
    ASSUME LoanInv, ServiceArrears \/ PrepayLoans
    PROVE  LoanInv'
<1>1. Idle
    BY DEF ServiceArrears, PrepayLoans
<1>2. /\ seen.arrears \in 0..1 /\ seen.cash \in 0..MaxCash /\ seen.owed \in 0..Owed /\ Owed >= 1
    BY <1>1, WorldFields DEF LoanInv, ServiceTypeOK, Idle
<1>3. CASE ServiceArrears
  <2>1. seen.arrears \in 0..Owed
      BY <1>2
  <2>2. QED
      BY <1>1, <1>3, <2>1, RepayStarted DEF ServiceArrears
<1>4. CASE PrepayLoans
  <2>1. (IF seen.cash > seen.owed THEN 0 ELSE Surplus(seen)) \in 0..Owed
      BY <1>2 DEF Surplus
  <2>2. QED
      BY <1>1, <1>4, <2>1, RepayStarted DEF PrepayLoans
<1>5. QED
    BY <1>3, <1>4


LEMMA BridgeStarted ==
    ASSUME LoanInv, Idle, NEW whole \in BOOLEAN, NEW b \in Bridge,
           b.before = Booked(b.due), b.before + b.fund <= b.need + Rounding,
           dates[b.due] # None => dates[b.due].need = b.need,
           StageBridge(b, whole), UNCHANGED <<w, seen, funded, prepaid>>
    PROVE  LoanInv'
<1>1. b.due \in Dues /\ b.need \in Nat /\ b.before \in Nat /\ b.fund \in Nat
    BY DEF Bridge
<1>2. /\ NewAct("loan-accept") \in Act /\ NewAct("loan-accept") # None
      /\ NewAct("loan-accept").st = "staged" /\ ~NewAct("loan-accept").done
    BY NewActType
<1>3. /\ lm' \in Mission /\ lm' # None /\ lm'.phase = "loan_bridge" /\ lm'.bridge = b /\ lm'.bridge # None
      /\ lm'.act = NewAct("loan-accept")
    BY <1>2, MissionType DEF StageBridge
<1>4. /\ dates' \in [Dues -> Progress \cup {None}]
      /\ \A d \in Dues : d # b.due => dates'[d] = dates[d]
      /\ dates'[b.due] # None => dates'[b.due].need = b.need
      /\ Booked(b.due)' = b.before
  <2>1. CASE whole
    <3>1. dates' = Marked(b, FALSE) /\ ServiceTypeOK
        BY <2>1 DEF StageBridge, LoanInv
    <3>2. QED
        BY <3>1, MarkedFacts DEF Booked
  <2>2. CASE ~whole
    <3>1. dates' = dates
        BY <2>2 DEF StageBridge
    <3>2. QED
        BY <3>1 DEF Booked, LoanInv, ServiceTypeOK
  <2>3. QED
      BY <2>1, <2>2
<1>5. ServiceTypeOK'
    BY <1>3, <1>4 DEF LoanInv, ServiceTypeOK, StageBridge
<1>6. RowShaped'
    BY <1>2, <1>3 DEF RowShaped
<1>7. \A d \in Dues : ~BridgeOf(d) /\ (BridgeOf(d)' <=> d = b.due)
    BY <1>1, <1>3 DEF BridgeOf, Idle
<1>8. BooksInv' /\ MarkerHasMission'
  <2>1. funded[b.due] = Booked(b.due)
      BY <1>1, <1>7 DEF LoanInv, BooksInv, Closed
  <2>2. UnderWay(b.due, lm.bridge)'
      BY <1>1, <1>2, <1>3, <1>4, <2>1 DEF UnderWay
  <2>3. QED
      BY <1>1, <1>4, <1>7, <2>2, BooksAt DEF LoanInv
<1>9. FreshInv' /\ LoanWhole'
    BY <1>3 DEF LoanInv, FreshInv, Unseen, Idle, LoanWhole
<1>10. QED
    BY <1>5, <1>6, <1>8, <1>9 DEF LoanInv

\* The progress of a due date that no bridge is under way for: the invariant
\* holds of what replaces it, when it says the same of need and books and marks
\* nothing.
LEMMA DueSettled ==
    ASSUME LoanInv, lm' = None, NEW e \in Dues, \A d \in Dues : d # e => ~BridgeOf(d),
           dates' \in [Dues -> Progress \cup {None}], retry' \in SUBSET Dues,
           \A d \in Dues : d # e => dates'[d] = dates[d],
           Closed(e)', dates'[e] # None => ~dates'[e].pending,
           ~Unseen,
           UNCHANGED <<w, seen, funded, prepaid>>
    PROVE  LoanInv'
<1>1. ServiceTypeOK' /\ RowShaped'
    BY DEF LoanInv, ServiceTypeOK, RowShaped
<1>2. \A d \in Dues : ~BridgeOf(d)'
    BY DEF BridgeOf
<1>3. BooksInv' /\ MarkerHasMission'
    BY <1>2, BooksAt DEF LoanInv
<1>4. FreshInv' /\ LoanWhole'
    BY DEF LoanInv, FreshInv, Unseen, LoanWhole
<1>5. QED
    BY <1>1, <1>3, <1>4 DEF LoanInv

LEMMA ServiceInstallmentBridgeKeeps ==
    ASSUME LoanInv, NEW whole \in BOOLEAN, ServiceInstallmentBridge(whole)
    PROVE  LoanInv'
<1>1. Idle /\ ServiceTypeOK /\ lm = None /\ seen # None /\ UNCHANGED <<w, seen, funded, prepaid>>
    BY DEF ServiceInstallmentBridge, LoanInv, Idle
<1>2. seen.arrears \in 0..1 /\ Key(seen) \in Dues
    BY <1>1, WorldFields DEF ServiceTypeOK, Key
<1>3. PICK e \in Dues : e = Key(seen)
    BY <1>2
<1>4. \A d \in Dues : ~BridgeOf(d) /\ Closed(d)
    BY <1>1 DEF BridgeOf, LoanInv, BooksInv
<1>5. dates[e] \in Progress \cup {None}
    BY <1>1, <1>3 DEF ServiceTypeOK
<1>6. PICK n \in BridgeNeeds(seen) :
          LET need   == IF Attempted = None THEN n ELSE Attempted.need
              before == IF Attempted = None THEN 0 ELSE Attempted.bridged
              left   == IF n < need - before THEN n ELSE need - before
              b(f)   == [due |-> Key(seen), need |-> need, before |-> before, fund |-> f]
          IN  \/ /\ HullFree(seen)
                 /\ \E f \in 1..(left + Rounding) : StageBridge(b(f), whole)
              \/ /\ whole /\ HullFree(seen) /\ dates' = Marked(b(1), TRUE)
                 /\ retry' = retry \ {Key(seen)} /\ UNCHANGED lm
              \/ /\ whole /\ dates' = [dates EXCEPT ![Key(seen)] = Ended(@)]
                 /\ retry' = retry \cup {Key(seen)} /\ UNCHANGED lm
    BY DEF ServiceInstallmentBridge, Lent
<1>7. DEFINE need   == IF Attempted = None THEN n ELSE Attempted.need
             before == IF Attempted = None THEN 0 ELSE Attempted.bridged
             left   == IF n < need - before THEN n ELSE need - before
             b(f)   == [due |-> Key(seen), need |-> need, before |-> before, fund |-> f]
<1>8. Attempted # None => Attempted.bridged < Attempted.need
    BY DEF ServiceInstallmentBridge, Lent
<1>9. /\ n \in Nat /\ need \in Nat /\ before \in Nat /\ before <= need /\ left \in Nat /\ before + left <= need
      /\ before = Booked(e) /\ (dates[e] # None => dates[e].need = need)
  <2>1. n \in Nat
      BY <1>2, <1>6 DEF BridgeNeeds
  <2>2. Attempted = dates[e]
      BY <1>3 DEF Attempted
  <2>3. Attempted # None => Attempted.need \in Nat /\ Attempted.bridged \in Nat
      BY <1>5, <2>2 DEF Progress
  <2>4. need \in Nat /\ before \in Nat /\ before <= need
      BY <1>8, <2>1, <2>3
  <2>5. left \in Nat /\ before + left <= need
      BY <2>1, <2>4
  <2>6. QED
      BY <2>1, <2>2, <2>4, <2>5 DEF Booked
<1>10. HIDE DEF need, before, left
<1>11. \A f \in Nat : b(f) \in Bridge /\ b(f).due = e /\ b(f).need = need /\ b(f).before = before /\ b(f).fund = f
    BY <1>3, <1>9 DEF Bridge
<1>12. ASSUME NEW f \in 1..(left + Rounding), StageBridge(b(f), whole)
       PROVE  LoanInv'
  <2>1. f \in Nat /\ before + f <= need + Rounding
      BY <1>9
  <2>2. /\ b(f) \in Bridge /\ b(f).due = e /\ b(f).need = need /\ b(f).before = before /\ b(f).fund = f
      BY <1>11, <2>1
  <2>3. HIDE DEF b
  <2>4. QED
      BY <1>1, <1>9, <1>12, <2>1, <2>2, BridgeStarted
<1>13. ASSUME dates' = Marked(b(1), TRUE), retry' = retry \ {e}, lm' = lm
       PROVE  LoanInv'
  <2>1. b(1) \in Bridge /\ b(1).due = e /\ b(1).need = need /\ b(1).before = before
      BY <1>11
  <2>2. HIDE DEF b
  <2>3. /\ dates' \in [Dues -> Progress \cup {None}] /\ \A d \in Dues : d # e => dates'[d] = dates[d]
        /\ dates'[e] # None /\ ~dates'[e].pending
        /\ dates'[e].need = (IF dates[e] = None THEN need ELSE dates[e].need)
        /\ dates'[e].bridged = (IF dates[e] = None THEN before ELSE dates[e].bridged)
      BY <1>1, <1>13, <2>1, MarkedFacts
  <2>4. Closed(e)'
      BY <1>1, <1>3, <1>4, <1>9, <2>3 DEF Closed, Booked
  <2>5. retry' \in SUBSET Dues
      BY <1>1, <1>13 DEF ServiceTypeOK
  <2>6. QED
      BY <1>1, <1>3, <1>4, <1>13, <2>3, <2>4, <2>5, DueSettled DEF Unseen
<1>14. ASSUME dates' = [dates EXCEPT ![e] = Ended(@)], retry' = retry \cup {e}, lm' = lm
       PROVE  LoanInv'
  <2>1. /\ Ended(dates[e]) \in Progress \cup {None} /\ BookedOf(Ended(dates[e])) = BookedOf(dates[e])
        /\ Ended(dates[e]) # None => dates[e] # None /\ Ended(dates[e]).need = dates[e].need /\ ~Ended(dates[e]).pending
      BY <1>5, EndedFacts
  <2>2. /\ dates' \in [Dues -> Progress \cup {None}] /\ \A d \in Dues : d # e => dates'[d] = dates[d]
        /\ dates'[e] = Ended(dates[e])
      BY <1>1, <1>3, <1>14, <2>1 DEF ServiceTypeOK
  <2>3. Closed(e)'
      BY <1>1, <1>3, <1>4, <2>1, <2>2 DEF Closed, Booked, BookedOf
  <2>4. retry' \in SUBSET Dues
      BY <1>1, <1>3, <1>14 DEF ServiceTypeOK
  <2>5. QED
      BY <1>1, <1>3, <1>4, <1>14, <2>1, <2>2, <2>3, <2>4, DueSettled DEF Unseen
<1>15. QED
    BY <1>3, <1>6, <1>12, <1>13, <1>14 DEF need, before, left

-----------------------------------------------------------------------------
(* A row that stays on its bridge, or gives it up *)

LEMMA ActSt ==
    ASSUME ServiceTypeOK, lm # None, lm.act # None,
           NEW st \in {"staged", "pending", "receipt", "garbled", "refused", "banned", "throttled"},
           NEW m, m = [lm EXCEPT !.act.st = st]
    PROVE  /\ m \in Mission /\ m # None /\ m.phase = lm.phase /\ m.bridge = lm.bridge /\ m.rep = lm.rep
           /\ m.act # None /\ m.act.st = st /\ m.act.done = lm.act.done
<1>1. lm \in Mission /\ lm.act \in Act
    BY RowFields
<1>2. PICK a \in Act : a = [lm.act EXCEPT !.st = st] /\ a.st = st /\ a.done = lm.act.done
  <2>2. [lm.act EXCEPT !.st = st] \in Act
      BY <1>1 DEF Act
  <2>3. [lm.act EXCEPT !.st = st].st = st
      BY <1>1 DEF Act
  <2>4. [lm.act EXCEPT !.st = st].done = lm.act.done
      BY <1>1 DEF Act
  <2>5. QED
      BY <2>2, <2>3, <2>4
<1>3. m = [lm EXCEPT !.act = a]
    BY <1>1, <1>2 DEF Mission
<1>4. m \in Mission /\ m.phase = lm.phase /\ m.bridge = lm.bridge /\ m.rep = lm.rep /\ m.act = a
    BY <1>1, <1>3 DEF Mission
<1>5. QED
    BY <1>2, <1>4

LEMMA BooksOfRow ==
    ASSUME LoanInv, lm # None, NEW b \in Bridge, lm.bridge = b,
           \A d \in Dues : d # b.due => dates'[d] = dates[d] /\ funded'[d] = funded[d],
           lm' # None => lm'.bridge = b /\ UnderWay(b.due, b)',
           lm' = None => Closed(b.due)' /\ (dates'[b.due] # None => ~dates'[b.due].pending)
    PROVE  BooksInv' /\ MarkerHasMission'
<1>1. b.due \in Dues /\ b # None
    BY DEF Bridge
<1>2. PICK e \in Dues : e = b.due
    BY <1>1
<1>3. \A d \in Dues : d # e => ~BridgeOf(d) /\ ~BridgeOf(d)'
    BY <1>2 DEF BridgeOf
<1>4. BridgeOf(e)' <=> lm' # None
    BY <1>1, <1>2 DEF BridgeOf
<1>5. BridgeOf(e)' => UnderWay(e, lm.bridge)'
    BY <1>2, <1>4 DEF UnderWay
<1>6. QED
    BY <1>2, <1>3, <1>4, <1>5, BooksAt DEF LoanInv

LEMMA BooksNoBridge ==
    ASSUME LoanInv, lm # None, lm.bridge = None, lm' # None => lm'.bridge = None, UNCHANGED <<dates, funded>>
    PROVE  BooksInv' /\ MarkerHasMission'
BY BooksQuiet DEF LoanInv, BridgeOf

LEMMA SendLoanKeeps ==
    ASSUME LoanInv, NEW whole \in BOOLEAN, SendLoan(whole)
    PROVE  LoanInv'
<1>1. /\ lm # None /\ lm.act # None /\ lm.act.st = "staged" /\ ServiceTypeOK /\ ~lm.act.done
      /\ UNCHANGED <<w, seen, funded, prepaid>>
    BY DEF SendLoan, LoanInv, RowShaped
<1>2. /\ lm' \in Mission /\ lm' # None /\ lm'.phase = lm.phase /\ lm'.bridge = lm.bridge /\ lm'.rep = lm.rep
      /\ lm'.act # None /\ lm'.act.st \in {"staged", "pending"} /\ ~lm'.act.done
    BY <1>1, RowFields, ActSt DEF SendLoan
<1>3. RowShaped' /\ (Unseen' <=> Unseen)
    BY <1>1, <1>2 DEF LoanInv, RowShaped, Unseen
<1>4. CASE lm.bridge = None
  <2>1. UNCHANGED <<dates, retry>>
      BY <1>4 DEF SendLoan
  <2>2. BooksInv' /\ MarkerHasMission'
      BY <1>1, <1>2, <1>4, <2>1, BooksNoBridge
  <2>3. QED
      BY <1>1, <1>2, <1>3, <2>1, <2>2 DEF LoanInv, ServiceTypeOK, LoanWhole, FreshInv
<1>5. CASE lm.bridge # None
  <2>1. PICK b \in Bridge : b = lm.bridge
      BY <1>1, <1>5, RowFields
  <2>2. b.due \in Dues /\ b.need \in Nat /\ b.before \in Nat /\ b.fund \in Nat /\ b # None
      BY DEF Bridge
  <2>3. UnderWay(b.due, b)
      BY <1>1, <2>1, <2>2 DEF LoanInv, BooksInv, BridgeOf
  <2>4. /\ dates' \in [Dues -> Progress \cup {None}] /\ retry' \in SUBSET Dues
        /\ \A d \in Dues : d # b.due => dates'[d] = dates[d]
        /\ dates'[b.due] # None /\ Booked(b.due)' = b.before /\ dates'[b.due].need = b.need
    <3>1. CASE dates[b.due] = None
      <4>1. dates' = Marked(b, FALSE) /\ retry' = retry \ {b.due}
          BY <2>1, <2>2, <3>1 DEF SendLoan
      <4>2. QED
          BY <1>1, <3>1, <4>1, MarkedFacts DEF Booked, ServiceTypeOK
    <3>2. CASE dates[b.due] # None
      <4>1. UNCHANGED <<dates, retry>>
          BY <2>1, <3>2 DEF SendLoan
      <4>2. QED
          BY <1>1, <2>3, <3>2, <4>1 DEF UnderWay, Booked, ServiceTypeOK
    <3>3. QED
        BY <3>1, <3>2
  <2>5. UnderWay(b.due, b)'
      BY <1>1, <1>2, <2>3, <2>4 DEF UnderWay
  <2>6. BooksInv' /\ MarkerHasMission'
      BY <1>1, <1>2, <2>1, <2>4, <2>5, BooksOfRow
  <2>7. QED
      BY <1>1, <1>2, <1>3, <2>4, <2>6 DEF LoanInv, ServiceTypeOK, LoanWhole, FreshInv
<1>6. QED
    BY <1>4, <1>5


LEMMA ActNone ==
    ASSUME ServiceTypeOK, lm # None, NEW m, m = [lm EXCEPT !.act = None]
    PROVE  m \in Mission /\ m # None /\ m.phase = lm.phase /\ m.bridge = lm.bridge /\ m.rep = lm.rep /\ m.act = None
<1>1. lm \in Mission
    BY RowFields
<1>2. m \in Mission /\ m.phase = lm.phase /\ m.bridge = lm.bridge /\ m.rep = lm.rep /\ m.act = None
    BY <1>1 DEF Mission
<1>3. QED
    BY <1>2

LEMMA ActNonePhase ==
    ASSUME ServiceTypeOK, lm # None, NEW p \in {"loan_prepay_done", "done"},
           NEW m, m = [lm EXCEPT !.act = None, !.phase = p]
    PROVE  m \in Mission /\ m # None /\ m.phase = p /\ m.bridge = lm.bridge /\ m.rep = lm.rep /\ m.act = None
<1>1. lm \in Mission
    BY RowFields
<1>2. m \in Mission /\ m.phase = p /\ m.bridge = lm.bridge /\ m.rep = lm.rep /\ m.act = None
    BY <1>1 DEF Mission
<1>3. QED
    BY <1>2

\* The progress of a bridge's due date is settled as of a bridge without funds.
LEMMA EndedDates ==
    ASSUME ServiceTypeOK, NEW e \in Dues, dates' = [dates EXCEPT ![e] = Ended(@)]
    PROVE  /\ dates' \in [Dues -> Progress \cup {None}]
           /\ \A d \in Dues : d # e => dates'[d] = dates[d]
           /\ Booked(e)' = Booked(e)
           /\ dates'[e] # None => dates[e] # None /\ dates'[e].need = dates[e].need /\ ~dates'[e].pending
<1>1. dates[e] \in Progress \cup {None} /\ dates \in [Dues -> Progress \cup {None}]
    BY DEF ServiceTypeOK
<1>2. /\ Ended(dates[e]) \in Progress \cup {None} /\ BookedOf(Ended(dates[e])) = BookedOf(dates[e])
      /\ Ended(dates[e]) # None => dates[e] # None /\ Ended(dates[e]).need = dates[e].need /\ ~Ended(dates[e]).pending
    BY <1>1, EndedFacts
<1>3. /\ dates' \in [Dues -> Progress \cup {None}] /\ \A d \in Dues : d # e => dates'[d] = dates[d]
      /\ dates'[e] = Ended(dates[e])
    BY <1>1, <1>2
<1>4. QED
    BY <1>2, <1>3 DEF Booked, BookedOf

LEMMA VetoLoanKeeps ==
    ASSUME LoanInv, NEW whole \in BOOLEAN, VetoLoan(whole)
    PROVE  LoanInv'
<1>1. /\ lm # None /\ lm.act # None /\ lm.act.st = "staged" /\ ServiceTypeOK /\ ~lm.act.done
      /\ UNCHANGED <<w, seen, retry, funded, prepaid>> /\ lm.phase # "loan_prepay_done"
    BY DEF VetoLoan, LoanInv, RowShaped
<1>2. /\ lm' \in Mission /\ lm' # None /\ lm'.phase = lm.phase /\ lm'.bridge = lm.bridge /\ lm'.rep = lm.rep
      /\ lm'.act = None \/ lm'.act = lm.act
    BY <1>1, RowFields, ActNone DEF VetoLoan
<1>3. RowShaped' /\ ~Unseen
    BY <1>1, <1>2 DEF LoanInv, RowShaped, Unseen
<1>4. FreshInv'
    BY <1>1, <1>3 DEF LoanInv, FreshInv
<1>5. CASE lm.bridge = None
  <2>1. UNCHANGED dates
      BY <1>5 DEF VetoLoan
  <2>2. BooksInv' /\ MarkerHasMission'
      BY <1>1, <1>2, <1>5, <2>1, BooksNoBridge
  <2>3. QED
      BY <1>1, <1>2, <1>3, <1>4, <2>1, <2>2 DEF LoanInv, ServiceTypeOK, LoanWhole
<1>6. CASE lm.bridge # None
  <2>1. PICK b \in Bridge : b = lm.bridge
      BY <1>1, <1>6, RowFields
  <2>2. b.due \in Dues /\ b.need \in Nat /\ b.before \in Nat /\ b.fund \in Nat /\ b # None
      BY DEF Bridge
  <2>3. UnderWay(b.due, b)
      BY <1>1, <2>1, <2>2 DEF LoanInv, BooksInv, BridgeOf
  <2>4. dates' = [dates EXCEPT ![b.due] = Ended(@)]
      BY <2>1, <2>2 DEF VetoLoan
  <2>5. /\ dates' \in [Dues -> Progress \cup {None}] /\ \A d \in Dues : d # b.due => dates'[d] = dates[d]
        /\ Booked(b.due)' = Booked(b.due) /\ (dates'[b.due] # None => dates'[b.due].need = b.need)
      BY <1>1, <2>2, <2>3, <2>4, EndedDates DEF UnderWay
  <2>6. UnderWay(b.due, b)'
      BY <1>1, <1>2, <2>2, <2>3, <2>5 DEF UnderWay
  <2>7. BooksInv' /\ MarkerHasMission'
      BY <1>1, <1>2, <2>1, <2>5, <2>6, BooksOfRow
  <2>8. QED
      BY <1>1, <1>2, <1>3, <1>4, <2>5, <2>7 DEF LoanInv, ServiceTypeOK, LoanWhole
<1>7. QED
    BY <1>5, <1>6

LEMMA ResultLoanKeeps ==
    ASSUME LoanInv, NEW whole \in BOOLEAN, ResultLoan(whole)
    PROVE  LoanInv'
<1>1. /\ lm # None /\ lm.act # None /\ ServiceTypeOK /\ lm.phase # "loan_prepay_done"
      /\ UNCHANGED <<w, seen, retry, funded>>
    BY DEF ResultLoan, LoanInv, RowShaped
<1>2. lm.bridge # None => lm.act.done
    BY <1>1 DEF ResultLoan, LoanEvidence, LoanInv, RowShaped
<1>3. /\ lm' \in Mission /\ lm' # None /\ lm'.bridge = lm.bridge /\ lm'.rep = lm.rep
      /\ \/ lm' = lm
         \/ lm'.act = None /\ lm'.phase = "loan_prepay_done" /\ lm.phase = "loan_prepay"
         \/ lm'.act = None /\ lm'.phase = "done" /\ lm.phase # "loan_prepay"
  <2>1. CASE ~whole
      BY <1>1, <2>1, RowFields DEF ResultLoan
  <2>2. CASE whole /\ lm.phase = "loan_prepay"
    <3>1. lm' = [lm EXCEPT !.act = None, !.phase = "loan_prepay_done"]
        BY <2>2 DEF ResultLoan
    <3>2. QED
        BY <1>1, <2>2, <3>1, ActNonePhase
  <2>3. CASE whole /\ lm.phase # "loan_prepay"
    <3>1. lm' = [lm EXCEPT !.act = None, !.phase = "done"]
        BY <2>3 DEF ResultLoan
    <3>2. QED
        BY <1>1, <2>3, <3>1, ActNonePhase
  <2>4. QED
      BY <2>1, <2>2, <2>3
<1>4. RowShaped'
    BY <1>1, <1>3 DEF LoanInv, RowShaped
<1>5. prepaid' \in [done : Nat, believed : Nat, at : Nat] /\ prepaid'.at = prepaid.at
  <2>1. PICK n \in Nat : n = IF whole /\ lm.phase = "loan_prepay" THEN prepaid.believed + 1 ELSE prepaid.believed
      BY <1>1 DEF ServiceTypeOK
  <2>2. prepaid' = [prepaid EXCEPT !.believed = n]
      BY <2>1 DEF ResultLoan
  <2>3. QED
      BY <1>1, <2>2 DEF ServiceTypeOK
<1>6. FreshInv'
  <2>1. Unseen => Unseen'
      BY <1>1, <1>3 DEF Unseen
  <2>2. QED
      BY <1>1, <1>5, <2>1 DEF LoanInv, FreshInv
<1>7. CASE lm.bridge = None
  <2>1. UNCHANGED dates
      BY <1>7 DEF ResultLoan
  <2>2. BooksInv' /\ MarkerHasMission'
      BY <1>1, <1>3, <1>7, <2>1, BooksNoBridge
  <2>3. QED
      BY <1>1, <1>3, <1>4, <1>5, <1>6, <2>1, <2>2 DEF LoanInv, ServiceTypeOK, LoanWhole
<1>8. CASE lm.bridge # None
  <2>1. PICK b \in Bridge : b = lm.bridge
      BY <1>1, <1>8, RowFields
  <2>2. b.due \in Dues /\ b.need \in Nat /\ b.before \in Nat /\ b.fund \in Nat /\ b # None
      BY DEF Bridge
  <2>3. UnderWay(b.due, b)
      BY <1>1, <2>1, <2>2 DEF LoanInv, BooksInv, BridgeOf
  <2>4. /\ funded[b.due] = b.before + b.fund /\ BookedOf(dates[b.due]) \in {b.before, b.before + b.fund}
        /\ dates[b.due] # None => dates[b.due].need = b.need
        /\ b.before + b.fund <= b.need + Rounding
      BY <1>1, <1>2, <1>8, <2>3 DEF UnderWay, Booked, BookedOf
  <2>5. dates' = RecordBridgeFunding(b)
      BY <2>1, <2>2 DEF ResultLoan
  <2>6. /\ dates' \in [Dues -> Progress \cup {None}] /\ \A d \in Dues : d # b.due => dates'[d] = dates[d]
        /\ dates'[b.due] # None /\ dates'[b.due].need = b.need /\ dates'[b.due].bridged = b.before + b.fund
      BY <1>1, <2>2, <2>4, <2>5, RecordFacts
  <2>7. UnderWay(b.due, b)'
      BY <1>1, <1>2, <1>3, <1>8, <2>2, <2>4, <2>6 DEF UnderWay, Booked
  <2>8. BooksInv' /\ MarkerHasMission'
      BY <1>1, <1>3, <2>1, <2>6, <2>7, BooksOfRow
  <2>9. QED
      BY <1>1, <1>3, <1>4, <1>5, <1>6, <2>6, <2>8 DEF LoanInv, ServiceTypeOK, LoanWhole
<1>9. QED
    BY <1>7, <1>8


LEMMA RejectLoanKeeps ==
    ASSUME LoanInv, NEW whole \in BOOLEAN, RejectLoan(whole)
    PROVE  LoanInv'
<1>1. /\ lm # None /\ lm.act # None /\ ServiceTypeOK /\ ~lm.act.done /\ lm.phase # "loan_prepay_done"
      /\ UNCHANGED <<w, seen, funded, prepaid>> /\ ~Unseen
    BY DEF RejectLoan, LoanInv, RowShaped, Unseen
<1>2. FreshInv' /\ LoanWhole'
    BY <1>1 DEF LoanInv, FreshInv, LoanWhole
<1>3. CASE lm.bridge = None
  <2>1. UNCHANGED <<dates, retry>>
      BY <1>3 DEF RejectLoan
  <2>2. /\ lm' \in Mission /\ lm' # None /\ lm'.bridge = lm.bridge /\ lm'.rep = lm.rep /\ lm'.act = None
        /\ lm'.phase # "loan_prepay_done"
    <3>1. CASE lm.act.st = "throttled"
      <4>1. lm' = [lm EXCEPT !.act = None, !.phase = lm.phase] /\ lm \in Mission
          BY <1>1, <1>3, <3>1, RowFields DEF RejectLoan
      <4>2. lm' = [lm EXCEPT !.act = None]
          BY <4>1 DEF Mission
      <4>3. QED
          BY <1>1, <4>2, ActNone
    <3>2. CASE lm.act.st # "throttled"
      <4>1. lm' = [lm EXCEPT !.act = None, !.phase = "done"]
          BY <1>3, <3>2 DEF RejectLoan
      <4>2. QED
          BY <1>1, <4>1, ActNonePhase
    <3>3. QED
        BY <3>1, <3>2
  <2>3. BooksInv' /\ MarkerHasMission'
      BY <1>1, <1>3, <2>1, <2>2, BooksNoBridge
  <2>4. QED
      BY <1>1, <1>2, <2>1, <2>2, <2>3 DEF LoanInv, ServiceTypeOK, RowShaped
<1>4. CASE lm.bridge # None
  <2>1. PICK b \in Bridge : b = lm.bridge
      BY <1>1, <1>4, RowFields
  <2>2. b.due \in Dues /\ b.need \in Nat /\ b.before \in Nat /\ b.fund \in Nat /\ b # None
      BY DEF Bridge
  <2>3. UnderWay(b.due, b)
      BY <1>1, <2>1, <2>2 DEF LoanInv, BooksInv, BridgeOf
  <2>4. /\ dates' \in [Dues -> Progress \cup {None}] /\ retry' \in SUBSET Dues
        /\ \A d \in Dues : d # b.due => dates'[d] = dates[d]
        /\ Booked(b.due)' = b.before
        /\ dates'[b.due] # None => dates'[b.due].need = b.need /\ ~dates'[b.due].pending
    <3>1. CASE lm.act.st = "banned"
      <4>1. dates' = Marked(b, TRUE) /\ retry' = retry \ {b.due}
          BY <1>4, <2>1, <3>1 DEF RejectLoan
      <4>2. QED
          BY <1>1, <2>3, <4>1, MarkedFacts DEF Booked, UnderWay, ServiceTypeOK
    <3>2. CASE lm.act.st # "banned"
      <4>1. dates' = [dates EXCEPT ![b.due] = Ended(@)] /\ retry' = retry \cup {b.due}
          BY <1>4, <2>1, <3>2 DEF RejectLoan
      <4>2. QED
          BY <1>1, <2>2, <2>3, <4>1, EndedDates DEF UnderWay, ServiceTypeOK
    <3>3. QED
        BY <3>1, <3>2
  <2>5. lm' = None \/ lm' = lm
      BY <1>4 DEF RejectLoan
  <2>6. UnderWay(b.due, b)' \/ lm' = None
      BY <1>1, <2>3, <2>4, <2>5 DEF UnderWay
  <2>7. Closed(b.due)'
      BY <1>1, <2>2, <2>3, <2>4 DEF UnderWay, Closed
  <2>8. BooksInv' /\ MarkerHasMission'
      BY <1>1, <2>1, <2>4, <2>5, <2>6, <2>7, BooksOfRow
  <2>9. QED
      BY <1>1, <1>2, <2>4, <2>5, <2>8 DEF LoanInv, ServiceTypeOK, RowShaped
<1>5. QED
    BY <1>3, <1>4

LEMMA ReleaseLoanKeeps ==
    ASSUME LoanInv, NEW whole \in BOOLEAN, ReleaseLoan(whole)
    PROVE  LoanInv'
<1>1. /\ lm # None /\ lm.act = None /\ ServiceTypeOK /\ UNCHANGED <<w, retry, funded, prepaid>>
      /\ lm' = None \/ lm' = lm
      /\ (seen' = w /\ lm.phase = "loan_prepay_done") \/ (seen' = seen /\ lm.phase # "loan_prepay_done")
    BY DEF ReleaseLoan, LoanInv
<1>2. FreshInv' /\ LoanWhole' /\ RowShaped'
    BY <1>1 DEF LoanInv, FreshInv, Unseen, LoanWhole, RowShaped
<1>3. CASE lm.bridge = None
  <2>1. UNCHANGED dates
      BY <1>3 DEF ReleaseLoan
  <2>2. BooksInv' /\ MarkerHasMission'
      BY <1>1, <1>3, <2>1, BooksNoBridge
  <2>3. QED
      BY <1>1, <1>2, <2>1, <2>2 DEF LoanInv, ServiceTypeOK
<1>4. CASE lm.bridge # None
  <2>1. PICK b \in Bridge : b = lm.bridge
      BY <1>1, <1>4, RowFields
  <2>2. b.due \in Dues /\ b.need \in Nat /\ b.before \in Nat /\ b.fund \in Nat /\ b # None
      BY DEF Bridge
  <2>3. UnderWay(b.due, b)
      BY <1>1, <2>1, <2>2 DEF LoanInv, BooksInv, BridgeOf
  <2>4. dates' = [dates EXCEPT ![b.due] = Ended(@)]
      BY <1>4, <2>1 DEF ReleaseLoan
  <2>5. /\ dates' \in [Dues -> Progress \cup {None}] /\ \A d \in Dues : d # b.due => dates'[d] = dates[d]
        /\ Booked(b.due)' = Booked(b.due)
        /\ (dates'[b.due] # None => dates'[b.due].need = b.need /\ ~dates'[b.due].pending)
      BY <1>1, <2>2, <2>3, <2>4, EndedDates DEF UnderWay
  <2>6. UnderWay(b.due, b)' \/ lm' = None
      BY <1>1, <2>2, <2>3, <2>5 DEF UnderWay
  <2>7. Closed(b.due)'
      BY <1>1, <2>2, <2>3, <2>5 DEF UnderWay, Closed
  <2>8. BooksInv' /\ MarkerHasMission'
      BY <1>1, <2>1, <2>5, <2>6, <2>7, BooksOfRow
  <2>9. QED
      BY <1>1, <1>2, <2>5, <2>8 DEF LoanInv, ServiceTypeOK
<1>5. QED
    BY <1>3, <1>4

-----------------------------------------------------------------------------
(* The server carries a request out, and answers *)

LEMMA CarryLoanKeeps ==
    ASSUME LoanInv, CarryLoan
    PROVE  LoanInv'
<1>1. /\ lm # None /\ lm.act # None /\ lm.act.st = "pending" /\ ~lm.act.done
      /\ ServiceTypeOK /\ w \in World /\ UNCHANGED <<seen, dates, retry>> /\ lm.phase # "loan_prepay_done"
      /\ lm' = [lm EXCEPT !.act.done = TRUE] /\ prepaid.at \in Nat
    BY DEF CarryLoan, LoanInv, RowShaped, ServiceTypeOK
<1>2. lm \in Mission /\ lm.act \in Act
    BY <1>1, RowFields
<1>3. PICK a \in Act : lm' = [lm EXCEPT !.act = a] /\ a # None /\ a.st = "pending" /\ a.done
  <2>1. PICK t \in BOOLEAN : t
      OBVIOUS
  <2>2. PICK a \in Act : a = [lm.act EXCEPT !.done = t]
      BY <1>2 DEF Act
  <2>3. a.st = "pending" /\ a # None
      BY <1>1, <1>2, <2>2 DEF Act
  <2>4. a.done = t
      BY <1>2, <2>2 DEF Act
  <2>5. t = TRUE
      BY <2>1
  <2>6. lm' = [lm EXCEPT !.act = a]
      BY <1>1, <1>2, <2>2, <2>5 DEF Mission
  <2>7. QED
      BY <2>1, <2>3, <2>4, <2>6
<1>4. /\ lm' \in Mission /\ lm' # None /\ lm'.phase = lm.phase /\ lm'.bridge = lm.bridge /\ lm'.rep = lm.rep /\ lm'.act = a
  <2>1. lm' \in Mission /\ lm'.phase = lm.phase /\ lm'.bridge = lm.bridge /\ lm'.rep = lm.rep /\ lm'.act = a
      BY <1>2, <1>3 DEF Mission
  <2>2. QED
      BY <2>1
<1>5. RowShaped'
    BY <1>1, <1>3, <1>4 DEF LoanInv, RowShaped
<1>6. CASE lm.bridge # None
  <2>1. PICK b \in Bridge : b = lm.bridge
      BY <1>1, <1>6, RowFields
  <2>2. b.due \in Dues /\ b.need \in Nat /\ b.before \in Nat /\ b.fund \in Nat /\ b # None
      BY DEF Bridge
  <2>3. /\ w.cash + b.fund <= MaxCash /\ w' = [w EXCEPT !.cash = @ + b.fund, !.liens = @ + 1]
        /\ funded' = [funded EXCEPT ![b.due] = @ + b.fund] /\ UNCHANGED prepaid
      BY <1>6, <2>1 DEF CarryLoan
  <2>4. w' \in World /\ w'.owed = w.owed /\ w'.paid = w.paid
    <3>1. PICK c \in 0..MaxCash, l \in Nat : c = w.cash + b.fund /\ l = w.liens + 1
        BY <1>1, <2>2, <2>3, WorldFields
    <3>2. w' = [w EXCEPT !.cash = c, !.liens = l]
        BY <2>3, <3>1
    <3>3. QED
        BY <1>1, <3>2 DEF World
  <2>5. UnderWay(b.due, b)
      BY <1>1, <2>1, <2>2 DEF LoanInv, BooksInv, BridgeOf
  <2>6. /\ funded' \in [Dues -> Nat] /\ funded'[b.due] = b.before + b.fund
        /\ \A d \in Dues : d # b.due => funded'[d] = funded[d]
    <3>1. funded \in [Dues -> Nat] /\ funded[b.due] = b.before
        BY <1>1, <2>5 DEF ServiceTypeOK, UnderWay
    <3>2. PICK f \in Nat : f = b.before + b.fund
        BY <2>2
    <3>3. funded' = [funded EXCEPT ![b.due] = f]
        BY <2>3, <3>1, <3>2
    <3>4. QED
        BY <2>2, <3>1, <3>2, <3>3
  <2>7. UnderWay(b.due, b)'
      BY <1>1, <1>3, <1>4, <2>2, <2>5, <2>6 DEF UnderWay, Booked
  <2>8. BooksInv' /\ MarkerHasMission'
      BY <1>1, <1>4, <2>1, <2>6, <2>7, BooksOfRow
  <2>9. FreshInv'
      BY <1>1, <1>4, <2>3, <2>4 DEF LoanInv, FreshInv, Unseen
  <2>10. QED
      BY <1>1, <1>4, <1>5, <2>3, <2>4, <2>6, <2>8, <2>9 DEF LoanInv, ServiceTypeOK, LoanWhole
<1>7. CASE lm.bridge = None
  <2>1. lm.rep # None /\ lm.rep.amount \in 0..Owed
      BY <1>1, <1>7, RowFields DEF LoanInv, RowShaped
  <2>2. /\ LoanAmount <= w.owed /\ LoanAmount <= w.cash /\ w' = Paid(w, LoanAmount) /\ UNCHANGED funded
        /\ prepaid' = IF lm.phase # "loan_prepay" THEN prepaid
                      ELSE [prepaid EXCEPT !.done = @ + 1, !.at = w.paid + LoanAmount]
      BY <1>7 DEF CarryLoan
  <2>3. w.owed \in Nat /\ w.paid \in Nat /\ w.cash \in Nat
      BY <1>1, WorldFields
  <2>4. PICK n \in 0..w.owed : n = LoanAmount
      BY <2>1, <2>2, <2>3 DEF LoanAmount
  <2>5. w' \in World /\ w'.owed + w'.paid = Owed /\ w'.paid = w.paid + n
      BY <1>1, <2>2, <2>4, PaidWorld DEF LoanInv, LoanWhole
  <2>6. BooksInv' /\ MarkerHasMission'
      BY <1>1, <1>4, <1>7, <2>2, BooksNoBridge
  <2>7. CASE lm.phase # "loan_prepay"
    <3>1. prepaid' = prepaid /\ ~Unseen /\ ~Unseen'
        BY <1>1, <1>4, <2>2, <2>7 DEF Unseen
    <3>2. FreshInv'
        BY <1>1, <2>3, <2>5, <3>1 DEF LoanInv, FreshInv
    <3>3. QED
        BY <1>1, <1>4, <1>5, <2>2, <2>5, <2>6, <3>1, <3>2 DEF LoanInv, ServiceTypeOK, LoanWhole
  <2>8. CASE lm.phase = "loan_prepay"
    <3>1. PICK t \in Nat, k \in Nat : t = w.paid + n /\ k = prepaid.done + 1
        BY <1>1, <2>3 DEF ServiceTypeOK
    <3>2. prepaid' = [prepaid EXCEPT !.done = k, !.at = t]
        BY <2>2, <2>4, <2>8, <3>1
    <3>3. prepaid' \in [done : Nat, believed : Nat, at : Nat] /\ prepaid'.at = t
        BY <1>1, <3>2 DEF ServiceTypeOK
    <3>4. Unseen'
        BY <1>3, <1>4, <2>8 DEF Unseen
    <3>5. FreshInv'
        BY <2>5, <3>1, <3>3, <3>4, WorldFields DEF FreshInv
    <3>6. QED
        BY <1>1, <1>4, <1>5, <2>2, <2>5, <2>6, <3>3, <3>5 DEF LoanInv, ServiceTypeOK, LoanWhole
  <2>9. QED
      BY <2>7, <2>8
<1>8. QED
    BY <1>6, <1>7

LEMMA AnswerLoanKeeps ==
    ASSUME LoanInv, AnswerLoan
    PROVE  LoanInv'
<1>1. /\ lm # None /\ lm.act # None /\ lm.act.st = "pending" /\ ServiceTypeOK
      /\ UNCHANGED <<w, seen, dates, retry, funded, prepaid>> /\ lm.phase # "loan_prepay_done"
    BY DEF AnswerLoan, LoanInv, RowShaped
<1>2. PICK st \in {"receipt", "garbled", "refused", "throttled", "banned"} :
         /\ lm' = [lm EXCEPT !.act.st = st]
         /\ lm.act.done <=> st \in {"receipt", "garbled"}
    BY DEF AnswerLoan
<1>3. /\ lm' \in Mission /\ lm' # None /\ lm'.phase = lm.phase /\ lm'.bridge = lm.bridge /\ lm'.rep = lm.rep
      /\ lm'.act # None /\ lm'.act.st = st /\ lm'.act.done = lm.act.done
    BY <1>1, <1>2, ActSt
<1>4. RowShaped' /\ FreshInv' /\ ServiceTypeOK' /\ LoanWhole'
    BY <1>1, <1>2, <1>3 DEF LoanInv, RowShaped, FreshInv, Unseen, ServiceTypeOK, LoanWhole
<1>5. CASE lm.bridge = None
    BY <1>1, <1>3, <1>4, <1>5, BooksNoBridge DEF LoanInv
<1>6. CASE lm.bridge # None
  <2>1. PICK b \in Bridge : b = lm.bridge
      BY <1>1, <1>6, RowFields
  <2>2. b.due \in Dues /\ b # None
      BY DEF Bridge
  <2>3. UnderWay(b.due, b)
      BY <1>1, <2>1, <2>2 DEF LoanInv, BooksInv, BridgeOf
  <2>4. UnderWay(b.due, b)'
      BY <1>1, <1>3, <2>3 DEF UnderWay, Booked
  <2>5. BooksInv' /\ MarkerHasMission'
      BY <1>1, <1>3, <2>1, <2>4, BooksOfRow
  <2>6. QED
      BY <1>4, <2>5 DEF LoanInv
<1>7. QED
    BY <1>5, <1>6

LEMMA RetryDueKeeps ==
    ASSUME LoanInv, NEW d \in Dues, RetryDue(d)
    PROVE  LoanInv'
<1>1. retry' \in SUBSET Dues /\ UNCHANGED <<w, seen, lm, dates, funded, prepaid>>
    BY DEF RetryDue, LoanInv, ServiceTypeOK
<1>2. BooksInv' /\ MarkerHasMission'
    BY <1>1 DEF LoanInv, BooksInv, BridgeOf, UnderWay, Closed, Booked, MarkerHasMission
<1>3. QED
    BY <1>1, <1>2 DEF LoanInv, ServiceTypeOK, LoanWhole, RowShaped, FreshInv, Unseen


-----------------------------------------------------------------------------
(* The invariant, and what follows from it *)

LEMMA LoanInvInit ==
    ASSUME Init
    PROVE  LoanInv
<1>1. /\ seen = None /\ lm = None /\ dates = [d \in Dues |-> None] /\ retry = {} /\ funded = [d \in Dues |-> 0]
      /\ prepaid = [done |-> 0, believed |-> 0, at |-> 0]
    BY DEF Init, ServiceInit
<1>2. PICK c \in {0, MaxCash}, k \in Markets :
         w = [cash |-> c, owed |-> Owed, st |-> "active", arrears |-> 0, due |-> 0, paid |-> 0,
              liens |-> 0, mkt |-> k, req |-> 0, rst |-> "none", quote |-> FALSE,
              repl |-> [r \in Reqs |-> "none"]]
    BY DEF Init, ServiceInit
<1>3. /\ c \in 0..MaxCash /\ 0 \in Dues /\ 0 \in 0..1 /\ 0 \in 0..Owed /\ Owed \in 0..Owed /\ 0 \in 0..MaxReq
      /\ [r \in Reqs |-> "none"] \in [Reqs -> {"none", "good", "odd", "closed"}]
    BY DEF Dues
<1>4. w \in World /\ w.owed = Owed /\ w.paid = 0
    BY <1>2, <1>3 DEF World
<1>5. ServiceTypeOK /\ LoanWhole
    BY <1>1, <1>4 DEF ServiceTypeOK, LoanWhole
<1>6. RowShaped /\ BooksInv /\ MarkerHasMission /\ FreshInv
    BY <1>1, <1>4 DEF RowShaped, BooksInv, BridgeOf, Closed, Booked, MarkerHasMission, FreshInv
<1>7. QED
    BY <1>5, <1>6 DEF LoanInv

LEMMA LoanInvStep ==
    ASSUME LoanInv, [Next]_vars
    PROVE  LoanInv'
<1>1. CASE Capture \/ Server \/ CoolDown \/ Trade \/ Refinance
    BY <1>1, OutsideSteps, OutsideKeeps
<1>2. CASE Service
  <2>1. ASSUME NEW whole \in BOOLEAN, ServiceStep(whole)
        PROVE  LoanInv'
      BY <2>1, ServiceInstallmentBridgeKeeps, SendLoanKeeps, VetoLoanKeeps, ResultLoanKeeps, RejectLoanKeeps,
         ReleaseLoanKeeps DEF ServiceStep
  <2>2. QED
      BY <1>2, <2>1, RepayStartKeeps, CarryLoanKeeps, AnswerLoanKeeps, RetryDueKeeps DEF Service
<1>3. CASE UNCHANGED vars
  <2>1. UNCHANGED <<w, seen, lm, dates, retry, funded, prepaid>>
      BY <1>3 DEF vars, svars
  <2>2. BooksInv' /\ MarkerHasMission'
      BY <2>1 DEF LoanInv, BooksInv, BridgeOf, UnderWay, Closed, Booked, MarkerHasMission
  <2>3. QED
      BY <2>1, <2>2 DEF LoanInv, ServiceTypeOK, LoanWhole, RowShaped, FreshInv, Unseen
<1>4. QED
    BY <1>1, <1>2, <1>3 DEF Next

\* The inductive invariant: the types of the control and the server, a whole
\* loan, the books of every due date either closed or with their bridge under
\* way, the mission of every marked due date, and the capture's freshness.
THEOREM LoanInvHolds == Spec => []LoanInv
<1>1. Init => LoanInv
    BY LoanInvInit
<1>2. LoanInv /\ [Next]_vars => LoanInv'
    BY LoanInvStep
<1>3. QED
    BY <1>1, <1>2, PTL DEF Spec

LEMMA LoanInvBooks ==
    ASSUME LoanInv
    PROVE  BridgeBooksTrue
<1>1. ASSUME NEW d \in Dues
      PROVE  /\ lm = None \/ lm.bridge = None \/ lm.bridge.due # d =>
                    funded[d] = IF dates[d] = None THEN 0 ELSE dates[d].bridged
             /\ dates[d] # None => funded[d] <= dates[d].need + Rounding
  <2>1. CASE ~BridgeOf(d)
      BY <2>1 DEF LoanInv, BooksInv, Closed, Booked, BridgeOf
  <2>2. CASE BridgeOf(d)
    <3>1. UnderWay(d, lm.bridge) /\ lm # None /\ lm.bridge # None /\ lm.bridge.due = d
        BY <2>2 DEF LoanInv, BooksInv, BridgeOf
    <3>2. lm.bridge.before \in Nat /\ lm.bridge.fund \in Nat /\ lm.bridge.need \in Nat
        BY <3>1, RowFields DEF LoanInv
    <3>3. dates[d] # None => funded[d] <= dates[d].need + Rounding
        BY <3>1, <3>2 DEF UnderWay
    <3>4. QED
        BY <3>1, <3>3
  <2>3. QED
      BY <2>1, <2>2
<1>2. QED
    BY <1>1 DEF BridgeBooksTrue

\* What the progress of a due date says was bridged is what its bridges really
\* paid in, once no bridge is under way, and all of them together exceed its need
\* by one rounding at the most, through any crash, lost answer and repeated result
\* (serviceInstallmentBridge, recordLoanBridgeFunding).
THEOREM BridgeBooksTrueHolds == Spec => []BridgeBooksTrue
<1>1. LoanInv => BridgeBooksTrue
    BY LoanInvBooks
<1>2. QED
    BY <1>1, LoanInvHolds, PTL

\* A due date marked as being bridged has the mission that bridges it, whatever
\* write the process died after (serviceInstallmentBridge, loanActionReady).
THEOREM MarkerHasMissionHolds == Spec => []MarkerHasMission
<1>1. LoanInv => MarkerHasMission
    BY DEF LoanInv
<1>2. QED
    BY <1>1, LoanInvHolds, PTL

LEMMA PrepayStep ==
    ASSUME LoanInv, [Next]_vars, lm = None, lm' # None, lm'.phase = "loan_prepay"
    PROVE  seen.paid >= prepaid.at
<1>1. Service
    BY OutsideSteps DEF Next, vars, svars, Outside
<1>2. \A whole \in BOOLEAN : ServiceStep(whole) => ServiceInstallmentBridge(whole)
    BY DEF ServiceStep, SendLoan, VetoLoan, ResultLoan, RejectLoan, ReleaseLoan
<1>3. \A whole \in BOOLEAN : ServiceInstallmentBridge(whole) => seen # None
    BY DEF ServiceInstallmentBridge, Idle
<1>4. seen # None
    BY <1>1, <1>2, <1>3 DEF Service, ServiceArrears, PrepayLoans, Idle, CarryLoan, AnswerLoan, RetryDue
<1>5. ~Unseen
    BY DEF Unseen
<1>6. QED
    BY <1>4, <1>5 DEF LoanInv, FreshInv

\* A prepayment is decided from a capture that shows every prepayment carried
\* out before (the loan_prepay_done phase of serviceLoans): never two from one
\* surplus.
THEOREM PrepaidFromFreshHolds == Spec => PrepaidFromFresh
<1>1. LoanInv /\ [Next]_vars => [lm = None /\ lm' # None /\ lm'.phase = "loan_prepay" => seen.paid >= prepaid.at]_<<w, seen, lm, dates, retry, funded, prepaid>>
    BY PrepayStep
<1>2. QED
    BY <1>1, LoanInvHolds, PTL DEF Spec, PrepaidFromFresh
=============================================================================
