------------------------------- MODULE Futures -------------------------------
(***************************************************************************)
(* The "__futures" control: internal/engine/futures.go,                    *)
(* futures_controller.go, futures_lease.go and internal/store/futures.go   *)
(*                                                                         *)
(* Two cohorts of one-ton listings at one port: a cross pair (purchase p1  *)
(* matures before sale s1, both accepted by one request) and a covered sale *)
(* s2.  Prices, credit and carry are verdicts.  The retired pilot cohort   *)
(* and its lease are left out.                                             *)
(***************************************************************************)
EXTENDS Naturals, FiniteSets

CONSTANTS
    NoAct,
    Starts,             \* listings open, contracts standing, tons stored, rented and at risk
    PortSpace,          \* tons the port can rent out in all
    MaxKeys             \* bound on journal keys of one cohort

ASSUME FuturesAssumption ==
    /\ PortSpace \in Nat /\ MaxKeys \in Nat \ {0}
    /\ \A s \in Starts :
          /\ s.stock \in Nat /\ s.leased \in Nat /\ s.spoil \in Nat /\ s.stock <= s.leased /\ s.leased <= PortSpace
          /\ s.open \cap s.standing = {}
          /\ {"s1", "p1"} \subseteq s.standing \/ {"s1", "p1"} \cap s.standing = {}    \* a pair is accepted whole

VARIABLES
    fw,         \* the server
    fcap,       \* the capture, if current: a world, what was left unlisted; events so far
    rows,       \* futures_intents
    fj,         \* the journal row of each cohort's current key
    fm,         \* the "__futures" mission row
    cred        \* futures_credit_evidence, and the answer on its way

fvars == <<fw, fcap, rows, fj, fm, cred>>

Leg     == {"s1", "p1", "s2"}
Sales   == {"s1", "s2"}
Cohort  == {1, 2}
LegsOf(c) == IF c = 1 THEN {"s1", "p1"} ELSE {"s2"}
CohortOf(l) == IF l = "s2" THEN 2 ELSE 1

Terminal == {"settled", "defaulted", "cancelled", "rejected"}

\* The row of an admitted leg: status, whether its contract is known
\* (futures_id), whether its receipt is (FuturesSettlement) and what it says.
IntentRow == [status : {"none", "intent", "active"} \cup Terminal, fid : BOOLEAN,
              rec : BOOLEAN, tons : 0..1, claim : 0..1]

Action == [stage : {"accept", "settle", "stock", "resize", "release"},
           c : Cohort, leg : Leg \cup {NoAct}, st : {"staged", "pending", "unknown", "receipt", "garbled",
                                                   "refused", "throttled"},
           done : BOOLEAN, wire : BOOLEAN, after : {"no", "set", "passed"}, before : Nat, fill : 0..1]

FuturesTypeOK ==
    /\ rows \in [Leg -> IntentRow]
    /\ fj \in [Cohort -> [key : 1..MaxKeys, st : {"none", "pending", "neversent", "terms", "throttled", "closed"}]]
    /\ fm.act \in Action \cup {NoAct}

FuturesInit ==
    /\ \E s \in Starts :
          /\ fw = [list |-> [l \in Leg |-> IF l \in s.open THEN "open" ELSE IF l \in s.standing THEN "ours" ELSE "taken"],
                   mature |-> {}, stock |-> s.stock, leased |-> s.leased, tons |-> [l \in Leg |-> 0], owed |-> {},
                   may |-> s.spoil, spoiled |-> 0]
          /\ rows = [l \in Leg |-> [status |-> IF l \in s.standing THEN "active" ELSE "none",
                                    fid |-> l \in s.standing, rec |-> FALSE, tons |-> 0, claim |-> 0]]
          /\ fj = [c \in Cohort |-> [key |-> 1, st |-> IF LegsOf(c) \subseteq s.standing THEN "closed" ELSE "none"]]
    /\ fcap = [w |-> NoAct, gone |-> {}, ev |-> {}]
    /\ fm = [act |-> NoAct, hold |-> NoAct, change |-> NoAct, exits |-> [c \in Cohort |-> 0], latch |-> {}]
    /\ cred = [tried |-> NoAct, answer |-> NoAct, obs |-> {}, claims |-> 0]

Ended == {l \in Leg : fw.list[l] \in {"settled", "defaulted"}}

-----------------------------------------------------------------------------
(* The server (external) *)

Taken(l) ==
    /\ fw.list[l] = "open"
    /\ fw' = [fw EXCEPT !.list[l] = "taken"]
    /\ UNCHANGED <<fcap, rows, fj, fm, cred>>

Matures(l) ==
    /\ fw.list[l] = "ours" /\ l \notin fw.mature /\ (l = "s1" => "p1" \in fw.mature)
    /\ fw' = [fw EXCEPT !.mature = @ \cup {l}]
    /\ UNCHANGED <<fcap, rows, fj, fm, cred>>

\* The outcomes of a settlement: delivery, our default, or the other side's.
Settlement(w, l) ==
    IF l \in Sales
    THEN IF w.stock > 0
         THEN {[w EXCEPT !.list[l] = "settled", !.tons[l] = 1, !.stock = @ - 1],
               [w EXCEPT !.list[l] = "defaulted"]}
         ELSE {[w EXCEPT !.list[l] = "defaulted", !.owed = @ \cup {l}]}
    ELSE IF w.leased > w.stock
         THEN {[w EXCEPT !.list[l] = "settled", !.tons[l] = 1, !.stock = @ + 1],
               [w EXCEPT !.list[l] = "defaulted"]}
         ELSE {[w EXCEPT !.list[l] = "defaulted", !.owed = @ \cup {l}]}

CounterpartySettles(l) ==
    /\ fw.list[l] = "ours" /\ l \in fw.mature
    /\ fw' \in Settlement(fw, l)
    /\ UNCHANGED <<fcap, rows, fj, fm, cred>>

ClaimPaid(l) ==
    /\ l \in fw.owed /\ fw' = [fw EXCEPT !.owed = @ \ {l}]
    /\ UNCHANGED <<fcap, rows, fj, fm, cred>>

Spoils ==
    /\ fw.stock > 0 /\ fw.spoiled < fw.may
    /\ fw' = [fw EXCEPT !.stock = @ - 1, !.spoiled = @ + 1]
    /\ UNCHANGED <<fcap, rows, fj, fm, cred>>

\* The loop waits for the credit read of a capture.
Looping == cred.tried = NoAct

-----------------------------------------------------------------------------
(* observeFutures *)

\* FuturesSettlement: what the receipt of an ended contract says.
Receipt(w, l) == [status |-> w.list[l], fid |-> TRUE, rec |-> TRUE, tons |-> w.tons[l],
                  claim |-> IF w.list[l] = "defaulted" /\ l \in w.owed THEN 1 ELSE 0]

\* ObserveFuturesContract: "A late listing must not resurrect a permanent
\* terminal receipt", but outranks a rejection.
ObserveFuturesContract(row, status) ==
    IF row.status \in Terminal \ {"rejected"} /\ row.status # status THEN row
    ELSE [row EXCEPT !.fid = TRUE, !.status = IF status = "ours" THEN "active" ELSE status]

\* The permanent row of one leg after the list, the ledger and the events of
\* the capture c.
ContractObserved(c, l) ==
    LET row  == rows[l]
        mine == c.w.list[l] \in {"ours", "settled", "defaulted"}
        seen == IF row.status # "none" /\ l \notin c.gone /\ mine THEN ObserveFuturesContract(row, c.w.list[l]) ELSE row
    IN  IF seen.fid /\ l \in c.ev /\ ~seen.rec
           /\ (seen.status \in Terminal => seen.status = c.w.list[l])
        THEN Receipt(fw, l) ELSE seen

View == [list |-> fw.list, mature |-> fw.mature, stock |-> fw.stock, leased |-> fw.leased]

\* A capture, which the pass observes before it decides.  Contracts that ended
\* are off the list once their events and ledger entries are in.
ObserveFutures ==
    /\ Looping /\ (fm.act # NoAct => fm.act.st # "pending")
    /\ \E c \in {[w |-> View, gone |-> {}, ev |-> fcap.ev], [w |-> View, gone |-> Ended, ev |-> Ended]} :
          /\ fcap' = c /\ c # fcap
          /\ rows' = [l \in Leg |-> ContractObserved(c, l)]
    /\ fm' = [fm EXCEPT !.latch = {x \in @ : x[2] = fw.list[x[1]]}]
    /\ UNCHANGED <<fw, fj, cred>>

Pass == fcap.w # NoAct /\ Looping
Listed(l) == l \notin fcap.gone

-----------------------------------------------------------------------------
(* What a pass computes *)

Live(l) == rows[l].status \in {"intent", "active"}

\* futuresReceivingReserved
ReceivingReserved ==
    IF Live("p1") \/ (rows["p1"].status \in {"settled", "defaulted"} /\ ~rows["p1"].rec) THEN 1 ELSE 0

\* futuresRemainingStock: known once every leg of the cohort has its receipt.
Accepted(c)  == {l \in LegsOf(c) : rows[l].status \notin {"none", "cancelled", "rejected"}}
StockKnown(c) == \A l \in Accepted(c) : rows[l].status \in Terminal /\ rows[l].rec
Bought(c)    == Cardinality({l \in Accepted(c) \ Sales : rows[l].tons = 1})
Sold(c)      == Cardinality({l \in Accepted(c) \cap Sales : rows[l].tons = 1}) + fm.exits[c]
RemainingStock(c) == IF Bought(c) > Sold(c) THEN Bought(c) - Sold(c) ELSE 0

\* futuresCover: stock that no open sale and no cohort's surplus needs, but for
\* the cohort that is being judged.
FuturesCover(without) ==
    LET claimed == Cardinality({l \in Sales \ without : Live(l)})
                   + (IF "p1" \in without THEN 0 ELSE IF StockKnown(1) THEN RemainingStock(1)
                      ELSE IF rows["p1"].status \in {"settled", "defaulted"} THEN 1 ELSE 0)
    IN  IF fcap.w.stock > claimed THEN fcap.w.stock - claimed ELSE 0

\* futuresLeaseFloor: never below the baseline, the stock and what is to come.
BaseTons == IF fm.hold = NoAct THEN 0
            ELSE fm.hold.base + (IF fcap.w.leased > fm.hold.target THEN fcap.w.leased - fm.hold.target ELSE 0)
LeaseFloor ==
    LET used == fcap.w.stock + ReceivingReserved
    IN  IF BaseTons > used THEN BaseTons ELSE used

NewFAct(stage, c, l) ==
    [stage |-> stage, c |-> c, leg |-> l, st |-> "staged", done |-> FALSE, wire |-> FALSE,
     after |-> "no", before |-> IF stage = "stock" THEN fcap.w.stock ELSE 0, fill |-> 0]

IdleF == Pass /\ fm.act = NoAct

-----------------------------------------------------------------------------
(* driveFutures *)

\* futuresNeedsReceipt
NeedsReceipt(l) == rows[l].status \in {"settled", "defaulted"} /\ ~rows[l].rec

\* A mature contract is settled, purchases first; one whose receipt is missing
\* is asked for again.  A refusal waits for another listing.
Due(l) ==
    /\ rows[l].fid /\ l \in fcap.w.mature
    /\ (rows[l].status = "active" /\ Listed(l)) \/ NeedsReceipt(l)
    /\ <<l, fcap.w.list[l]>> \notin fm.latch

StageSettle(l) ==
    /\ IdleF /\ Due(l) /\ (l = "s1" => ~Due("p1"))
    /\ fm' = [fm EXCEPT !.act = NewFAct("settle", CohortOf(l), l)]
    /\ UNCHANGED <<fw, fcap, rows, fj, cred>>

\* RejectUnsentFuturesIntent: with proof that nothing was sent.
Unsent(c) == fj[c].st \in {"none", "neversent", "terms"}
RejectUnsent(l) ==
    IF rows[l].status = "intent" /\ ~rows[l].fid /\ Unsent(CohortOf(l))
    THEN [rows[l] EXCEPT !.status = "rejected"] ELSE rows[l]

\* An intent that was not accepted before it matured is released.
ExpireIntent(l) ==
    /\ IdleF /\ rows[l].status = "intent" /\ RejectUnsent(l) # rows[l]
    /\ rows' = [rows EXCEPT ![l] = RejectUnsent(l)]
    /\ UNCHANGED <<fw, fcap, fj, fm, cred>>

\* closeFuturesSurplus: stock a closed cohort has left is sold, a ton a time.
CloseSurplus(c) ==
    /\ IdleF /\ StockKnown(c) /\ RemainingStock(c) > 0 /\ fcap.w.stock >= RemainingStock(c)
    /\ fm' = [fm EXCEPT !.act = NewFAct("stock", c, NoAct)]
    /\ UNCHANGED <<fw, fcap, rows, fj, cred>>

\* releaseFuturesLease: the terms of a retired change are dropped; a lease above
\* its floor is given back.
ReleaseLease ==
    /\ IdleF
    /\ \/ fm.change # NoAct /\ fm' = [fm EXCEPT !.change = NoAct]
       \/ /\ fm.change = NoAct /\ fm.hold # NoAct /\ LeaseFloor < fcap.w.leased
          /\ fm' = [fm EXCEPT !.act = NewFAct("release", 1, NoAct),
                              !.change = [before |-> fcap.w.leased, target |-> LeaseFloor, base |-> BaseTons]]
    /\ UNCHANGED <<fw, fcap, rows, fj, cred>>

\* A listing of another company that no intent names (futuresForeignListing).
Candidate(l) == rows[l].status = "none" /\ fcap.w.list[l] = "open"

\* evaluateFuturesListing: a sale from free stock.  Its edge, the budget and the
\* counterparty's credit are verdicts.
ListingAdmits == Candidate("s2") /\ FuturesCover({}) >= 1

\* evaluateFuturesCross: a pair, if the port can rent out the room
\* (reserveFuturesLease).
CrossAdmits ==
    /\ Candidate("s1") /\ Candidate("p1")
    /\ fcap.w.stock + ReceivingReserved + 1 <= PortSpace

\* PutFuturesIntents: the legs of a cohort are reserved in one transaction.
Reserved(c) == [l \in Leg |-> IF l \in LegsOf(c) THEN [rows[l] EXCEPT !.status = "intent"] ELSE rows[l]]

\* driveFuturesController, stageFuturesAdmission: an intent that is there goes
\* first; a new one is reserved before the mission row is saved.
Admit(c) ==
    /\ IdleF /\ fm.change = NoAct
    /\ \A l \in Leg : rows[l].status # "intent"
    /\ IF c = 1 THEN CrossAdmits ELSE ListingAdmits
    /\ rows' = Reserved(c)
    /\ UNCHANGED <<fw, fcap, fj, fm, cred>>

\* stageFuturesCapacity: the receiving space is rented first.
StageCapacity(c) ==
    /\ IdleF /\ fm.change = NoAct
    /\ \E l \in LegsOf(c) : rows[l].status = "intent"
    /\ LET target == fcap.w.stock + ReceivingReserved
       IN  \/ /\ target <= fcap.w.leased
              /\ fm' = [fm EXCEPT !.act = NewFAct("accept", c, NoAct)] /\ UNCHANGED rows
           \/ /\ target > fcap.w.leased /\ target <= PortSpace
              /\ \A l \in LegsOf(c) : rows[l].status = "intent"
              /\ fm' = [fm EXCEPT !.act = NewFAct("resize", c, NoAct),
                                  !.change = [before |-> fcap.w.leased, target |-> target,
                                              base |-> IF fm.hold = NoAct THEN fcap.w.leased ELSE BaseTons]]
              /\ UNCHANGED rows
           \/ /\ target > PortSpace
              /\ rows' = [l \in Leg |-> IF l \in LegsOf(c) THEN RejectUnsent(l) ELSE rows[l]]
              /\ rows' # rows /\ UNCHANGED fm
    /\ UNCHANGED <<fw, fcap, fj, cred>>

-----------------------------------------------------------------------------
(* The request *)

Sending == fm.act # NoAct /\ Looping

\* futuresAdmissionPreflight: room and mature contracts come first ("wait"),
\* then the listings and the cover are judged again ("terms").
AdmissionVerdict(c, leasing) ==
    LET room  == leasing \/ fcap.w.leased >= fcap.w.stock + ReceivingReserved    \* futuresCapacityReady
        first == \E l \in fcap.w.mature : rows[l].status = "active"
        terms == /\ \A l \in LegsOf(c) : rows[l].status = "intent" /\ fcap.w.list[l] = "open"
                 /\ c = 2 => FuturesCover(LegsOf(c)) >= 1
    IN  IF ~room \/ first THEN "wait" ELSE IF ~terms THEN "terms" ELSE "send"

\* futuresLeasePreflight
LeaseVerdict ==
    IF fcap.w.leased # fm.change.before THEN "terms"
    ELSE IF fm.act.stage = "release"
         THEN IF fm.change.target >= LeaseFloor /\ fm.change.target >= fm.change.base THEN "send" ELSE "wait"
    ELSE IF fcap.w.stock + ReceivingReserved # fm.change.target THEN "terms"
    ELSE AdmissionVerdict(fm.act.c, TRUE)

\* futuresPreflight, on the first send
Verdict ==
    CASE fm.act.stage = "accept" -> AdmissionVerdict(fm.act.c, FALSE)
      [] fm.act.stage \in {"resize", "release"} -> LeaseVerdict
      [] fm.act.stage = "settle" ->
            IF fm.act.leg \in fcap.w.mature /\ (NeedsReceipt(fm.act.leg) \/ Listed(fm.act.leg)) THEN "send" ELSE "wait"
      [] OTHER -> IF StockKnown(fm.act.c) /\ fcap.w.stock >= 1 /\ RemainingStock(fm.act.c) >= 1 THEN "send" ELSE "wait"

Journal(c, st) == IF fm.act.stage = "accept" THEN [fj EXCEPT ![c].st = st] ELSE fj

\* The first send, journaled before.
FirstSend ==
    /\ Sending /\ fm.act.st = "staged" /\ Pass /\ Verdict = "send"
    /\ fm' = [fm EXCEPT !.act.st = "pending", !.act.wire = TRUE]
    /\ fj' = Journal(fm.act.c, "pending")
    /\ UNCHANGED <<fw, fcap, rows, cred>>

\* invalidateFutures
Stale == fcap' = [fcap EXCEPT !.w = NoAct, !.gone = {}]

Dropped == [fm EXCEPT !.act = NoAct]

\* ReadmitFuturesIntent: "only after the previous request is positively known
\* not to have committed".
Retryable(c) == fj[c].st \in {"neversent", "throttled"}

Readmit(c) ==
    /\ Retryable(c) /\ fj[c].key < MaxKeys
    /\ \A l \in LegsOf(c) : rows[l].status = "intent" /\ ~rows[l].fid

NewKey(c) == [fj EXCEPT ![c] = [key |-> @.key + 1, st |-> "none"]]

\* RecordFuturesOutcome of a refusal
Rejected(c) == [l \in Leg |-> IF l \in LegsOf(c) THEN [rows[l] EXCEPT !.status = "rejected"] ELSE rows[l]]

\* The veto at the last moment (replanUnsentAction).  Broken terms reject the
\* admission; a journaled request that waits gets a new key.
Veto ==
    /\ Sending /\ fm.act.st = "staged" /\ Pass
    /\ \/ /\ Verdict = "terms"
          /\ fj' = Journal(fm.act.c, "terms")
          /\ rows' = IF fm.act.stage = "accept" THEN Rejected(fm.act.c)
                     ELSE IF fm.act.stage = "resize" THEN [l \in Leg |-> IF l \in LegsOf(fm.act.c) THEN RejectUnsent(l) ELSE rows[l]]
                     ELSE rows
       \/ /\ Verdict = "wait" /\ UNCHANGED rows
          /\ \/ UNCHANGED fj                                      \* before it was journaled
             \/ /\ fm.act.stage = "accept" /\ fj[fm.act.c].key < MaxKeys
                /\ fj' = NewKey(fm.act.c)
    /\ fm' = Dropped
    /\ UNCHANGED <<fw, fcap, cred>>

\* A request on the wire is carried out (external), once per key.
Carried ==
    /\ fm.act # NoAct /\ fm.act.wire /\ ~fm.act.done
    /\ CASE fm.act.stage = "accept" ->
              /\ \A l \in LegsOf(fm.act.c) : fw.list[l] = "open"
              /\ fw' = [fw EXCEPT !.list = [l \in Leg |-> IF l \in LegsOf(fm.act.c) THEN "ours" ELSE @[l]]]
              /\ fm' = [fm EXCEPT !.act.done = TRUE]
         [] fm.act.stage = "settle" ->
              /\ fw.list[fm.act.leg] = "ours" /\ fw' \in Settlement(fw, fm.act.leg)
              /\ fm' = [fm EXCEPT !.act.done = TRUE]
         [] fm.act.stage = "stock" ->
              /\ fw.stock > 0
              /\ \/ fw' = [fw EXCEPT !.stock = @ - 1] /\ fm' = [fm EXCEPT !.act.done = TRUE, !.act.fill = 1]
                 \/ fw' = fw /\ fm' = [fm EXCEPT !.act.done = TRUE]
         [] OTHER ->
              /\ fm.change.target >= fw.stock /\ fm.change.target <= PortSpace
              /\ fw' = [fw EXCEPT !.leased = fm.change.target] /\ fm' = [fm EXCEPT !.act.done = TRUE]
    /\ UNCHANGED <<fcap, rows, fj, cred>>

\* An answer, or none.  A contract that ended before is answered with its receipt.
Answered(st) == [fm EXCEPT !.act.st = st, !.act.wire = FALSE, !.act.after = "no"]
AnswerFutures ==
    /\ Sending /\ fm.act.st = "pending"
    /\ \/ fm.act.done /\ \E st \in {"receipt", "garbled"} : fm' = Answered(st) /\ fj' = Journal(fm.act.c, "closed")
       \/ /\ ~fm.act.done /\ fm.act.stage = "settle" /\ fw.list[fm.act.leg] \in {"settled", "defaulted"}
          /\ fm' = Answered("receipt") /\ UNCHANGED fj
       \/ /\ ~fm.act.done /\ \E st \in {"refused", "throttled"} :
                fm' = Answered(st) /\ fj' = Journal(fm.act.c, IF st = "throttled" THEN "throttled" ELSE "closed")
       \/ fm' = [fm EXCEPT !.act.st = "unknown", !.act.after = "no"] /\ UNCHANGED fj
    /\ UNCHANGED <<fw, fcap, rows, cred>>

\* The process dies with its request, which was carried out or never will be.
CrashFutures ==
    /\ Sending /\ fm.act.st = "pending"
    /\ fm' = [fm EXCEPT !.act.st = "unknown", !.act.wire = FALSE]
    /\ Stale
    /\ UNCHANGED <<fw, rows, fj, cred>>

\* The same request again under its key.
SendAgain ==
    /\ Sending /\ fm.act.st = "unknown"
    /\ fm' = [fm EXCEPT !.act.st = "pending", !.act.wire = TRUE]
    /\ UNCHANGED <<fw, fcap, rows, fj, cred>>

\* RequestTimeout and five seconds pass: nothing of the request is on the wire.
GracePasses ==
    /\ Sending /\ fm.act.after = "set" /\ fm.act.st \in {"unknown", "garbled"}
    /\ fm' = [fm EXCEPT !.act.after = "passed", !.act.wire = FALSE]
    /\ Stale
    /\ UNCHANGED <<fw, rows, fj, cred>>

-----------------------------------------------------------------------------
(* consumeFuturesResult *)

Held(change) ==
    IF change.target = change.base THEN NoAct ELSE [base |-> change.base, target |-> change.target]

\* finishFuturesLease
FinishLease == [Dropped EXCEPT !.hold = Held(fm.change), !.change = NoAct]

ResultFutures ==
    /\ Sending /\ fm.act.st = "receipt"
    /\ \/ /\ fm.act.stage = "accept"
          /\ rows' = [l \in Leg |-> IF l \in LegsOf(fm.act.c) THEN ObserveFuturesContract(rows[l], "ours") ELSE rows[l]]
          /\ fm' = Dropped
       \/ /\ fm.act.stage = "settle"
          /\ LET l == fm.act.leg
             IN  rows' = [rows EXCEPT ![l] = IF rows[l].status \in Terminal /\ rows[l].status # fw.list[l]
                                             THEN rows[l] ELSE Receipt(fw, l)]
          /\ fm' = Dropped
       \/ /\ fm.act.stage = "stock" /\ UNCHANGED rows
          /\ fm' = [Dropped EXCEPT !.exits[fm.act.c] = @ + fm.act.fill]
       \/ /\ fm.act.stage \in {"resize", "release"} /\ UNCHANGED rows /\ fm' = FinishLease
    /\ Stale /\ UNCHANGED <<fw, fj, cred>>

\* Mutant: a request without an answer is sent again under a new key.
RefusalOrTimeout ==
    /\ Sending /\ fm.act.stage = "accept" /\ fm.act.st \in {"throttled", "unknown"}
    /\ fj[fm.act.c].key < MaxKeys
    /\ fj' = NewKey(fm.act.c) /\ fm' = Dropped
    /\ Stale /\ UNCHANGED <<fw, rows, cred>>

\* A definitive refusal.  An admission that is known to have committed waits for
\* its contract instead.
RefusalFutures ==
    /\ Sending /\ fm.act.st \in {"refused", "throttled"}
    /\ \/ /\ fm.act.stage = "accept" /\ \A l \in LegsOf(fm.act.c) : ~rows[l].fid
          /\ \/ /\ fm.act.st = "throttled" /\ Readmit(fm.act.c)
                /\ fj' = NewKey(fm.act.c) /\ UNCHANGED rows
             \/ fm.act.st = "refused" /\ rows' = Rejected(fm.act.c) /\ UNCHANGED fj
          /\ fm' = Dropped
       \/ /\ fm.act.stage \in {"settle", "stock"}
          /\ fm' = [Dropped EXCEPT !.latch = IF fm.act.stage = "settle" /\ fm.act.st = "refused" /\ Pass
                                             THEN @ \cup {<<fm.act.leg, fcap.w.list[fm.act.leg]>>} ELSE @]
          /\ UNCHANGED <<rows, fj>>
       \/ /\ fm.act.stage \in {"resize", "release"}
          /\ rows' = IF fm.act.stage = "resize" /\ fm.act.st = "refused"
                     THEN [l \in Leg |-> IF l \in LegsOf(fm.act.c) THEN RejectUnsent(l) ELSE rows[l]] ELSE rows
          /\ fm' = [Dropped EXCEPT !.change = NoAct] /\ UNCHANGED fj
    /\ Stale /\ UNCHANGED <<fw, cred>>

-----------------------------------------------------------------------------
(* reconcileFuturesAction *)

InDoubt == Sending /\ fm.act.st \in {"unknown", "garbled"}

\* The contract of every leg, or the receipt of a settlement, is in its row.
ReconcileSeen ==
    /\ InDoubt /\ Pass
    /\ \/ fm.act.stage = "accept" /\ \A l \in LegsOf(fm.act.c) : rows[l].fid
       \/ fm.act.stage = "settle" /\ rows[fm.act.leg].status \in Terminal /\ rows[fm.act.leg].rec
    /\ fm' = Dropped /\ fj' = Journal(fm.act.c, "closed")
    /\ Stale /\ UNCHANGED <<fw, rows, cred>>

\* FuturesObserveAfter
WaitForProof ==
    /\ InDoubt /\ fm.act.after = "no"
    /\ fm' = [fm EXCEPT !.act.after = IF fm.act.stage = "accept" THEN "set" ELSE "passed"]
    /\ Stale
    /\ UNCHANGED <<fw, rows, fj, cred>>

\* Mutant: a listing that is still open is proof at once.
NotAcceptedAtOnce(c) == Pass /\ \E l \in LegsOf(c) : fcap.w.list[l] \in {"open", "taken"}

\* A list captured after the grace shows a leg open or in other hands: "Atomic
\* acceptance cannot commit if even one leg did not".
NotAccepted(c) ==
    /\ fm.act.after = "passed" /\ Pass
    /\ \A l \in LegsOf(c) : ~rows[l].fid
    /\ \E l \in LegsOf(c) : fcap.w.list[l] \in {"open", "taken"}

ReconcileNotAccepted ==
    /\ InDoubt /\ fm.act.stage = "accept" /\ NotAccepted(fm.act.c)
    /\ rows' = Rejected(fm.act.c)
    /\ fj' = Journal(fm.act.c, "closed") /\ fm' = Dropped
    /\ UNCHANGED <<fw, fcap, cred>>

\* A stock order is judged by the warehouse, a lease by its tonnage.
ReconcileWarehouse ==
    /\ InDoubt /\ fm.act.after = "passed" /\ Pass
    /\ \/ /\ fm.act.stage = "stock" /\ fcap.w.stock + 1 = fm.act.before
          /\ fm' = [Dropped EXCEPT !.exits[fm.act.c] = @ + 1]
       \/ /\ fm.act.stage = "stock" /\ fcap.w.stock = fm.act.before /\ fm.act.st = "garbled"
          /\ fm' = Dropped
       \/ /\ fm.act.stage \in {"resize", "release"} /\ fcap.w.leased = fm.change.target
          /\ fm' = FinishLease
    /\ Stale /\ UNCHANGED <<fw, rows, fj, cred>>

-----------------------------------------------------------------------------
(* refreshFuturesCredit *)

Defaults(w) == {l \in Leg : w.list[l] = "defaulted"}

\* futuresCreditAfterDefault
CreditAfterDefault(l) == l \in cred.obs

\* ReserveFuturesCreditRead, while the liability of a default is unresolved, and
\* the answer of GET /v1/loan/credit; a default may fall between the two.
ReadCredit ==
    /\ Looping /\ (fm.act # NoAct => fm.act.st # "pending")
    /\ \E l \in Leg : rows[l].status = "defaulted" /\ (~CreditAfterDefault(l) \/ cred.claims > 0)
    /\ cred' = [cred EXCEPT !.tried = Defaults(fw), !.answer = Cardinality(fw.owed)]
    /\ UNCHANGED <<fw, fcap, rows, fj, fm>>

\* RecordFuturesCredit: as of the time of the attempt.
RecordCredit ==
    /\ cred.answer # NoAct
    /\ cred' = [tried |-> NoAct, answer |-> NoAct, obs |-> cred.tried, claims |-> cred.answer]
    /\ UNCHANGED <<fw, fcap, rows, fj, fm>>

\* The read fails; the evidence stays.
CreditFails ==
    /\ cred.tried # NoAct
    /\ cred' = [cred EXCEPT !.tried = NoAct, !.answer = NoAct]
    /\ UNCHANGED <<fw, fcap, rows, fj, fm>>

\* FuturesCashReserveByRegion: a contract's reserve until it ends well, that of
\* a default until the own credit was read after it, and then the open claims.
CashReserve ==
    Cardinality({l \in Leg :
        \/ Live(l)
        \/ rows[l].status = "defaulted" /\ ~CreditAfterDefault(l) /\ (rows[l].rec => rows[l].claim = 1)})
    + cred.claims

-----------------------------------------------------------------------------
FuturesStep ==
    \/ FirstSend \/ Veto \/ ResultFutures \/ RefusalFutures \/ ReconcileSeen \/ ReconcileNotAccepted
    \/ ReconcileWarehouse \/ WaitForProof

FuturesNext ==
    \/ (\E l \in Sales : Taken(l))
    \/ (\E l \in Leg : Matures(l) \/ CounterpartySettles(l) \/ ClaimPaid(l) \/ StageSettle(l) \/ ExpireIntent(l))
    \/ (\E c \in Cohort : CloseSurplus(c) \/ Admit(c) \/ StageCapacity(c))
    \/ Spoils \/ ObserveFutures \/ ReleaseLease
    \/ FuturesStep \/ Carried \/ AnswerFutures \/ CrashFutures \/ SendAgain \/ GracePasses
    \/ ReadCredit \/ RecordCredit \/ CreditFails


FuturesSpec == FuturesInit /\ [][FuturesNext]_fvars

-----------------------------------------------------------------------------
(* Properties *)

\* An accepted contract is never lost sight of: its intent names it, or the
\* request that accepted it is still to be resolved.
NoForgottenContract ==
    \A l \in Leg : fw.list[l] \in {"ours", "settled", "defaulted"} =>
        rows[l].fid \/ (fm.act # NoAct /\ fm.act.stage = "accept" /\ fm.act.c = CohortOf(l))

\* A request gets another key only when the one before it did nothing and can
\* do nothing any more.
KeyKeptWhileAlive ==
    \A c \in Cohort : fj'[c].key # fj[c].key =>
       /\ \A l \in LegsOf(c) : fw.list[l] \in {"open", "taken"}
       /\ fm.act # NoAct => ~fm.act.wire
NewKeyOnlyWhenDead == [][KeyKeptWhileAlive]_fvars

-----------------------------------------------------------------------------
(* Why the properties hold *)

Standing == {"ours", "settled", "defaulted"}
Mine(l)  == fw.list[l] \in Standing
World == [list : [Leg -> {"open", "taken"} \cup Standing], mature : SUBSET Leg, stock : Nat, leased : Nat,
          tons : [Leg -> 0..1], owed : SUBSET Leg, may : Nat, spoiled : Nat]
Views == [list : [Leg -> {"open", "taken"} \cup Standing], mature : SUBSET Leg, stock : Nat, leased : Nat]
Change == [before : Nat, target : Nat, base : Nat]

ASSUME FuturesNone == NoAct \notin Action /\ NoAct \notin Views /\ NoAct \notin Change

FuturesTypes ==
    /\ FuturesTypeOK
    /\ fw \in World
    /\ fcap \in [w : Views \cup {NoAct}, gone : SUBSET Leg, ev : SUBSET Leg]
    /\ fm \in [act : Action \cup {NoAct}, hold : [base : Nat, target : Nat] \cup {NoAct}, change : Change \cup {NoAct},
               exits : [Cohort -> Nat], latch : SUBSET (Leg \X ({"open", "taken"} \cup Standing))]

\* A row knows its contract as its status says.
RowKnown(row) ==
    /\ row.status \in {"none", "intent"} => ~row.fid
    /\ row.status \in {"active", "settled", "defaulted", "cancelled"} => row.fid

Acting(stage) == fm.act # NoAct /\ fm.act.stage = stage

\* A settlement answered for its leg ended it, and a lease has its terms.
RequestShape ==
    /\ Acting("settle") => fm.act.leg \in Leg /\ (fm.act.done \/ fm.act.st = "receipt" => fm.act.leg \in Ended)
    /\ Acting("resize") \/ Acting("release") => fm.change # NoAct
    /\ fm.act # NoAct /\ fm.act.st \in {"staged", "refused", "throttled"} => ~fm.act.done /\ ~fm.act.wire

\* A cohort is accepted whole, by the request that says so.
AcceptedWhole ==
    /\ \A c \in Cohort : (\A l \in LegsOf(c) : Mine(l)) \/ (\A l \in LegsOf(c) : ~Mine(l))
    /\ Acting("accept") => \A l \in LegsOf(fm.act.c) : Mine(l) <=> fm.act.done

\* After the grace nothing is on the wire, and a capture shows what was done.
ProofAfterGrace ==
    Acting("accept") /\ fm.act.st \in {"unknown", "garbled"} /\ fm.act.after = "passed" =>
        /\ ~fm.act.wire
        /\ fcap.w # NoAct /\ fm.act.done => \A l \in LegsOf(fm.act.c) : fcap.w.list[l] \in Standing

FuturesInv ==
    /\ FuturesTypes /\ (\A l \in Leg : RowKnown(rows[l])) /\ fcap.ev \subseteq Ended
    /\ RequestShape /\ AcceptedWhole /\ ProofAfterGrace /\ NoForgottenContract
=============================================================================
