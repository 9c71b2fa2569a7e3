--------------------------- MODULE DealingsProofs ---------------------------
(***************************************************************************)
(* What is asked of the game service, and paid.                            *)
(*                                                                         *)
(* Actions: at most one effect, true verdicts and honest never-sent proofs, *)
(* for any number of processes, actions, takeovers and attempts, and any   *)
(* windows with ReplayWindow - Margin + Transit <= KeyWindow.              *)
(* Every request of an action is sent before its cutoff, so                *)
(* it arrives while the upstream still remembers the key the first arrival *)
(* left behind (Arrivals); hence a key is carried out at most once         *)
(* (KeyMeaning).  A row is declared never-sent only by the process that    *)
(* created it, while that process still is the owner and nobody else can   *)
(* have read the row as pending (FirstSendAlone).                          *)
(*                                                                         *)
(* Registration: for any mints and any failures, what was carried out has  *)
(* its answer kept upstream, or is so old that its row is never begun      *)
(* again (CarriedOnce).                                                    *)
(*                                                                         *)
(* Marques: for any terms, windows and lags, a letter in force is          *)
(* remembered in the snapshot, awaited, or its issue is unresolved         *)
(* (AllKnown); a request is staged only with every earlier letter over     *)
(* (IssueOK), and given up on only with a list that would show its letter. *)
(*                                                                         *)
(* Money: what a settled insured mission has booked, what underwriting     *)
(* may lose, and what a pass may commit, for any legs' refunds, policies,  *)
(* prices, budgets and fleets.                                             *)
(***************************************************************************)
EXTENDS ActionJournal, Registration, Marque, VoyageInsurance, FleetWork, Underwriting, SumLemmas

-----------------------------------------------------------------------------
(* Actions                                                                   *)

Busy == {"looked", "ready", "waiting", "answered", "completed", "vetoed"}
Sending == {"ready", "waiting", "answered"}

\* A dispatch works on the mission's current action or, superseded, on an
\* earlier one.
Dispatching ==
    /\ staged => seq \in Seqs
    /\ \A p \in Proc : pc[p] \in Busy =>
          /\ cur[p] \in Seqs
          /\ cur[p] < seq \/ (cur[p] = seq /\ staged)
          /\ p = owner => cur[p] = seq
    /\ \A p \in Proc : pc[p] = "looked" /\ first[p] /\ p = owner => row[cur[p]] = "absent"
    /\ \A p \in Proc : pc[p] \in Sending => row[cur[p]] \notin {"absent", "neversent"}
    /\ \A s \in Seqs : seq <= s /\ row[s] # "absent" => s = seq /\ staged
    /\ \A s \in Seqs : s < seq => row[s] # "pending"

\* While a first send can still be vetoed, its process is alone with the row.
FirstSendAlone ==
    \A p \in Proc : pc[p] = "ready" /\ first[p] /\ tries[p] = 0 /\ p = owner =>
        /\ cur[p] \notin attempted
        /\ \A q \in Proc : q # p /\ pc[q] \in Sending => cur[q] # cur[p]

\* Every request under way was sent before the cutoff of its action.
Arrivals ==
    \A m \in net :
        /\ m.id \in attempted
        /\ m.sent < created[m.id] + ReplayWindow - Margin
        /\ now <= m.sent + Transit

\* What a remembered key says.
KeyMeaning ==
    \A s \in Seqs :
        /\ created[s] <= now
        /\ key[s] # "none" => s \in attempted /\ created[s] + KeyWindow <= keyUntil[s]
        /\ key[s] = "busy" => job[s] \in Request /\ job[s].id = s
        /\ effects[s] = IF key[s] = "ok" THEN 1 ELSE 0

\* An answer in hand and a stored outcome agree with the key.
OutcomeMeaning ==
    /\ \A p \in Proc : pc[p] = "answered" =>
          /\ ans[p] \in {"ok", "unreadable"} => key[cur[p]] = "ok"
          /\ ans[p] = "rejected" => key[cur[p]] = "rejected"
    /\ \A s \in Seqs :
          /\ row[s] \in {"ok", "unreadable", "observed"} => key[s] = "ok"
          /\ row[s] = "rejected" => key[s] = "rejected"

\* The inductive invariant.
JournalInv ==
    /\ TypeOK
    /\ Dispatching
    /\ NeverSentProof
    /\ FirstSendAlone
    /\ Arrivals
    /\ KeyMeaning
    /\ OutcomeMeaning

\* The bounds are natural numbers.
LEMMA Bounds ==
    /\ MaxSeq \in Nat /\ MaxTime \in Nat /\ MaxAttempts \in Nat /\ MaxTakeovers \in Nat
    /\ ReplayWindow \in Nat /\ Margin \in Nat /\ KeyWindow \in Nat /\ Transit \in Nat
    /\ ReplayWindow - Margin + Transit <= KeyWindow
BY JournalAssumption

\* The arithmetic of the windows: an arriving request finds its key still
\* remembered, unless no request of the action has arrived before.
LEMMA ArrivalInTime ==
    ASSUME JournalInv, NEW m \in net, ~Remembers(m.id)
    PROVE  key[m.id] = "none"
<1> USE JournalAssumption
<1>1. m \in Request /\ m.id \in Seqs /\ m.sent \in Nat /\ now \in Nat
  BY DEF JournalInv, TypeOK, DbTypes, UpTypes, Request
<1>2. created[m.id] \in Nat /\ keyUntil[m.id] \in Nat
  BY <1>1 DEF JournalInv, TypeOK, DbTypes, UpTypes
<1>3. {ReplayWindow, Margin, KeyWindow, Transit} \subseteq Nat
  OBVIOUS
<1>4. now < created[m.id] + KeyWindow
  BY <1>1, <1>2, <1>3 DEF JournalInv, Arrivals
<1>5. key[m.id] # "none" => now < keyUntil[m.id]
  BY <1>1, <1>2, <1>3, <1>4 DEF JournalInv, KeyMeaning
<1> QED
  BY <1>5 DEF Remembers

\* What the mission has moved beyond is no longer pending.
LEMMA OutcomeKnown ==
    ASSUME JournalInv, NEW p \in Proc,
           \/ ReplanUnsentAction(p) \/ ConsumeResult(p) \/ ConsumeRejection(p) \/ ApplyReconciliation(p)
           \/ ReplanNeverSent(p) \/ ReconcileCommitted(p)
    PROVE  /\ pc[p] \in Busy /\ row[cur[p]] # "pending"
           /\ \E where \in {"idle", "down"} : Advance(p, where)
<1>1. CASE ReplanUnsentAction(p)
  BY <1>1 DEF ReplanUnsentAction, Advance, JournalInv, Dispatching, Busy
<1>2. CASE ConsumeResult(p) \/ ConsumeRejection(p) \/ ApplyReconciliation(p) \/ ReplanNeverSent(p) \/ ReconcileCommitted(p)
  BY <1>2 DEF ConsumeResult, ConsumeRejection, ApplyReconciliation, ReplanNeverSent, ReconcileCommitted, Outcome, Busy
<1> QED
  BY <1>1, <1>2

\* The steps, with the five ways to move on from an outcome taken together.
LEMMA StepCases ==
    ASSUME JournalInv, [Next]_vars
    PROVE  \/ \E p \in Proc :
                 \/ TakeOver(p) \/ StopSuperseded(p) \/ Stage(p) \/ LookUp(p) \/ RestampUnsentAction(p)
                 \/ BeginAction(p) \/ ResumePending(p) \/ Quarantine(p) \/ ReconcileObserved(p)
                 \/ HoldUnreadable(p) \/ VetoFirstSend(p) \/ Send(p) \/ StayUnresolved(p) \/ CompleteAction(p)
           \/ \E p \in Proc : \E where \in {"idle", "down"} :
                 pc[p] \in Busy /\ row[cur[p]] # "pending" /\ Advance(p, where)
           \/ \E m \in net : Arrive(m) \/ Replay(m) \/ Lose(m)
           \/ \E s \in Seqs : Finish(s) \/ Refuse(s) \/ ServerError(s)
           \/ Tick
           \/ UNCHANGED vars
BY OutcomeKnown DEF Next, Work, Upstream

\* Resetting a process keeps the types.
LEMMA AtTypes ==
    ASSUME ProcTypes, NEW p \in Proc, NEW where \in Place, At(p, where)
    PROVE  ProcTypes'
<1> USE Bounds DEF ProcTypes, At, Place, Decided
<1>1. pc' \in [Proc -> Place] /\ cur' \in [Proc -> 0..MaxSeq] /\ first' \in [Proc -> BOOLEAN]
  OBVIOUS
<1>2. tries' \in [Proc -> 0..MaxAttempts] /\ ans' \in [Proc -> Decided \cup {"none", "inflight"}]
  OBVIOUS
<1> QED
  BY <1>1, <1>2

\* The mission, the journal and the owner keep their types.
LEMMA DbTypesStep == ASSUME JournalInv, [Next]_vars PROVE DbTypes'
<1> USE Bounds, JournalAssumption DEF JournalInv, dbVars, procVars, upVars, TypeOK, DbTypes, RowState, Decided, Seqs, Busy
<1>1. ASSUME NEW p \in Proc, TakeOver(p) PROVE DbTypes'
  BY <1>1 DEF TakeOver, At
<1>2. ASSUME NEW p \in Proc, StopSuperseded(p) PROVE DbTypes'
  BY <1>2 DEF StopSuperseded, At
<1>3. ASSUME NEW p \in Proc, Stage(p) PROVE DbTypes'
  BY <1>3 DEF Stage
<1>4. ASSUME NEW p \in Proc, LookUp(p) PROVE DbTypes'
  BY <1>4 DEF LookUp
<1>5. ASSUME NEW p \in Proc, NEW where \in {"idle", "down"}, pc[p] \in Busy, row[cur[p]] # "pending", Advance(p, where)
      PROVE  DbTypes'
  <2>1. cur[p] \in Seqs
    BY <1>5 DEF Dispatching
  <2>2. seq' = cur[p] + 1 /\ staged' = FALSE /\ UNCHANGED <<now, owner, takeovers, row, created>>
    BY <1>5 DEF Advance
  <2>3. seq' \in 1..MaxSeq + 1
    BY ONLY <2>1, <2>2, Bounds DEF Seqs
  <2>4. /\ now' \in 0..MaxTime /\ owner' \in Proc \cup {None} /\ takeovers' \in 0..MaxTakeovers
        /\ row' \in [Seqs -> RowState] /\ created' \in [Seqs -> 0..MaxTime]
    BY <2>2
  <2> QED
    BY <2>2, <2>3, <2>4
<1>6. ASSUME NEW p \in Proc, RestampUnsentAction(p) PROVE DbTypes'
  BY <1>6 DEF RestampUnsentAction, At
<1>7. ASSUME NEW p \in Proc, BeginAction(p) PROVE DbTypes'
  BY <1>7 DEF BeginAction
<1>8. ASSUME NEW p \in Proc, ResumePending(p) PROVE DbTypes'
  BY <1>8 DEF ResumePending
<1>9. ASSUME NEW p \in Proc, Quarantine(p) PROVE DbTypes'
  BY <1>9 DEF Quarantine, At
<1>10. ASSUME NEW p \in Proc, ReconcileObserved(p) PROVE DbTypes'
  BY <1>10 DEF ReconcileObserved
<1>11. ASSUME NEW p \in Proc, HoldUnreadable(p) PROVE DbTypes'
  BY <1>11 DEF HoldUnreadable, At
<1>12. ASSUME NEW p \in Proc, VetoFirstSend(p) PROVE DbTypes'
  BY <1>12 DEF VetoFirstSend
<1>13. ASSUME NEW p \in Proc, Send(p) PROVE DbTypes'
  BY <1>13 DEF Send, BeforeCutoff
<1>14. ASSUME NEW p \in Proc, StayUnresolved(p) PROVE DbTypes'
  BY <1>14 DEF StayUnresolved, At
<1>15. ASSUME NEW p \in Proc, CompleteAction(p) PROVE DbTypes'
  BY <1>15 DEF CompleteAction, Disposition
<1>16. ASSUME NEW m \in net, Arrive(m) PROVE DbTypes'
  BY <1>16 DEF Arrive
<1>17. ASSUME NEW m \in net, Replay(m) PROVE DbTypes'
  BY <1>17 DEF Replay, Answer, Remembers
<1>18. ASSUME NEW m \in net, Lose(m) PROVE DbTypes'
  BY <1>18 DEF Lose
<1>19. ASSUME NEW s \in Seqs, Finish(s) PROVE DbTypes'
  BY <1>19 DEF Finish, Answer
<1>20. ASSUME NEW s \in Seqs, Refuse(s) PROVE DbTypes'
  BY <1>20 DEF Refuse, Answer
<1>21. ASSUME NEW s \in Seqs, ServerError(s) PROVE DbTypes'
  BY <1>21 DEF ServerError
<1>22. CASE Tick
  BY <1>22 DEF Tick
<1>23. CASE UNCHANGED vars
  BY <1>23 DEF vars
<1> QED
  BY ONLY <1>1, <1>2, <1>3, <1>4, <1>5, <1>6, <1>7, <1>8, <1>9, <1>10, <1>11, <1>12, <1>13, <1>14, <1>15, <1>16,
          <1>17, <1>18, <1>19, <1>20, <1>21, <1>22, <1>23, StepCases, JournalInv, [Next]_vars

\* The processes keep their types.
LEMMA ProcTypesStep == ASSUME JournalInv, [Next]_vars PROVE ProcTypes'
<1> USE Bounds, JournalAssumption DEF JournalInv, dbVars, procVars, upVars, TypeOK, ProcTypes, Place, Decided, Busy
<1>1. ASSUME NEW p \in Proc, TakeOver(p) PROVE ProcTypes'
  BY <1>1, AtTypes DEF TakeOver, Place
<1>2. ASSUME NEW p \in Proc, StopSuperseded(p) PROVE ProcTypes'
  BY <1>2, AtTypes DEF StopSuperseded, Place
<1>3. ASSUME NEW p \in Proc, Stage(p) PROVE ProcTypes'
  BY <1>3 DEF Stage
<1>4. ASSUME NEW p \in Proc, LookUp(p) PROVE ProcTypes'
  <2>1. seq \in 0..MaxSeq
    BY <1>4 DEF LookUp, Dispatching, Seqs
  <2> QED
    BY <1>4, <2>1 DEF LookUp
<1>5. ASSUME NEW p \in Proc, NEW where \in {"idle", "down"}, pc[p] \in Busy, row[cur[p]] # "pending", Advance(p, where)
      PROVE  ProcTypes'
  BY <1>5, AtTypes DEF Advance, Place
<1>6. ASSUME NEW p \in Proc, RestampUnsentAction(p) PROVE ProcTypes'
  BY <1>6, AtTypes DEF RestampUnsentAction, Place
<1>7. ASSUME NEW p \in Proc, BeginAction(p) PROVE ProcTypes'
  BY <1>7 DEF BeginAction
<1>8. ASSUME NEW p \in Proc, ResumePending(p) PROVE ProcTypes'
  BY <1>8 DEF ResumePending
<1>9. ASSUME NEW p \in Proc, Quarantine(p) PROVE ProcTypes'
  BY <1>9, AtTypes DEF Quarantine, Place
<1>10. ASSUME NEW p \in Proc, ReconcileObserved(p) PROVE ProcTypes'
  BY <1>10 DEF ReconcileObserved
<1>11. ASSUME NEW p \in Proc, HoldUnreadable(p) PROVE ProcTypes'
  BY <1>11, AtTypes DEF HoldUnreadable, Place
<1>12. ASSUME NEW p \in Proc, VetoFirstSend(p) PROVE ProcTypes'
  BY <1>12 DEF VetoFirstSend
<1>13. ASSUME NEW p \in Proc, Send(p) PROVE ProcTypes'
  BY <1>13 DEF Send, BeforeCutoff
<1>14. ASSUME NEW p \in Proc, StayUnresolved(p) PROVE ProcTypes'
  BY <1>14, AtTypes DEF StayUnresolved, Place
<1>15. ASSUME NEW p \in Proc, CompleteAction(p) PROVE ProcTypes'
  BY <1>15 DEF CompleteAction, Disposition
<1>16. ASSUME NEW m \in net, Arrive(m) PROVE ProcTypes'
  BY <1>16 DEF Arrive
<1>17. ASSUME NEW m \in net, Replay(m) PROVE ProcTypes'
  <2>1. m \in Request /\ key[m.id] \in {"none", "busy", "ok", "rejected"}
    BY DEF UpTypes, Request
  <2>2. (IF key[m.id] = "busy" THEN "inflight" ELSE key[m.id]) \in Decided \cup {"none", "inflight"}
    BY <2>1
  <2> QED
    BY <1>17, <2>2 DEF Replay, Answer
<1>18. ASSUME NEW m \in net, Lose(m) PROVE ProcTypes'
  BY <1>18 DEF Lose
<1>19. ASSUME NEW s \in Seqs, Finish(s) PROVE ProcTypes'
  BY <1>19 DEF Finish, Answer
<1>20. ASSUME NEW s \in Seqs, Refuse(s) PROVE ProcTypes'
  BY <1>20 DEF Refuse, Answer
<1>21. ASSUME NEW s \in Seqs, ServerError(s) PROVE ProcTypes'
  BY <1>21 DEF ServerError
<1>22. CASE Tick
  BY <1>22 DEF Tick
<1>23. CASE UNCHANGED vars
  BY <1>23 DEF vars
<1> QED
  BY ONLY <1>1, <1>2, <1>3, <1>4, <1>5, <1>6, <1>7, <1>8, <1>9, <1>10, <1>11, <1>12, <1>13, <1>14, <1>15, <1>16,
          <1>17, <1>18, <1>19, <1>20, <1>21, <1>22, <1>23, StepCases, JournalInv, [Next]_vars

\* The network and the upstream keep their types.
LEMMA UpTypesStep == ASSUME JournalInv, [Next]_vars PROVE UpTypes'
<1> USE Bounds, JournalAssumption DEF JournalInv, dbVars, procVars, upVars, TypeOK, UpTypes, Busy
<1>1. ASSUME NEW p \in Proc, TakeOver(p) PROVE UpTypes'
  BY <1>1 DEF TakeOver, At
<1>2. ASSUME NEW p \in Proc, StopSuperseded(p) PROVE UpTypes'
  BY <1>2 DEF StopSuperseded, At
<1>3. ASSUME NEW p \in Proc, Stage(p) PROVE UpTypes'
  BY <1>3 DEF Stage
<1>4. ASSUME NEW p \in Proc, LookUp(p) PROVE UpTypes'
  BY <1>4 DEF LookUp
<1>5. ASSUME NEW p \in Proc, NEW where \in {"idle", "down"}, pc[p] \in Busy, row[cur[p]] # "pending", Advance(p, where)
      PROVE  UpTypes'
  BY <1>5 DEF Advance, At
<1>6. ASSUME NEW p \in Proc, RestampUnsentAction(p) PROVE UpTypes'
  BY <1>6 DEF RestampUnsentAction, At
<1>7. ASSUME NEW p \in Proc, BeginAction(p) PROVE UpTypes'
  BY <1>7 DEF BeginAction
<1>8. ASSUME NEW p \in Proc, ResumePending(p) PROVE UpTypes'
  BY <1>8 DEF ResumePending
<1>9. ASSUME NEW p \in Proc, Quarantine(p) PROVE UpTypes'
  BY <1>9 DEF Quarantine, At
<1>10. ASSUME NEW p \in Proc, ReconcileObserved(p) PROVE UpTypes'
  BY <1>10 DEF ReconcileObserved
<1>11. ASSUME NEW p \in Proc, HoldUnreadable(p) PROVE UpTypes'
  BY <1>11 DEF HoldUnreadable, At
<1>12. ASSUME NEW p \in Proc, VetoFirstSend(p) PROVE UpTypes'
  BY <1>12 DEF VetoFirstSend
<1>13. ASSUME NEW p \in Proc, Send(p) PROVE UpTypes'
  <2>1. cur[p] \in Seqs /\ now \in 0..MaxTime
    BY <1>13 DEF Send, Dispatching, DbTypes
  <2>2. [id |-> cur[p], from |-> p, sent |-> now] \in Request
    BY <2>1 DEF Request
  <2> QED
    BY <1>13, <2>1, <2>2 DEF Send
<1>14. ASSUME NEW p \in Proc, StayUnresolved(p) PROVE UpTypes'
  BY <1>14 DEF StayUnresolved, At
<1>15. ASSUME NEW p \in Proc, CompleteAction(p) PROVE UpTypes'
  BY <1>15 DEF CompleteAction, Disposition
<1>16. ASSUME NEW m \in net, Arrive(m) PROVE UpTypes'
  <2>1. m \in Request /\ m.id \in Seqs /\ now + KeyWindow \in Nat
    BY DEF Request, DbTypes
  <2> QED
    BY <1>16, <2>1 DEF Arrive
<1>17. ASSUME NEW m \in net, Replay(m) PROVE UpTypes'
  BY <1>17 DEF Replay, Answer, Remembers
<1>18. ASSUME NEW m \in net, Lose(m) PROVE UpTypes'
  BY <1>18 DEF Lose
<1>19. ASSUME NEW s \in Seqs, Finish(s) PROVE UpTypes'
  BY <1>19 DEF Finish, Answer
<1>20. ASSUME NEW s \in Seqs, Refuse(s) PROVE UpTypes'
  BY <1>20 DEF Refuse, Answer
<1>21. ASSUME NEW s \in Seqs, ServerError(s) PROVE UpTypes'
  BY <1>21 DEF ServerError
<1>22. CASE Tick
  <2>1. net' \subseteq net
    BY <1>22 DEF Tick
  <2> QED
    BY <1>22, <2>1 DEF Tick
<1>23. CASE UNCHANGED vars
  BY <1>23 DEF vars
<1> QED
  BY ONLY <1>1, <1>2, <1>3, <1>4, <1>5, <1>6, <1>7, <1>8, <1>9, <1>10, <1>11, <1>12, <1>13, <1>14, <1>15, <1>16,
          <1>17, <1>18, <1>19, <1>20, <1>21, <1>22, <1>23, StepCases, JournalInv, [Next]_vars

\* An answer that reaches a process leaves it with the action it dispatches.
LEMMA AnswerKeepsDispatching ==
    ASSUME JournalInv, NEW m, NEW a, Answer(m, a), UNCHANGED <<owner, dbVars>>
    PROVE  Dispatching'
<1> USE DEF JournalInv, TypeOK, ProcTypes, Dispatching, Busy, Sending, dbVars
<1>1. CASE UNCHANGED procVars
  BY <1>1 DEF procVars
<1>2. CASE /\ pc[m.from] = "waiting"
           /\ pc' = [pc EXCEPT ![m.from] = "answered"]
           /\ UNCHANGED <<cur, first>>
  BY <1>2
<1> QED
  BY <1>1, <1>2 DEF Answer

\* A dispatch keeps to the mission's current action.
LEMMA DispatchingStep == ASSUME JournalInv, [Next]_vars PROVE Dispatching'
<1> USE Bounds, JournalAssumption DEF JournalInv, dbVars, procVars, upVars, TypeOK, DbTypes, ProcTypes, Dispatching, Busy, Sending, Seqs, Place, RowState, Decided
<1>1. ASSUME NEW p \in Proc, TakeOver(p) PROVE Dispatching'
  BY <1>1 DEF TakeOver, At
<1>2. ASSUME NEW p \in Proc, StopSuperseded(p) PROVE Dispatching'
  BY <1>2 DEF StopSuperseded, At
<1>3. ASSUME NEW p \in Proc, Stage(p) PROVE Dispatching'
  BY <1>3 DEF Stage
<1>4. ASSUME NEW p \in Proc, LookUp(p) PROVE Dispatching'
  BY <1>4 DEF LookUp
<1>5. ASSUME NEW p \in Proc, NEW where \in {"idle", "down"}, pc[p] \in Busy, row[cur[p]] # "pending", Advance(p, where)
      PROVE  Dispatching'
  <2>1. /\ cur[p] \in Seqs /\ cur[p] = seq /\ p = owner /\ seq \in Nat
        /\ seq' = seq + 1 /\ staged' = FALSE /\ UNCHANGED <<owner, row>>
    BY <1>5 DEF Advance
  <2>2. \A q \in Proc : q # p => pc'[q] = pc[q] /\ cur'[q] = cur[q] /\ first'[q] = first[q]
    BY <1>5 DEF Advance, At
  <2>3. pc'[p] \in {"idle", "down"}
    BY <1>5 DEF Advance, At
  <2>4. \A q \in Proc : pc[q] \in Busy => cur[q] \in Seqs /\ cur[q] \in Nat
    OBVIOUS
  <2>5. \A q \in Proc : pc'[q] \in Busy =>
           cur'[q] \in Seqs /\ cur'[q] < seq' /\ q # owner
    BY <2>1, <2>2, <2>3, <2>4
  <2>6. \A q \in Proc : pc'[q] \in Sending => row'[cur'[q]] \notin {"absent", "neversent"}
    BY <2>1, <2>2, <2>3
  <2>7. \A s \in Seqs : /\ seq' <= s => row'[s] = "absent"
                     /\ s < seq' => row'[s] # "pending"
    BY <1>5, <2>1
  <2> QED
    BY <2>1, <2>5, <2>6, <2>7
<1>6. ASSUME NEW p \in Proc, RestampUnsentAction(p) PROVE Dispatching'
  BY <1>6 DEF RestampUnsentAction, At
<1>7. ASSUME NEW p \in Proc, BeginAction(p) PROVE Dispatching'
  BY <1>7 DEF BeginAction
<1>8. ASSUME NEW p \in Proc, ResumePending(p) PROVE Dispatching'
  BY <1>8 DEF ResumePending
<1>9. ASSUME NEW p \in Proc, Quarantine(p) PROVE Dispatching'
  BY <1>9 DEF Quarantine, At
<1>10. ASSUME NEW p \in Proc, ReconcileObserved(p) PROVE Dispatching'
  BY <1>10 DEF ReconcileObserved
<1>11. ASSUME NEW p \in Proc, HoldUnreadable(p) PROVE Dispatching'
  BY <1>11 DEF HoldUnreadable, At
<1>12. ASSUME NEW p \in Proc, VetoFirstSend(p) PROVE Dispatching'
  BY <1>12 DEF VetoFirstSend, FirstSendAlone
<1>13. ASSUME NEW p \in Proc, Send(p) PROVE Dispatching'
  BY <1>13 DEF Send, BeforeCutoff
<1>14. ASSUME NEW p \in Proc, StayUnresolved(p) PROVE Dispatching'
  BY <1>14 DEF StayUnresolved, At
<1>15. ASSUME NEW p \in Proc, CompleteAction(p) PROVE Dispatching'
  BY <1>15 DEF CompleteAction, Disposition
<1>16. ASSUME NEW m \in net, Arrive(m) PROVE Dispatching'
  BY <1>16 DEF Arrive
<1>17. ASSUME NEW m \in net, Replay(m) PROVE Dispatching'
  BY <1>17 DEF Replay, Answer, Remembers
<1>18. ASSUME NEW m \in net, Lose(m) PROVE Dispatching'
  BY <1>18 DEF Lose
<1>19. ASSUME NEW s \in Seqs, Finish(s) PROVE Dispatching'
  BY <1>19, AnswerKeepsDispatching DEF Finish
<1>20. ASSUME NEW s \in Seqs, Refuse(s) PROVE Dispatching'
  BY <1>20, AnswerKeepsDispatching DEF Refuse
<1>21. ASSUME NEW s \in Seqs, ServerError(s) PROVE Dispatching'
  BY <1>21 DEF ServerError
<1>22. CASE Tick
  BY <1>22 DEF Tick
<1>23. CASE UNCHANGED vars
  BY <1>23 DEF vars
<1> QED
  BY ONLY <1>1, <1>2, <1>3, <1>4, <1>5, <1>6, <1>7, <1>8, <1>9, <1>10, <1>11, <1>12, <1>13, <1>14, <1>15, <1>16,
          <1>17, <1>18, <1>19, <1>20, <1>21, <1>22, <1>23, StepCases, JournalInv, [Next]_vars

\* A never-sent proof stays true.
LEMMA NeverSentStep == ASSUME JournalInv, [Next]_vars PROVE NeverSentProof'
<1> USE Bounds, JournalAssumption DEF JournalInv, dbVars, procVars, upVars, TypeOK, DbTypes, ProcTypes, Dispatching, NeverSentProof, FirstSendAlone, Busy, Sending, Decided
<1>1. ASSUME NEW p \in Proc, TakeOver(p) PROVE NeverSentProof'
  BY <1>1 DEF TakeOver, At
<1>2. ASSUME NEW p \in Proc, StopSuperseded(p) PROVE NeverSentProof'
  BY <1>2 DEF StopSuperseded, At
<1>3. ASSUME NEW p \in Proc, Stage(p) PROVE NeverSentProof'
  BY <1>3 DEF Stage
<1>4. ASSUME NEW p \in Proc, LookUp(p) PROVE NeverSentProof'
  BY <1>4 DEF LookUp
<1>5. ASSUME NEW p \in Proc, NEW where \in {"idle", "down"}, pc[p] \in Busy, row[cur[p]] # "pending", Advance(p, where)
      PROVE  NeverSentProof'
  BY <1>5 DEF Advance, At
<1>6. ASSUME NEW p \in Proc, RestampUnsentAction(p) PROVE NeverSentProof'
  BY <1>6 DEF RestampUnsentAction, At
<1>7. ASSUME NEW p \in Proc, BeginAction(p) PROVE NeverSentProof'
  BY <1>7 DEF BeginAction
<1>8. ASSUME NEW p \in Proc, ResumePending(p) PROVE NeverSentProof'
  BY <1>8 DEF ResumePending
<1>9. ASSUME NEW p \in Proc, Quarantine(p) PROVE NeverSentProof'
  BY <1>9 DEF Quarantine, At
<1>10. ASSUME NEW p \in Proc, ReconcileObserved(p) PROVE NeverSentProof'
  BY <1>10 DEF ReconcileObserved
<1>11. ASSUME NEW p \in Proc, HoldUnreadable(p) PROVE NeverSentProof'
  BY <1>11 DEF HoldUnreadable, At
<1>12. ASSUME NEW p \in Proc, VetoFirstSend(p) PROVE NeverSentProof'
  BY <1>12 DEF VetoFirstSend
<1>13. ASSUME NEW p \in Proc, Send(p) PROVE NeverSentProof'
  BY <1>13 DEF Send, BeforeCutoff
<1>14. ASSUME NEW p \in Proc, StayUnresolved(p) PROVE NeverSentProof'
  BY <1>14 DEF StayUnresolved, At
<1>15. ASSUME NEW p \in Proc, CompleteAction(p) PROVE NeverSentProof'
  BY <1>15 DEF CompleteAction, Disposition
<1>16. ASSUME NEW m \in net, Arrive(m) PROVE NeverSentProof'
  BY <1>16 DEF Arrive
<1>17. ASSUME NEW m \in net, Replay(m) PROVE NeverSentProof'
  BY <1>17 DEF Replay, Answer, Remembers
<1>18. ASSUME NEW m \in net, Lose(m) PROVE NeverSentProof'
  BY <1>18 DEF Lose
<1>19. ASSUME NEW s \in Seqs, Finish(s) PROVE NeverSentProof'
  BY <1>19 DEF Finish, Answer
<1>20. ASSUME NEW s \in Seqs, Refuse(s) PROVE NeverSentProof'
  BY <1>20 DEF Refuse, Answer
<1>21. ASSUME NEW s \in Seqs, ServerError(s) PROVE NeverSentProof'
  BY <1>21 DEF ServerError
<1>22. CASE Tick
  BY <1>22 DEF Tick
<1>23. CASE UNCHANGED vars
  BY <1>23 DEF vars
<1> QED
  BY ONLY <1>1, <1>2, <1>3, <1>4, <1>5, <1>6, <1>7, <1>8, <1>9, <1>10, <1>11, <1>12, <1>13, <1>14, <1>15, <1>16,
          <1>17, <1>18, <1>19, <1>20, <1>21, <1>22, <1>23, StepCases, JournalInv, [Next]_vars

\* A vetoable first send stays alone with its row.
LEMMA FirstSendStep == ASSUME JournalInv, [Next]_vars PROVE FirstSendAlone'
<1> USE Bounds, JournalAssumption DEF JournalInv, dbVars, procVars, upVars, TypeOK, DbTypes, ProcTypes, Dispatching, NeverSentProof, FirstSendAlone, Busy, Sending
<1>1. ASSUME NEW p \in Proc, TakeOver(p) PROVE FirstSendAlone'
  BY <1>1 DEF TakeOver, At
<1>2. ASSUME NEW p \in Proc, StopSuperseded(p) PROVE FirstSendAlone'
  BY <1>2 DEF StopSuperseded, At
<1>3. ASSUME NEW p \in Proc, Stage(p) PROVE FirstSendAlone'
  BY <1>3 DEF Stage
<1>4. ASSUME NEW p \in Proc, LookUp(p) PROVE FirstSendAlone'
  BY <1>4 DEF LookUp
<1>5. ASSUME NEW p \in Proc, NEW where \in {"idle", "down"}, pc[p] \in Busy, row[cur[p]] # "pending", Advance(p, where)
      PROVE  FirstSendAlone'
  BY <1>5 DEF Advance, At
<1>6. ASSUME NEW p \in Proc, RestampUnsentAction(p) PROVE FirstSendAlone'
  BY <1>6 DEF RestampUnsentAction, At
<1>7. ASSUME NEW p \in Proc, BeginAction(p) PROVE FirstSendAlone'
  BY <1>7 DEF BeginAction
<1>8. ASSUME NEW p \in Proc, ResumePending(p) PROVE FirstSendAlone'
  BY <1>8 DEF ResumePending
<1>9. ASSUME NEW p \in Proc, Quarantine(p) PROVE FirstSendAlone'
  BY <1>9 DEF Quarantine, At
<1>10. ASSUME NEW p \in Proc, ReconcileObserved(p) PROVE FirstSendAlone'
  BY <1>10 DEF ReconcileObserved
<1>11. ASSUME NEW p \in Proc, HoldUnreadable(p) PROVE FirstSendAlone'
  BY <1>11 DEF HoldUnreadable, At
<1>12. ASSUME NEW p \in Proc, VetoFirstSend(p) PROVE FirstSendAlone'
  BY <1>12 DEF VetoFirstSend
<1>13. ASSUME NEW p \in Proc, Send(p) PROVE FirstSendAlone'
  BY <1>13 DEF Send, BeforeCutoff
<1>14. ASSUME NEW p \in Proc, StayUnresolved(p) PROVE FirstSendAlone'
  BY <1>14 DEF StayUnresolved, At
<1>15. ASSUME NEW p \in Proc, CompleteAction(p) PROVE FirstSendAlone'
  BY <1>15 DEF CompleteAction, Disposition
<1>16. ASSUME NEW m \in net, Arrive(m) PROVE FirstSendAlone'
  BY <1>16 DEF Arrive
<1>17. ASSUME NEW m \in net, Replay(m) PROVE FirstSendAlone'
  BY <1>17 DEF Replay, Answer, Remembers
<1>18. ASSUME NEW m \in net, Lose(m) PROVE FirstSendAlone'
  BY <1>18 DEF Lose
<1>19. ASSUME NEW s \in Seqs, Finish(s) PROVE FirstSendAlone'
  BY <1>19 DEF Finish, Answer
<1>20. ASSUME NEW s \in Seqs, Refuse(s) PROVE FirstSendAlone'
  BY <1>20 DEF Refuse, Answer
<1>21. ASSUME NEW s \in Seqs, ServerError(s) PROVE FirstSendAlone'
  BY <1>21 DEF ServerError
<1>22. CASE Tick
  BY <1>22 DEF Tick
<1>23. CASE UNCHANGED vars
  BY <1>23 DEF vars
<1> QED
  BY ONLY <1>1, <1>2, <1>3, <1>4, <1>5, <1>6, <1>7, <1>8, <1>9, <1>10, <1>11, <1>12, <1>13, <1>14, <1>15, <1>16,
          <1>17, <1>18, <1>19, <1>20, <1>21, <1>22, <1>23, StepCases, JournalInv, [Next]_vars

\* A request under way stays within its time.
LEMMA ArrivalsStep == ASSUME JournalInv, [Next]_vars PROVE Arrivals'
<1> USE Bounds, JournalAssumption DEF JournalInv, dbVars, procVars, upVars, TypeOK, DbTypes, ProcTypes, UpTypes, Dispatching, NeverSentProof, Arrivals, Busy, Sending, Request
<1>1. ASSUME NEW p \in Proc, TakeOver(p) PROVE Arrivals'
  BY <1>1 DEF TakeOver, At
<1>2. ASSUME NEW p \in Proc, StopSuperseded(p) PROVE Arrivals'
  BY <1>2 DEF StopSuperseded, At
<1>3. ASSUME NEW p \in Proc, Stage(p) PROVE Arrivals'
  BY <1>3 DEF Stage
<1>4. ASSUME NEW p \in Proc, LookUp(p) PROVE Arrivals'
  BY <1>4 DEF LookUp
<1>5. ASSUME NEW p \in Proc, NEW where \in {"idle", "down"}, pc[p] \in Busy, row[cur[p]] # "pending", Advance(p, where)
      PROVE  Arrivals'
  BY <1>5 DEF Advance, At
<1>6. ASSUME NEW p \in Proc, RestampUnsentAction(p) PROVE Arrivals'
  BY <1>6 DEF RestampUnsentAction, At
<1>7. ASSUME NEW p \in Proc, BeginAction(p) PROVE Arrivals'
  BY <1>7 DEF BeginAction
<1>8. ASSUME NEW p \in Proc, ResumePending(p) PROVE Arrivals'
  BY <1>8 DEF ResumePending
<1>9. ASSUME NEW p \in Proc, Quarantine(p) PROVE Arrivals'
  BY <1>9 DEF Quarantine, At
<1>10. ASSUME NEW p \in Proc, ReconcileObserved(p) PROVE Arrivals'
  BY <1>10 DEF ReconcileObserved
<1>11. ASSUME NEW p \in Proc, HoldUnreadable(p) PROVE Arrivals'
  BY <1>11 DEF HoldUnreadable, At
<1>12. ASSUME NEW p \in Proc, VetoFirstSend(p) PROVE Arrivals'
  BY <1>12 DEF VetoFirstSend
<1>13. ASSUME NEW p \in Proc, Send(p) PROVE Arrivals'
  BY <1>13 DEF Send, BeforeCutoff
<1>14. ASSUME NEW p \in Proc, StayUnresolved(p) PROVE Arrivals'
  BY <1>14 DEF StayUnresolved, At
<1>15. ASSUME NEW p \in Proc, CompleteAction(p) PROVE Arrivals'
  BY <1>15 DEF CompleteAction, Disposition
<1>16. ASSUME NEW m \in net, Arrive(m) PROVE Arrivals'
  BY <1>16 DEF Arrive
<1>17. ASSUME NEW m \in net, Replay(m) PROVE Arrivals'
  BY <1>17 DEF Replay, Answer, Remembers
<1>18. ASSUME NEW m \in net, Lose(m) PROVE Arrivals'
  BY <1>18 DEF Lose
<1>19. ASSUME NEW s \in Seqs, Finish(s) PROVE Arrivals'
  BY <1>19 DEF Finish, Answer
<1>20. ASSUME NEW s \in Seqs, Refuse(s) PROVE Arrivals'
  BY <1>20 DEF Refuse, Answer
<1>21. ASSUME NEW s \in Seqs, ServerError(s) PROVE Arrivals'
  BY <1>21 DEF ServerError
<1>22. CASE Tick
  BY <1>22 DEF Tick
<1>23. CASE UNCHANGED vars
  BY <1>23 DEF vars
<1> QED
  BY ONLY <1>1, <1>2, <1>3, <1>4, <1>5, <1>6, <1>7, <1>8, <1>9, <1>10, <1>11, <1>12, <1>13, <1>14, <1>15, <1>16,
          <1>17, <1>18, <1>19, <1>20, <1>21, <1>22, <1>23, StepCases, JournalInv, [Next]_vars

\* A key keeps its meaning.
LEMMA KeyMeaningStep == ASSUME JournalInv, [Next]_vars PROVE KeyMeaning'
<1> USE Bounds, JournalAssumption DEF JournalInv, dbVars, procVars, upVars, TypeOK, DbTypes, ProcTypes, UpTypes, Dispatching, NeverSentProof, KeyMeaning, Busy, Sending
<1>1. ASSUME NEW p \in Proc, TakeOver(p) PROVE KeyMeaning'
  BY <1>1 DEF TakeOver, At
<1>2. ASSUME NEW p \in Proc, StopSuperseded(p) PROVE KeyMeaning'
  BY <1>2 DEF StopSuperseded, At
<1>3. ASSUME NEW p \in Proc, Stage(p) PROVE KeyMeaning'
  BY <1>3 DEF Stage
<1>4. ASSUME NEW p \in Proc, LookUp(p) PROVE KeyMeaning'
  BY <1>4 DEF LookUp
<1>5. ASSUME NEW p \in Proc, NEW where \in {"idle", "down"}, pc[p] \in Busy, row[cur[p]] # "pending", Advance(p, where)
      PROVE  KeyMeaning'
  BY <1>5 DEF Advance, At
<1>6. ASSUME NEW p \in Proc, RestampUnsentAction(p) PROVE KeyMeaning'
  BY <1>6 DEF RestampUnsentAction, At
<1>7. ASSUME NEW p \in Proc, BeginAction(p) PROVE KeyMeaning'
  BY <1>7 DEF BeginAction
<1>8. ASSUME NEW p \in Proc, ResumePending(p) PROVE KeyMeaning'
  BY <1>8 DEF ResumePending
<1>9. ASSUME NEW p \in Proc, Quarantine(p) PROVE KeyMeaning'
  BY <1>9 DEF Quarantine, At
<1>10. ASSUME NEW p \in Proc, ReconcileObserved(p) PROVE KeyMeaning'
  BY <1>10 DEF ReconcileObserved
<1>11. ASSUME NEW p \in Proc, HoldUnreadable(p) PROVE KeyMeaning'
  BY <1>11 DEF HoldUnreadable, At
<1>12. ASSUME NEW p \in Proc, VetoFirstSend(p) PROVE KeyMeaning'
  BY <1>12 DEF VetoFirstSend
<1>13. ASSUME NEW p \in Proc, Send(p) PROVE KeyMeaning'
  BY <1>13 DEF Send, BeforeCutoff
<1>14. ASSUME NEW p \in Proc, StayUnresolved(p) PROVE KeyMeaning'
  BY <1>14 DEF StayUnresolved, At
<1>15. ASSUME NEW p \in Proc, CompleteAction(p) PROVE KeyMeaning'
  BY <1>15 DEF CompleteAction, Disposition
<1>16. ASSUME NEW m \in net, Arrive(m) PROVE KeyMeaning'
  <2>1. key[m.id] = "none" /\ m \in Request /\ m.id \in Seqs /\ m.id \in attempted
    BY <1>16, ArrivalInTime DEF Arrive, Arrivals, Request
  <2>2. /\ m.sent \in Nat /\ now \in Nat /\ created[m.id] \in Nat /\ created[m.id] <= now
    BY <2>1 DEF Request
  <2>3. \A s \in Seqs : s # m.id => key'[s] = key[s] /\ keyUntil'[s] = keyUntil[s] /\ job'[s] = job[s]
    BY <1>16 DEF Arrive
  <2>4. key'[m.id] = "busy" /\ keyUntil'[m.id] = now + KeyWindow /\ job'[m.id] = m
    BY <1>16, <2>1 DEF Arrive
  <2>5. effects[m.id] = 0 /\ UNCHANGED <<now, created, attempted, effects>>
    BY <1>16, <2>1 DEF Arrive
  <2> QED
    BY <2>1, <2>2, <2>3, <2>4, <2>5
<1>17. ASSUME NEW m \in net, Replay(m) PROVE KeyMeaning'
  BY <1>17 DEF Replay, Answer, Remembers
<1>18. ASSUME NEW m \in net, Lose(m) PROVE KeyMeaning'
  BY <1>18 DEF Lose
<1>19. ASSUME NEW s \in Seqs, Finish(s) PROVE KeyMeaning'
  BY <1>19 DEF Finish, Answer
<1>20. ASSUME NEW s \in Seqs, Refuse(s) PROVE KeyMeaning'
  BY <1>20 DEF Refuse, Answer
<1>21. ASSUME NEW s \in Seqs, ServerError(s) PROVE KeyMeaning'
  BY <1>21 DEF ServerError
<1>22. CASE Tick
  BY <1>22 DEF Tick
<1>23. CASE UNCHANGED vars
  BY <1>23 DEF vars
<1> QED
  BY ONLY <1>1, <1>2, <1>3, <1>4, <1>5, <1>6, <1>7, <1>8, <1>9, <1>10, <1>11, <1>12, <1>13, <1>14, <1>15, <1>16,
          <1>17, <1>18, <1>19, <1>20, <1>21, <1>22, <1>23, StepCases, JournalInv, [Next]_vars

\* Answers and stored outcomes stay true.
LEMMA OutcomeMeaningStep == ASSUME JournalInv, [Next]_vars PROVE OutcomeMeaning'
<1> USE Bounds, JournalAssumption DEF JournalInv, dbVars, procVars, upVars, TypeOK, ProcTypes, UpTypes, Dispatching, NeverSentProof, KeyMeaning, OutcomeMeaning, Busy, Sending, Decided, Request
<1>1. ASSUME NEW p \in Proc, TakeOver(p) PROVE OutcomeMeaning'
  BY <1>1 DEF TakeOver, At
<1>2. ASSUME NEW p \in Proc, StopSuperseded(p) PROVE OutcomeMeaning'
  BY <1>2 DEF StopSuperseded, At
<1>3. ASSUME NEW p \in Proc, Stage(p) PROVE OutcomeMeaning'
  BY <1>3 DEF Stage
<1>4. ASSUME NEW p \in Proc, LookUp(p) PROVE OutcomeMeaning'
  BY <1>4 DEF LookUp
<1>5. ASSUME NEW p \in Proc, NEW where \in {"idle", "down"}, pc[p] \in Busy, row[cur[p]] # "pending", Advance(p, where)
      PROVE  OutcomeMeaning'
  BY <1>5 DEF Advance, At
<1>6. ASSUME NEW p \in Proc, RestampUnsentAction(p) PROVE OutcomeMeaning'
  BY <1>6 DEF RestampUnsentAction, At
<1>7. ASSUME NEW p \in Proc, BeginAction(p) PROVE OutcomeMeaning'
  BY <1>7 DEF BeginAction
<1>8. ASSUME NEW p \in Proc, ResumePending(p) PROVE OutcomeMeaning'
  BY <1>8 DEF ResumePending
<1>9. ASSUME NEW p \in Proc, Quarantine(p) PROVE OutcomeMeaning'
  BY <1>9 DEF Quarantine, At
<1>10. ASSUME NEW p \in Proc, ReconcileObserved(p) PROVE OutcomeMeaning'
  BY <1>10 DEF ReconcileObserved
<1>11. ASSUME NEW p \in Proc, HoldUnreadable(p) PROVE OutcomeMeaning'
  BY <1>11 DEF HoldUnreadable, At
<1>12. ASSUME NEW p \in Proc, VetoFirstSend(p) PROVE OutcomeMeaning'
  BY <1>12 DEF VetoFirstSend
<1>13. ASSUME NEW p \in Proc, Send(p) PROVE OutcomeMeaning'
  BY <1>13 DEF Send, BeforeCutoff
<1>14. ASSUME NEW p \in Proc, StayUnresolved(p) PROVE OutcomeMeaning'
  BY <1>14 DEF StayUnresolved, At
<1>15. ASSUME NEW p \in Proc, CompleteAction(p) PROVE OutcomeMeaning'
  BY <1>15 DEF CompleteAction, Disposition
<1>16. ASSUME NEW m \in net, Arrive(m) PROVE OutcomeMeaning'
  <2>1. key[m.id] = "none"
    BY <1>16, ArrivalInTime DEF Arrive
  <2> QED
    BY <1>16, <2>1 DEF Arrive, Arrivals, Request
<1>17. ASSUME NEW m \in net, Replay(m) PROVE OutcomeMeaning'
  BY <1>17 DEF Replay, Answer, Remembers
<1>18. ASSUME NEW m \in net, Lose(m) PROVE OutcomeMeaning'
  BY <1>18 DEF Lose
<1>19. ASSUME NEW s \in Seqs, Finish(s) PROVE OutcomeMeaning'
  BY <1>19 DEF Finish, Answer
<1>20. ASSUME NEW s \in Seqs, Refuse(s) PROVE OutcomeMeaning'
  BY <1>20 DEF Refuse, Answer
<1>21. ASSUME NEW s \in Seqs, ServerError(s) PROVE OutcomeMeaning'
  BY <1>21 DEF ServerError
<1>22. CASE Tick
  BY <1>22 DEF Tick
<1>23. CASE UNCHANGED vars
  BY <1>23 DEF vars
<1> QED
  BY ONLY <1>1, <1>2, <1>3, <1>4, <1>5, <1>6, <1>7, <1>8, <1>9, <1>10, <1>11, <1>12, <1>13, <1>14, <1>15, <1>16,
          <1>17, <1>18, <1>19, <1>20, <1>21, <1>22, <1>23, StepCases, JournalInv, [Next]_vars

\* Every initial state satisfies the invariant.
LEMMA JournalInvInit == Init => JournalInv
<1> SUFFICES ASSUME Init PROVE JournalInv
  OBVIOUS
<1> USE Bounds DEF Init
<1>1. DbTypes
  <2>1. row \in [Seqs -> RowState] /\ created \in [Seqs -> 0..MaxTime]
    BY DEF RowState
  <2>2. 0 \in 0..MaxTime /\ 0 \in 0..MaxTakeovers /\ 1 \in 1..(MaxSeq + 1)
    OBVIOUS
  <2> QED
    BY <2>1, <2>2 DEF DbTypes
<1>2. ProcTypes
  BY DEF ProcTypes, Place, Decided
<1>3. UpTypes
  BY DEF UpTypes
<1>4. Dispatching
  BY DEF Dispatching, Busy, Sending
<1>5. NeverSentProof /\ FirstSendAlone /\ Arrivals
  BY DEF NeverSentProof, FirstSendAlone, Arrivals
<1>6. KeyMeaning
  BY DEF KeyMeaning
<1>7. OutcomeMeaning
  BY DEF OutcomeMeaning
<1> QED
  BY <1>1, <1>2, <1>3, <1>4, <1>5, <1>6, <1>7 DEF JournalInv, TypeOK

\* Every step preserves it.
LEMMA JournalInvNext == JournalInv /\ [Next]_vars => JournalInv'
BY DbTypesStep, ProcTypesStep, UpTypesStep, DispatchingStep, NeverSentStep, FirstSendStep, ArrivalsStep,
   KeyMeaningStep, OutcomeMeaningStep
DEF JournalInv, TypeOK

\* The invariant holds in every reachable state of dispatch, the journal and
\* the upstream.
THEOREM JournalInvariant == Spec => []JournalInv
<1>1. Init => JournalInv
  BY JournalInvInit
<1>2. JournalInv /\ [Next]_vars => JournalInv'
  BY JournalInvNext
<1> QED
  BY <1>1, <1>2, PTL DEF Spec

\* However often, by whom and how late a mutation is resent by dispatch, and
\* whatever is lost on the way, the upstream carries it out at most once.
THEOREM AtMostOneEffectHolds == Spec => []AtMostOneEffect
<1>1. JournalInv => AtMostOneEffect
  BY DEF JournalInv, KeyMeaning, AtMostOneEffect
<1> QED
  BY <1>1, JournalInvariant, PTL

\* A journal row that says "never sent" (MarkActionNeverSent) is right, and no
\* request is sent before BeginAction stored its row.
THEOREM NeverSentProofHolds == Spec => []NeverSentProof
<1>1. JournalInv => NeverSentProof
  BY DEF JournalInv
<1> QED
  BY <1>1, JournalInvariant, PTL

\* An action the mission has moved beyond was carried out exactly if its
\* journal row says so.
THEOREM LedgerTrueHolds == Spec => []LedgerTrue
<1>1. ASSUME JournalInv PROVE LedgerTrue
  <2> SUFFICES ASSUME NEW s \in Seqs, s < seq
               PROVE  effects[s] = 1 <=> row[s] \in {"ok", "unreadable", "observed"}
    BY DEF LedgerTrue
  <2>1. row[s] \in RowState /\ row[s] # "pending"
    BY <1>1 DEF JournalInv, TypeOK, DbTypes, Dispatching
  <2>2. row[s] \in {"absent", "neversent"} => key[s] = "none"
    BY <1>1 DEF JournalInv, NeverSentProof, KeyMeaning
  <2>3. effects[s] = 1 <=> key[s] = "ok"
    BY <1>1 DEF JournalInv, KeyMeaning
  <2>4. /\ row[s] \in {"ok", "unreadable", "observed"} => key[s] = "ok"
        /\ row[s] = "rejected" => key[s] = "rejected"
    BY <1>1 DEF JournalInv, OutcomeMeaning
  <2> QED
    BY <2>1, <2>2, <2>3, <2>4 DEF RowState
<1> QED
  BY <1>1, JournalInvariant, PTL

\* Only the action attached to the mission, or one it has moved beyond, has
\* ever been sent.
THEOREM OneOutstandingActionHolds == Spec => []OneOutstandingAction
<1>1. ASSUME JournalInv PROVE OneOutstandingAction
  <2> SUFFICES ASSUME NEW s \in attempted PROVE s < seq \/ (s = seq /\ staged)
    BY DEF OneOutstandingAction
  <2>1. s \in Seqs /\ s \in Nat /\ seq \in Nat
    BY <1>1, Bounds DEF JournalInv, TypeOK, UpTypes, DbTypes, Seqs
  <2>2. row[s] # "absent"
    BY <1>1, <2>1 DEF JournalInv, NeverSentProof
  <2> QED
    BY <1>1, <2>1, <2>2 DEF JournalInv, Dispatching
<1> QED
  BY <1>1, JournalInvariant, PTL

-----------------------------------------------------------------------------
(* Registration: each intent is carried out once                             *)

Replies == {"none", "busy", "ok", "rejected", "throttled"}

\* A request is at the upstream only for the pending intent the command is at.
SendingOK ==
    sending => /\ at \in Acts /\ intents[at] = "pending" /\ at \notin aged

\* What was carried out has its answer kept, or is too old to be begun again.
CarriedOnce(a) ==
    /\ carried[a] \in {0, 1}
    /\ reply[a] \in {"busy", "rejected", "throttled"} => carried[a] = 0
    /\ reply[a] = "none" /\ carried[a] = 1 => a \in aged
    /\ a \in aged => intents[a] # "absent"
    /\ intents[a] = "throttled" => carried[a] = 0 /\ reply[a] # "busy"

IntentInv ==
    /\ reply \in [Acts -> Replies] /\ carried \in [Acts -> Nat]
    /\ intents \in [Acts -> {"absent", "pending", "ok", "rejected", "throttled"}]
    /\ aged \subseteq Acts /\ SendingOK
    /\ \A a \in Acts : CarriedOnce(a)

LEMMA PointsAreNoActs == Points \cap Acts = {}
BY RegistrationAssumption DEF Points, Acts, Steps

LEMMA IntentInvInit == RegistrationInit => IntentInv
BY DEF RegistrationInit, IntentInv, SendingOK, CarriedOnce, Replies

\* The steps of the commands that leave the journal and the upstream alone.
LEMMA CommandSteps ==
    ASSUME IntentInv, StartRegister \/ SaveKey \/ LoadProfile \/ BindCompany \/ SaveObserver \/ RetireMint
                      \/ StartUnderworldKey \/ Fail \/ Revoke \/ \E a \in Acts : UseStored(a) \/ Conflict(a)
    PROVE  IntentInv'
<1>1. UNCHANGED <<intents, aged, reply, carried>>
    BY DEF StartRegister, SaveKey, LoadProfile, BindCompany, SaveObserver, RetireMint, StartUnderworldKey, Fail,
           Revoke, UseStored, Conflict, rgUpVars
<1>2. sending' => sending /\ at' = at
    BY PointsAreNoActs DEF IntentInv, SendingOK, Points, StartRegister, SaveKey, LoadProfile, BindCompany, SaveObserver,
       RetireMint, StartUnderworldKey, Fail, Revoke, UseStored, Conflict
<1> QED BY <1>1, <1>2 DEF IntentInv, SendingOK, CarriedOnce

LEMMA BeginStep ==
    ASSUME IntentInv, NEW a \in Acts, Begin(a) \/ BeginAfterThrottle(a)
    PROVE  IntentInv'
<1>1. /\ at = a /\ at' = a /\ sending' = TRUE /\ carried' = carried
      /\ intents' = [intents EXCEPT ![a] = "pending"]
    BY DEF Begin, BeginAfterThrottle, rgUpVars
<1>2. /\ intents' \in [Acts -> {"absent", "pending", "ok", "rejected", "throttled"}]
      /\ intents'[a] = "pending" /\ \A b \in Acts \ {a} : intents'[b] = intents[b]
    BY <1>1 DEF IntentInv
<1>3. CASE Begin(a)
    <2>1. UNCHANGED <<aged, reply>> /\ MayBegin(a)
        BY <1>3 DEF Begin, rgUpVars
    <2>2. a \notin aged
        BY <2>1 DEF MayBegin, IntentInv, CarriedOnce
    <2>3. SendingOK'
        BY <1>1, <1>2, <2>1, <2>2 DEF SendingOK
    <2>4. \A b \in Acts : CarriedOnce(b)'
        BY <1>1, <1>2, <2>1 DEF IntentInv, CarriedOnce
    <2> QED BY <1>1, <1>2, <2>1, <2>3, <2>4 DEF IntentInv
<1>4. CASE BeginAfterThrottle(a)
    <2>1. intents[a] = "throttled" /\ reply' = [reply EXCEPT ![a] = "none"] /\ aged' = aged \ {a}
        BY <1>4 DEF BeginAfterThrottle
    <2>2. carried[a] = 0
        BY <2>1 DEF IntentInv, CarriedOnce
    <2>3. SendingOK'
        BY <1>1, <1>2, <2>1 DEF SendingOK
    <2>4. /\ reply' \in [Acts -> Replies] /\ reply'[a] = "none"
          /\ \A b \in Acts \ {a} : reply'[b] = reply[b]
        BY <2>1 DEF IntentInv, Replies
    <2>5. \A b \in Acts : CarriedOnce(b)'
        BY <1>1, <1>2, <2>1, <2>2, <2>4 DEF IntentInv, CarriedOnce
    <2> QED BY <1>1, <1>2, <2>1, <2>3, <2>4, <2>5 DEF IntentInv
<1> QED BY <1>3, <1>4

LEMMA CompleteIntentStep ==
    ASSUME IntentInv, NEW a \in Acts, CompleteIntent(a)
    PROVE  IntentInv'
<1>1. /\ reply[a] \in {"ok", "rejected", "throttled"} /\ sending' = FALSE
      /\ intents' = [intents EXCEPT ![a] = reply[a]] /\ UNCHANGED <<aged, reply, carried>>
    BY DEF CompleteIntent, rgUpVars
<1>2. /\ intents' \in [Acts -> {"absent", "pending", "ok", "rejected", "throttled"}]
      /\ intents'[a] = reply[a] /\ \A b \in Acts \ {a} : intents'[b] = intents[b]
    BY <1>1 DEF IntentInv
<1>3. \A b \in Acts : CarriedOnce(b)'
    BY <1>1, <1>2 DEF IntentInv, CarriedOnce
<1> QED BY <1>1, <1>2, <1>3 DEF IntentInv, SendingOK

LEMMA UpstreamSteps ==
    ASSUME IntentInv, NEW a \in Acts,
           Age(a) \/ ReachUpstream(a) \/ Carry(a) \/ RefuseIntent(a) \/ ForgetKey(a)
    PROVE  IntentInv'
<1>1. CASE Age(a)
    <2>1. intents[a] = "pending" /\ ~sending /\ aged' = aged \cup {a} /\ UNCHANGED <<intents, at, sending, reply, carried>>
        BY <1>1 DEF Age, rgUpVars
    <2> QED BY <2>1 DEF IntentInv, SendingOK, CarriedOnce
<1>2. CASE ReachUpstream(a)
    <2>1. /\ at = a /\ sending /\ reply[a] = "none" /\ reply' = [reply EXCEPT ![a] = "busy"]
          /\ UNCHANGED <<intents, aged, at, sending, carried>>
        BY <1>2 DEF ReachUpstream
    <2>2. /\ reply' \in [Acts -> Replies] /\ reply'[a] = "busy"
          /\ \A b \in Acts \ {a} : reply'[b] = reply[b]
        BY <2>1 DEF IntentInv, Replies
    <2>3. intents[a] = "pending" /\ a \notin aged
        BY <2>1 DEF IntentInv, SendingOK
    <2>4. carried[a] = 0
        BY <2>1, <2>3 DEF IntentInv, CarriedOnce
    <2> QED BY <2>1, <2>2, <2>3, <2>4 DEF IntentInv, SendingOK, CarriedOnce
<1>3. CASE Carry(a)
    <2>1. /\ reply[a] = "busy" /\ reply' = [reply EXCEPT ![a] = "ok"]
          /\ carried' = [carried EXCEPT ![a] = carried[a] + 1]
          /\ UNCHANGED <<intents, aged, at, sending>>
        BY <1>3 DEF Carry
    <2>2. carried[a] = 0 /\ intents[a] # "throttled"
        BY <2>1 DEF IntentInv, CarriedOnce
    <2>3. /\ reply' \in [Acts -> Replies] /\ reply'[a] = "ok"
          /\ \A b \in Acts \ {a} : reply'[b] = reply[b]
        BY <2>1 DEF IntentInv, Replies
    <2>4. /\ carried' \in [Acts -> Nat] /\ carried'[a] = 1
          /\ \A b \in Acts \ {a} : carried'[b] = carried[b]
        BY <2>1, <2>2 DEF IntentInv
    <2> QED BY <2>1, <2>2, <2>3, <2>4 DEF IntentInv, SendingOK, CarriedOnce
<1>4. CASE RefuseIntent(a)
    <2>1. PICK answer \in {"rejected", "throttled"} : reply' = [reply EXCEPT ![a] = answer]
        BY <1>4 DEF RefuseIntent
    <2>2. reply[a] = "busy" /\ UNCHANGED <<intents, aged, at, sending, carried>>
        BY <1>4 DEF RefuseIntent
    <2>3. carried[a] = 0
        BY <2>2 DEF IntentInv, CarriedOnce
    <2>4. /\ reply' \in [Acts -> Replies] /\ reply'[a] = answer
          /\ \A b \in Acts \ {a} : reply'[b] = reply[b]
        BY <2>1 DEF IntentInv, Replies
    <2> QED BY <2>2, <2>3, <2>4 DEF IntentInv, SendingOK, CarriedOnce
<1>5. CASE ForgetKey(a)
    <2>1. /\ a \in aged /\ reply' = [reply EXCEPT ![a] = "none"]
          /\ UNCHANGED <<intents, aged, at, sending, carried>>
        BY <1>5 DEF ForgetKey
    <2>2. /\ reply' \in [Acts -> Replies] /\ reply'[a] = "none"
          /\ \A b \in Acts \ {a} : reply'[b] = reply[b]
        BY <2>1 DEF IntentInv, Replies
    <2> QED BY <2>1, <2>2 DEF IntentInv, SendingOK, CarriedOnce
<1> QED BY <1>1, <1>2, <1>3, <1>4, <1>5

LEMMA IntentInvStep == IntentInv /\ [RegistrationNext]_rgvars => IntentInv'
<1> SUFFICES ASSUME IntentInv, [RegistrationNext]_rgvars PROVE IntentInv'
    OBVIOUS
<1>1. CASE RegistrationNext
    BY <1>1, CommandSteps, BeginStep, CompleteIntentStep, UpstreamSteps DEF RegistrationNext, Command, Register
<1>2. CASE UNCHANGED rgvars
    BY <1>2 DEF rgvars, rgUpVars, IntentInv, SendingOK, CarriedOnce
<1> QED BY <1>1, <1>2

\* What was carried out is never sent for again.
THEOREM IntentInvHolds == RegistrationSpec => []IntentInv
BY IntentInvInit, IntentInvStep, PTL DEF RegistrationSpec

\* However often the commands are run again, each intent is carried out once.
THEOREM EachIntentOnceHolds == RegistrationSpec => []EachIntentOnce
<1>1. IntentInv => EachIntentOnce
    BY DEF IntentInv, CarriedOnce, EachIntentOnce
<1> QED BY <1>1, IntentInvHolds, PTL

-----------------------------------------------------------------------------
(* Marques: never two letters in force                                       *)

\* The letters are numbered from 1 and were issued in the past.
LettersOK ==
    /\ clock \in Nat
    /\ \E n \in Nat : letters \in [1..n -> [issued : Nat, prize : Nat]]
    /\ \A l \in Letters : letters[l].issued <= clock

\* A list is of the past, and has every letter old enough that was not
\* remembered already.
ListOK(list) ==
    list # NoMarque =>
      /\ DOMAIN list.prize \subseteq Letters
      /\ list.at \in Nat /\ list.at <= clock
      /\ \A l \in Letters : letters[l].issued + ListLag <= list.at /\ letters[l].issued < list.at => l \in DOMAIN list.prize \cup Remembered

\* Outcomes are of letters that are over.
OutcomesOver == \A l \in DOMAIN outcomes : l \in Letters /\ Expiry(l) <= clock

\* A request taken up was staged with every earlier letter over, and what was
\* issued since is its own: nothing before it is sent, one letter at most
\* then, and none while it may still be applied.
New(l) == letters[l].issued >= issue.notBefore
IssueOK ==
    issue # NoMarque =>
      /\ issue \in Issues
      /\ issue.step \in {"staged", "sent"} =>
           /\ issue.notBefore <= clock
           /\ \A l \in Letters : ~New(l) => Expiry(l) <= issue.notBefore
           /\ \A l \in issue.before : l \in Letters /\ ~New(l)
      /\ issue.step = "staged" => \A l \in Letters : ~New(l)
      /\ issue.step = "sent" =>
           /\ \A l, m \in Letters : New(l) /\ New(m) => l = m
           /\ \A l \in Letters : New(l) => letters[l].issued < issue.created + LastSend
FlightOK ==
    flight # NoMarque =>
      /\ issue # NoMarque /\ issue.step = "sent" /\ \A l \in Letters : ~New(l)
      /\ flight.until = issue.created + LastSend /\ clock < flight.until

\* A letter in force is remembered, or its issue is still being resolved.
Known(l) ==
    \/ l \in Remembered
    \/ issue # NoMarque /\ issue.step = "sent" /\ New(l)
    \/ issue # NoMarque /\ issue.step = "done" /\ issue.issued = l
    \/ issue = NoMarque /\ pending = l
AllKnown == \A l \in Letters : clock < Expiry(l) => Known(l)
\* A list read since a request was resolved leaves its letter known.
DoneRead ==
    issue # NoMarque /\ issue.step = "done" /\ marques # NoMarque =>
      issue.issued \in {0, pending} \cup Remembered

AtMostOne == \A l, m \in Letters : clock < Expiry(l) /\ clock < Expiry(m) => l = m

MarqueInv ==
    /\ LettersOK /\ ListOK(listing) /\ ListOK(marques) /\ OutcomesOver
    /\ IssueOK /\ FlightOK /\ AllKnown /\ DoneRead /\ AtMostOne

\* A new letter gets the next number and changes no other.
LEMMA GrantedFacts ==
    ASSUME LettersOK, letters' = Granted, clock' = clock
    PROVE  LET next == Cardinality(Letters) + 1 IN
           /\ next \in Nat \ {0} /\ next \notin Letters
           /\ Letters' = Letters \cup {next}
           /\ \A l \in Letters : letters'[l] = letters[l]
           /\ letters'[next] = [issued |-> clock, prize |-> 0]
           /\ LettersOK'
<1>1. PICK n \in Nat : letters \in [1..n -> [issued : Nat, prize : Nat]]
    BY DEF LettersOK
<1>2. Letters = 1..n
    BY <1>1 DEF Letters
<1>3. Cardinality(Letters) = n
    BY <1>1, <1>2, FS_Interval
<1>4. letters' = [l \in 1..(n + 1) |-> IF l \in 1..n THEN letters[l] ELSE [issued |-> clock, prize |-> 0]]
    BY <1>2, <1>3 DEF Granted
<1>5. Letters' = 1..(n + 1)
    BY <1>4 DEF Letters
<1>6. \A l \in 1..n : letters'[l] = letters[l]
    BY <1>4
<1>7. letters'[n + 1] = [issued |-> clock, prize |-> 0]
    BY <1>4
<1>8. clock \in Nat /\ \A l \in Letters : letters[l].issued <= clock
    BY DEF LettersOK
<1>9. letters' \in [1..(n + 1) -> [issued : Nat, prize : Nat]]
    <2>1. \A l \in 1..(n + 1) : letters'[l] \in [issued : Nat, prize : Nat]
        <3>1. [issued |-> clock, prize |-> 0] \in [issued : Nat, prize : Nat]
            BY <1>8
        <3> QED BY <3>1, <1>1, <1>6, <1>7
    <2> QED BY <2>1, <1>4
<1>10. \A l \in Letters' : letters'[l].issued <= clock
    BY <1>2, <1>5, <1>6, <1>7, <1>8
<1>11. LettersOK'
    BY <1>8, <1>9, <1>10 DEF LettersOK
<1> QED BY <1>2, <1>3, <1>5, <1>6, <1>7, <1>11

\* Letters are numbered from 1 and keep their dates.
LEMMA LetterTypes ==
    ASSUME LettersOK
    PROVE  /\ clock \in Nat
           /\ \A l \in Letters : l \in Nat \ {0} /\ letters[l].issued \in Nat /\ letters[l].issued <= clock
BY DEF LettersOK, Letters

LEMMA MarqueInitHolds == MarqueInit => MarqueInv
<1> SUFFICES ASSUME MarqueInit PROVE MarqueInv
    OBVIOUS
<1> USE DEF MarqueInit
<1>1. Letters = {}
    BY DEF Letters
<1>2. LettersOK
    <2>1. letters \in [1..0 -> [issued : Nat, prize : Nat]]
        OBVIOUS
    <2> QED BY <2>1, <1>1 DEF LettersOK
<1>3. OutcomesOver
    BY DEF OutcomesOver
<1> QED BY <1>1, <1>2, <1>3 DEF MarqueInv, ListOK, IssueOK, FlightOK, AllKnown, DoneRead, AtMostOne

\* With no letter remembered in force and none awaited, all are over.
LEMMA AdmissibleFacts ==
    ASSUME MarqueInv, marques # NoMarque, Admissible,
           \A l \in Letters : clock < Expiry(l) => l \in Remembered
    PROVE  \A l \in Letters : Expiry(l) <= clock
<1>1. DOMAIN active = {}
    BY DEF Admissible, EvaluateMarque, InForce
<1>2. \A l \in Letters : l \in Remembered => Expiry(l) <= clock
    BY <1>1 DEF Remembered, MarqueInv, OutcomesOver
<1>3. \A l \in Letters : Expiry(l) \in Nat /\ clock \in Nat
    BY LetterTypes, MarqueAssumption DEF MarqueInv, Expiry
<1> QED BY <1>2, <1>3

\* Once a request is staged, the letters it did not issue are over.
LEMMA EarlierOver ==
    ASSUME MarqueInv, issue # NoMarque, issue.step \in {"staged", "sent"}
    PROVE  \A l \in Letters : ~New(l) => Expiry(l) <= clock
<1>1. /\ issue.notBefore \in Nat /\ issue.notBefore <= clock
      /\ \A l \in Letters : ~New(l) => Expiry(l) <= issue.notBefore
    BY DEF MarqueInv, IssueOK, Issues
<1>2. \A l \in Letters : Expiry(l) \in Nat /\ clock \in Nat
    BY LetterTypes, MarqueAssumption DEF MarqueInv, Expiry
<1> QED BY <1>1, <1>2

\* The steps that only read the list or lose it.
LEMMA ListStep ==
    ASSUME MarqueInv, RequestMarques \/ RecordMarques \/ RestartMarques
    PROVE  MarqueInv'
<1>1. /\ UNCHANGED <<clock, letters, flight, issue>> /\ Letters' = Letters
      /\ \A l : Expiry(l)' = Expiry(l)
    BY DEF RequestMarques, RecordMarques, RestartMarques, Letters, Expiry
<1>2. LettersOK' /\ IssueOK' /\ FlightOK' /\ AtMostOne'
    BY <1>1 DEF MarqueInv, LettersOK, IssueOK, FlightOK, AtMostOne, New, Letters, Expiry
<1>3. clock \in Nat /\ \A l \in Letters : l \in Nat \ {0} /\ letters[l].issued \in Nat
    BY LetterTypes DEF MarqueInv
<1>4. ListLag \in Nat
    BY MarqueAssumption
<1>5. CASE RequestMarques
    <2>1. PICK gone \in SUBSET Omittable : listing' = [at |-> clock, prize |-> [l \in Letters \ gone |-> letters[l].prize]]
        BY <1>5 DEF RequestMarques
    <2>2. UNCHANGED <<active, outcomes, pending>> /\ marques' = NoMarque
        BY <1>5 DEF RequestMarques
    <2>3. DOMAIN listing'.prize = Letters \ gone /\ listing'.at = clock
        BY <2>1
    <2>4. \A l \in gone : l \in Remembered \/ ~(letters[l].issued + ListLag <= clock)
        BY <2>1, <1>3, <1>4 DEF Omittable
    <2>5. Remembered' = Remembered
        BY <2>2 DEF Remembered
    <2>6. ListOK(listing)' /\ ListOK(marques)'
        BY <1>1, <1>3, <2>2, <2>3, <2>4, <2>5 DEF ListOK
    <2>7. OutcomesOver' /\ AllKnown' /\ DoneRead'
        BY <1>1, <2>2, <2>5 DEF MarqueInv, OutcomesOver, AllKnown, Known, New, DoneRead
    <2> QED BY <1>2, <2>6, <2>7 DEF MarqueInv
<1>6. CASE RestartMarques
    <2>1. UNCHANGED <<active, outcomes, pending>> /\ marques' = NoMarque /\ listing' = NoMarque
        BY <1>6 DEF RestartMarques
    <2>2. Remembered' = Remembered
        BY <2>1 DEF Remembered
    <2>3. OutcomesOver' /\ AllKnown' /\ DoneRead' /\ ListOK(listing)' /\ ListOK(marques)'
        BY <1>1, <2>1, <2>2 DEF MarqueInv, OutcomesOver, AllKnown, Known, New, DoneRead, ListOK
    <2> QED BY <1>2, <2>3 DEF MarqueInv
<1>7. CASE RecordMarques
    <2>1. /\ listing # NoMarque
          /\ outcomes' = MergedOutcomes(listing) /\ active' = RetainedActive(listing)
          /\ pending' = NextPending(listing) /\ marques' = listing /\ listing' = NoMarque
        BY <1>7 DEF RecordMarques
    <2>2. DOMAIN listing.prize \subseteq Letters /\ listing.at \in Nat /\ listing.at <= clock
        BY <2>1 DEF MarqueInv, ListOK
    <2>3. DOMAIN outcomes' = DOMAIN outcomes \cup {l \in Letters : Over(listing, l, listing.at)}
        BY <2>1 DEF MergedOutcomes, ObservedAt
    <2>4. DOMAIN active' = {l \in DOMAIN active \cup DOMAIN listing.prize : ~Over(listing, l, listing.at)}
        BY <2>1 DEF RetainedActive, ObservedAt
    <2>5. DOMAIN listing.prize \cup Remembered \subseteq Remembered'
        BY <2>2, <2>3, <2>4 DEF Remembered, Over
    <2>6. \A l \in Letters : Expiry(l) \in Nat
        BY <1>3, MarqueAssumption DEF Expiry
    <2>7. \A l \in Letters : Over(listing, l, listing.at) => Expiry(l) <= clock
        BY <1>3, <2>2, <2>6 DEF Over
    <2>8. OutcomesOver'
        BY <1>1, <2>3, <2>7 DEF MarqueInv, OutcomesOver
    <2>9. ListOK(listing)' /\ ListOK(marques)'
        BY <1>1, <2>1, <2>5 DEF MarqueInv, ListOK
    <2>10. issue = NoMarque => \A l \in Letters : pending = l => pending' = l \/ l \in Remembered'
        BY <2>1, <2>5, <1>3 DEF NextPending, Awaited
    <2>11. AllKnown'
        BY <1>1, <2>5, <2>10 DEF MarqueInv, AllKnown, Known, New
    <2>12. issue # NoMarque => issue.issued \in Nat
        BY DEF MarqueInv, IssueOK, Issues
    <2>13. DoneRead'
        BY <1>1, <2>1, <2>5, <2>12 DEF DoneRead, NextPending, Awaited
    <2> QED BY <1>2, <2>8, <2>9, <2>11, <2>13 DEF MarqueInv
<1> QED BY <1>5, <1>6, <1>7

\* Time passes, or a prize is paid.
LEMMA ServerStep ==
    ASSUME MarqueInv, TickMarque \/ \E l \in Letters : PrizePaid(l)
    PROVE  MarqueInv'
<1>1. clock \in Nat /\ \A l \in Letters : /\ l \in Nat \ {0}
                                          /\ letters[l].issued \in Nat /\ letters[l].issued <= clock
    BY LetterTypes DEF MarqueInv
<1>2. \A l \in Letters : Expiry(l) \in Nat
    BY <1>1, MarqueAssumption DEF Expiry
<1>3. CASE TickMarque
    <2>1. clock' = clock + 1 /\ UNCHANGED <<letters, listing, marques, outcomes, active, pending, issue>>
        BY <1>3 DEF TickMarque
    <2>2. Letters' = Letters /\ Remembered' = Remembered /\ \A l : Expiry(l)' = Expiry(l) /\ New(l)' = New(l)
        BY <2>1 DEF Letters, Remembered, Expiry, New
    <2>3. LettersOK'
        BY <1>1, <2>1, <2>2 DEF MarqueInv, LettersOK
    <2>4. ListOK(listing)' /\ ListOK(marques)'
        BY <1>1, <2>1, <2>2 DEF MarqueInv, ListOK
    <2>5. OutcomesOver'
        BY <1>1, <1>2, <2>1, <2>2 DEF MarqueInv, OutcomesOver
    <2>6. IssueOK'
        <3>1. issue # NoMarque => issue.notBefore \in Nat
            BY DEF MarqueInv, IssueOK, Issues
        <3> QED BY <1>1, <2>1, <2>2, <3>1 DEF MarqueInv, IssueOK
    <2>7. FlightOK'
        <3>1. flight' # NoMarque => flight # NoMarque /\ flight' = flight /\ ~(clock + 1 >= flight.until)
            BY <1>3 DEF TickMarque
        <3>2. SUFFICES ASSUME flight' # NoMarque
                       PROVE  FlightOK'
            BY DEF FlightOK
        <3>3. issue # NoMarque /\ issue.created \in Nat /\ LastSend \in Nat /\ flight.until = issue.created + LastSend
            BY <3>1, <3>2, MarqueAssumption DEF MarqueInv, IssueOK, FlightOK, Issues
        <3> QED BY <1>1, <2>1, <2>2, <3>1, <3>2, <3>3 DEF MarqueInv, FlightOK
    <2>8. AllKnown' /\ AtMostOne'
        BY <1>1, <1>2, <2>1, <2>2 DEF MarqueInv, AllKnown, Known, AtMostOne
    <2>9. DoneRead'
        BY <2>1, <2>2 DEF MarqueInv, DoneRead
    <2> QED BY <2>3, <2>4, <2>5, <2>6, <2>7, <2>8, <2>9 DEF MarqueInv
<1>4. CASE \E l \in Letters : PrizePaid(l)
    <2>1. PICK x \in Letters : PrizePaid(x)
        BY <1>4
    <2>2. PICK prize \in Prizes : letters' = [letters EXCEPT ![x].prize = prize]
        BY <2>1 DEF PrizePaid
    <2>3. UNCHANGED <<clock, flight, listing, marques, outcomes, active, pending, issue>>
        BY <2>1 DEF PrizePaid
    <2>4. PICK n \in Nat : letters \in [1..n -> [issued : Nat, prize : Nat]]
        BY DEF MarqueInv, LettersOK
    <2>5. prize \in Nat
        BY MarqueAssumption
    <2>6. letters' \in [1..n -> [issued : Nat, prize : Nat]]
        BY <2>2, <2>4, <2>5
    <2>7. Letters' = Letters /\ \A l \in Letters : letters'[l].issued = letters[l].issued
        BY <2>2, <2>4 DEF Letters
    <2>8. LettersOK'
        BY <1>1, <2>3, <2>6, <2>7 DEF LettersOK
    <2>9. Remembered' = Remembered /\ \A l \in Letters : Expiry(l)' = Expiry(l) /\ New(l)' = New(l)
        BY <2>3, <2>7 DEF Remembered, Expiry, New
    <2>10. /\ ListOK(listing)' /\ ListOK(marques)' /\ OutcomesOver' /\ IssueOK' /\ FlightOK' 
           /\ AllKnown' /\ DoneRead' /\ AtMostOne'
        <3>1. ListOK(listing)' /\ ListOK(marques)' /\ OutcomesOver' /\ DoneRead'
            BY <2>3, <2>7, <2>9 DEF MarqueInv, ListOK, OutcomesOver, DoneRead
        <3>2. IssueOK' /\ FlightOK'
            BY <2>3, <2>7, <2>9 DEF MarqueInv, IssueOK, FlightOK
        <3>3. AllKnown' /\ AtMostOne'
            BY <2>3, <2>7, <2>9 DEF MarqueInv, AllKnown, Known, AtMostOne
        <3> QED BY <3>1, <3>2, <3>3
    <2> QED BY <2>8, <2>10 DEF MarqueInv
<1> QED BY <1>3, <1>4

\* Only the mission moves: the letters and what is remembered stay, and the
\* list is used up.
Settles == UNCHANGED <<clock, letters, listing, outcomes, active, pending>> /\ marques' = NoMarque
LEMMA SettlesFacts ==
    ASSUME MarqueInv, Settles
    PROVE  /\ Letters' = Letters /\ Remembered' = Remembered /\ \A l : Expiry(l)' = Expiry(l)
           /\ LettersOK' /\ ListOK(listing)' /\ ListOK(marques)' /\ OutcomesOver' /\ DoneRead' /\ AtMostOne'
<1>1. Letters' = Letters /\ Remembered' = Remembered /\ \A l : Expiry(l)' = Expiry(l)
    BY DEF Settles, Letters, Remembered, Expiry
<1>2. LettersOK'
    BY <1>1 DEF Settles, MarqueInv, LettersOK
<1>3. ListOK(listing)' /\ ListOK(marques)'
    BY <1>1 DEF Settles, MarqueInv, ListOK
<1>4. OutcomesOver' /\ DoneRead' /\ AtMostOne'
    BY <1>1 DEF Settles, MarqueInv, OutcomesOver, DoneRead, AtMostOne
<1> QED BY <1>1, <1>2, <1>3, <1>4

LEMMA ConsiderStep ==
    ASSUME MarqueInv, Consider
    PROVE  MarqueInv'
<1>1. Settles /\ issue = NoMarque /\ issue' = FreshIssue /\ flight' = flight /\ pending <= 0
    BY DEF Consider, Settles
<1>2. FreshIssue \in Issues /\ FreshIssue.step = "admitted"
    BY DEF FreshIssue, Issues
<1>3. IssueOK' /\ FlightOK'
    BY <1>1, <1>2 DEF MarqueInv, IssueOK, FlightOK
<1>4. \A l \in Letters : pending # l
    BY <1>1, LetterTypes DEF MarqueInv
<1>5. AllKnown'
    BY <1>1, <1>4, SettlesFacts DEF Settles, MarqueInv, AllKnown, Known
<1> QED BY <1>1, <1>3, <1>5, SettlesFacts DEF MarqueInv

LEMMA RetireStep ==
    ASSUME MarqueInv, Retire
    PROVE  MarqueInv'
<1>1. Settles /\ issue # NoMarque /\ issue' = NoMarque /\ flight' = flight /\ marques # NoMarque
    BY DEF Retire, Settles
<1>2. issue.step \in {"done", "admitted"}
    BY DEF Retire
<1>3. IssueOK' /\ FlightOK'
    BY <1>1, <1>2 DEF MarqueInv, IssueOK, FlightOK
<1>4. \A l \in Letters : l # 0
    BY LetterTypes DEF MarqueInv
<1>5. AllKnown'
    BY <1>1, <1>2, <1>4, SettlesFacts DEF Settles, MarqueInv, AllKnown, Known, DoneRead
<1> QED BY <1>1, <1>3, <1>5, SettlesFacts DEF MarqueInv

LEMMA StageIssueStep ==
    ASSUME MarqueInv, StageIssue
    PROVE  MarqueInv'
<1>1. Settles /\ issue # NoMarque /\ issue.step = "admitted" /\ flight' = flight /\ Admissible /\ marques # NoMarque
    BY DEF StageIssue, Settles, Admissible, Evidence
<1>2. issue' = [issue EXCEPT !.step = "staged", !.before = DOMAIN marques.prize, !.notBefore = clock]
    BY DEF StageIssue
<1>3. issue \in Issues
    BY <1>1 DEF MarqueInv, IssueOK
<1>4. DOMAIN marques.prize \subseteq Letters
    BY <1>1 DEF MarqueInv, ListOK
<1>5. clock \in Nat /\ \A l \in Letters : l \in Nat \ {0} /\ letters[l].issued \in Nat
    BY LetterTypes DEF MarqueInv
<1>6. issue' \in Issues /\ issue'.step = "staged" /\ issue'.notBefore = clock /\ issue'.before = DOMAIN marques.prize
    BY <1>2, <1>3, <1>4, <1>5 DEF Issues
<1>7. \A l \in Letters : clock < Expiry(l) => l \in Remembered
    BY <1>1 DEF MarqueInv, AllKnown, Known
<1>8. \A l \in Letters : Expiry(l) <= clock
    BY <1>1, <1>7, AdmissibleFacts
<1>9. \A l \in Letters : ~(letters[l].issued >= clock)
    BY <1>5, <1>8, MarqueAssumption DEF Expiry
<1>10. Letters' = Letters /\ \A l \in Letters : ~New(l)'
    BY <1>1, <1>6, <1>9, SettlesFacts DEF Settles, New
<1>11. IssueOK' /\ FlightOK'
    <2>1. flight = NoMarque
        BY <1>1 DEF MarqueInv, FlightOK
    <2>2. issue'.notBefore <= clock'
        BY <1>1, <1>5, <1>6 DEF Settles
    <2>3. \A l \in Letters : Expiry(l)' <= issue'.notBefore
        BY <1>1, <1>6, <1>8, SettlesFacts
    <2> QED BY <1>1, <1>4, <1>6, <1>10, <2>1, <2>2, <2>3 DEF Settles, IssueOK, FlightOK
<1>12. AllKnown'
    BY <1>1, <1>7, SettlesFacts DEF Settles, AllKnown, Known
<1> QED BY <1>1, <1>11, <1>12, SettlesFacts DEF MarqueInv

\* A mission in a given step, of a letter.
LEMMA DoneFacts ==
    ASSUME MarqueInv, issue # NoMarque, NEW letter \in Nat, issue' = Done(letter)
    PROVE  issue' \in Issues /\ issue' # NoMarque /\ issue'.step = "done" /\ issue'.issued = letter
<1>1. issue \in Issues
    BY DEF MarqueInv, IssueOK
<1> QED BY <1>1, MarqueAssumption DEF Done, Issues

\* The request is resolved without a letter, or with one that was issued
\* before: every letter in force is remembered or is that one.
LEMMA ResolveStep ==
    ASSUME MarqueInv, Settles, issue # NoMarque, flight' = NoMarque,
           NEW letter \in Nat, issue' = Done(letter),
           \A l \in Letters : clock < Expiry(l) => l \in Remembered \cup {letter}
    PROVE  MarqueInv'
<1>1. issue' \in Issues /\ issue' # NoMarque /\ issue'.step = "done" /\ issue'.issued = letter
    BY DoneFacts
<1>2. IssueOK' /\ FlightOK'
    BY <1>1 DEF IssueOK, FlightOK
<1>3. AllKnown'
    BY <1>1, SettlesFacts DEF Settles, AllKnown, Known
<1> QED BY <1>2, <1>3, SettlesFacts DEF MarqueInv

\* The request issues a letter now.
LEMMA GrantStep ==
    ASSUME MarqueInv, issue # NoMarque, issue.step \in {"staged", "sent"}, \A l \in Letters : ~New(l),
           letters' = Granted, UNCHANGED <<clock, listing, outcomes, active, pending>>,
           marques' \in {marques, NoMarque}, flight' = NoMarque,
           \/ issue' = Done(Cardinality(Letters) + 1) /\ marques' = NoMarque
           \/ /\ issue' \in Issues /\ issue'.step = "sent" /\ clock < issue'.created + LastSend
              /\ issue'.notBefore = issue.notBefore /\ issue'.before = issue.before
    PROVE  MarqueInv'
<1>0. PICK next : next = Cardinality(Letters) + 1
    OBVIOUS
<1>1. /\ next \in Nat \ {0} /\ next \notin Letters /\ Letters' = Letters \cup {next}
      /\ \A l \in Letters : letters'[l] = letters[l]
      /\ letters'[next] = [issued |-> clock, prize |-> 0] /\ LettersOK'
    BY <1>0, GrantedFacts DEF MarqueInv
<1>2. clock \in Nat /\ \A l \in Letters : letters[l].issued \in Nat
    BY LetterTypes DEF MarqueInv
<1>3. issue \in Issues
    BY DEF MarqueInv, IssueOK
<1>4. issue.notBefore \in Nat /\ issue.notBefore <= clock
    BY <1>3 DEF MarqueInv, IssueOK, Issues
<1>5. Remembered' = Remembered /\ \A l \in Letters : Expiry(l)' = Expiry(l)
    BY <1>1 DEF Remembered, Expiry
<1>6. \A l \in Letters : Expiry(l) <= clock /\ Expiry(l) \in Nat
    <2>1. \A l \in Letters : Expiry(l) <= clock
        BY EarlierOver
    <2>2. \A l \in Letters : Expiry(l) \in Nat
        BY <1>2, MarqueAssumption DEF Expiry
    <2> QED BY <2>1, <2>2
<1>7. \A l \in Letters' : clock' < Expiry(l)' => l = next
    BY <1>1, <1>2, <1>5, <1>6
<1>8. AtMostOne'
    BY <1>7 DEF AtMostOne
<1>9. ListOK(listing)' /\ ListOK(marques)'
    <2>1. ASSUME NEW list, list # NoMarque, ListOK(list)
          PROVE  /\ DOMAIN list.prize \subseteq Letters' /\ list.at \in Nat /\ list.at <= clock
                 /\ \A l \in Letters' : letters'[l].issued + ListLag <= list.at /\ letters'[l].issued < list.at => l \in DOMAIN list.prize \cup Remembered
        <3>1. /\ DOMAIN list.prize \subseteq Letters /\ list.at \in Nat /\ list.at <= clock
              /\ \A l \in Letters : letters[l].issued + ListLag <= list.at /\ letters[l].issued < list.at => l \in DOMAIN list.prize \cup Remembered
            BY <2>1 DEF ListOK
        <3> QED BY <3>1, <1>1, <1>2, MarqueAssumption
    <2>2. listing # NoMarque => ListOK(listing)'
        BY <2>1, <1>5 DEF MarqueInv, ListOK
    <2>3. marques # NoMarque => ListOK(marques)'
        BY <2>1, <1>5 DEF MarqueInv, ListOK
    <2> QED BY <2>2, <2>3 DEF ListOK
<1>10. OutcomesOver'
    BY <1>1, <1>5 DEF MarqueInv, OutcomesOver
<1>11. IssueOK' /\ AllKnown' /\ DoneRead'
    <2>1. CASE issue' = Done(next) /\ marques' = NoMarque
        <3>1. issue' \in Issues /\ issue' # NoMarque /\ issue'.step = "done" /\ issue'.issued = next
            <4>1. next \in Nat
                BY <1>1
            <4> QED BY <2>1, <4>1, DoneFacts
        <3>2. IssueOK'
            BY <3>1 DEF IssueOK
        <3>3. AllKnown'
            BY <1>7, <3>1 DEF AllKnown, Known
        <3>4. DoneRead'
            BY <2>1 DEF DoneRead
        <3> QED BY <3>2, <3>3, <3>4
    <2>2. CASE /\ issue' \in Issues /\ issue'.step = "sent" /\ clock < issue'.created + LastSend
               /\ issue'.notBefore = issue.notBefore /\ issue'.before = issue.before
        <3>1. \A l \in Letters : ~New(l)'
            BY <1>1, <2>2 DEF New
        <3>2. issue' # NoMarque
            BY <2>2, MarqueAssumption
        <3>3. New(next)' /\ letters'[next].issued < issue'.created + LastSend
            BY <1>1, <1>4, <2>2 DEF New
        <3>4. issue'.before \subseteq Letters /\ issue'.notBefore <= clock'
            BY <1>4, <2>2 DEF MarqueInv, IssueOK
        <3>5. \A l \in Letters : Expiry(l)' <= issue'.notBefore
            BY <1>5, <2>2 DEF MarqueInv, IssueOK
        <3>6. IssueOK'
            <4>1. \A l \in Letters' : New(l)' => l = next
                BY <1>1, <3>1
            <4>2. \A l \in Letters' : ~New(l)' => Expiry(l)' <= issue'.notBefore
                BY <1>1, <3>3, <3>5
            <4>3. \A l \in issue'.before : l \in Letters' /\ ~New(l)'
                BY <1>1, <3>1, <3>4
            <4> QED BY <2>2, <3>3, <3>4, <4>1, <4>2, <4>3 DEF IssueOK
        <3>7. AllKnown'
            BY <1>7, <2>2, <3>2, <3>3 DEF AllKnown, Known
        <3>8. DoneRead'
            BY <2>2 DEF DoneRead
        <3> QED BY <3>6, <3>7, <3>8
    <2> QED BY <1>0, <2>1, <2>2
<1> QED BY <1>1, <1>8, <1>9, <1>10, <1>11 DEF MarqueInv, FlightOK

LEMMA LateAppliedStep ==
    ASSUME MarqueInv, LateApplied
    PROVE  MarqueInv'
<1>1. /\ flight # NoMarque /\ letters' = Granted /\ flight' = NoMarque
      /\ UNCHANGED <<clock, listing, marques, outcomes, active, pending, issue>>
    BY DEF LateApplied
<1>2. /\ issue # NoMarque /\ issue.step = "sent" /\ \A l \in Letters : ~New(l)
      /\ clock < issue.created + LastSend
    BY <1>1 DEF MarqueInv, FlightOK
<1>3. issue \in Issues
    BY <1>2 DEF MarqueInv, IssueOK
<1> QED BY <1>1, <1>2, <1>3, GrantStep

LEMMA SendIssueStep ==
    ASSUME MarqueInv, SendIssue
    PROVE  MarqueInv'
<1>1. /\ issue # NoMarque /\ issue.step = "staged" /\ marques' = NoMarque
      /\ UNCHANGED <<clock, listing, outcomes, active, pending>>
    BY DEF SendIssue
<1>2. issue \in Issues /\ \A l \in Letters : ~New(l)
    BY <1>1 DEF MarqueInv, IssueOK
<1>3. flight = NoMarque
    BY <1>1 DEF MarqueInv, FlightOK
<1>4. clock \in Nat /\ \A l \in Letters : Expiry(l) <= clock /\ Expiry(l) \in Nat
    <2>1. \A l \in Letters : Expiry(l) <= clock
        BY <1>1, <1>2, EarlierOver
    <2>2. clock \in Nat /\ \A l \in Letters : Expiry(l) \in Nat
        BY LetterTypes, MarqueAssumption DEF MarqueInv, Expiry
    <2> QED BY <2>1, <2>2
<1>5. CASE letters' = Granted /\ issue' = Done(Cardinality(Letters) + 1) /\ flight' = flight
    BY <1>1, <1>2, <1>3, <1>5, GrantStep
<1>6. CASE issue' = Done(0) /\ UNCHANGED <<letters, flight>>
    <2>1. Settles
        BY <1>1, <1>6 DEF Settles
    <2>2. \A l \in Letters : clock < Expiry(l) => l \in Remembered \cup {0}
        BY <1>4
    <2> QED BY <1>1, <1>3, <1>6, <2>1, <2>2, ResolveStep
<1>7. CASE issue' = [issue EXCEPT !.step = "sent", !.created = clock]
    <2>1. /\ issue' \in Issues /\ issue'.step = "sent" /\ issue'.created = clock
          /\ issue'.notBefore = issue.notBefore /\ issue'.before = issue.before
        BY <1>2, <1>4, <1>7 DEF Issues
    <2>2. issue' # NoMarque
        BY <2>1, MarqueAssumption
    <2>3. LastSend \in Nat \ {0} /\ clock < issue'.created + LastSend
        BY <1>4, <2>1, MarqueAssumption
    <2>4. CASE letters' = Granted /\ flight' = flight
        BY <1>1, <1>2, <1>3, <2>1, <2>3, <2>4, GrantStep
    <2>5. CASE flight' = [until |-> clock + LastSend] /\ UNCHANGED letters
        <3>1. Settles
            BY <1>1, <2>5 DEF Settles
        <3>2. \A l \in Letters : ~New(l)' /\ New(l)' = New(l)
            BY <1>2, <2>1, <2>5 DEF New
        <3>3. IssueOK'
            <4>1. /\ issue'.notBefore <= clock'
                  /\ \A l \in Letters : ~New(l) => Expiry(l) <= issue'.notBefore
                  /\ \A l \in issue'.before : l \in Letters /\ ~New(l)
                BY <1>1, <2>1 DEF MarqueInv, IssueOK
            <4> QED BY <2>1, <3>1, <3>2, <4>1, SettlesFacts DEF IssueOK
        <3>4. FlightOK'
            BY <1>1, <2>1, <2>2, <2>3, <2>5, <3>1, <3>2, SettlesFacts DEF FlightOK
        <3>5. AllKnown'
            BY <1>1, <1>4, <3>1, SettlesFacts DEF AllKnown
        <3> QED BY <3>1, <3>3, <3>4, <3>5, SettlesFacts DEF MarqueInv
    <2>6. (letters' = Granted /\ flight' = flight) \/ (flight' = [until |-> clock + LastSend] /\ UNCHANGED letters)
        <3>1. issue'.step # "done" /\ issue'.step # "admitted"
            BY <2>1
        <3>2. issue' # Done(Cardinality(Letters) + 1) /\ issue' # Done(0) /\ issue' # FreshIssue
            <4>1. \A x : Done(x).step = "done"
                BY <1>2 DEF Done, Issues
            <4>2. FreshIssue.step = "admitted"
                BY DEF FreshIssue
            <4> QED BY <3>1, <4>1, <4>2
        <3>3. \/ issue' = Done(Cardinality(Letters) + 1) \/ issue' = Done(0) \/ issue' = FreshIssue
              \/ letters' = Granted /\ UNCHANGED flight
              \/ flight' = [until |-> clock + LastSend] /\ UNCHANGED letters
            BY Zenon DEF SendIssue
        <3> QED BY <3>2, <3>3
    <2> QED BY <2>4, <2>5, <2>6
<1>8. CASE issue' = FreshIssue /\ UNCHANGED <<letters, flight>>
    <2>1. Settles
        BY <1>1, <1>8 DEF Settles
    <2>2. FreshIssue \in Issues /\ FreshIssue.step = "admitted"
        BY DEF FreshIssue, Issues
    <2>3. IssueOK' /\ FlightOK'
        BY <1>3, <1>8, <2>2 DEF IssueOK, FlightOK
    <2>4. AllKnown'
        BY <1>1, <1>4, <2>1, SettlesFacts DEF AllKnown
    <2> QED BY <2>1, <2>3, <2>4, SettlesFacts DEF MarqueInv
<1> QED BY <1>5, <1>6, <1>7, <1>8 DEF SendIssue

\* Every letter in force is the request's own, while it is resolved.
LEMMA InForceOwn ==
    ASSUME MarqueInv, issue # NoMarque, issue.step \in {"staged", "sent"}
    PROVE  \A l \in Letters : clock < Expiry(l) => New(l)
<1>1. \A l \in Letters : Expiry(l) \in Nat /\ clock \in Nat
    BY LetterTypes, MarqueAssumption DEF MarqueInv, Expiry
<1> QED BY <1>1, EarlierOver

LEMMA ResendIssueStep ==
    ASSUME MarqueInv, ResendIssue
    PROVE  MarqueInv'
<1>1. /\ issue # NoMarque /\ issue.step = "sent" /\ marques' = NoMarque
      /\ UNCHANGED <<clock, listing, outcomes, active, pending>>
    BY DEF ResendIssue
<1>2. CASE flight # NoMarque /\ letters' = Granted /\ flight' = NoMarque /\ issue' = Done(Cardinality(Letters) + 1)
    <2>1. \A l \in Letters : ~New(l)
        BY <1>2 DEF MarqueInv, FlightOK
    <2> QED BY <1>1, <1>2, <2>1, GrantStep
<1>3. CASE flight = NoMarque /\ Own # {} /\ issue' = Done(Max(Own)) /\ UNCHANGED <<letters, flight>>
    <2>1. \A l, m \in Letters : New(l) /\ New(m) => l = m
        BY <1>1 DEF MarqueInv, IssueOK
    <2>2. \A l \in Own : l \in Letters /\ New(l)
        BY DEF Own, New
    <2>3. PICK own : Own = {own}
        BY <1>3, <2>1, <2>2
    <2>4. own \in Letters /\ own \in Nat /\ New(own)
        BY <2>2, <2>3, LetterTypes DEF MarqueInv
    <2>5. Max(Own) = own
        BY <2>3, <2>4 DEF Max
    <2>6. Settles
        BY <1>1, <1>3 DEF Settles
    <2>7. \A l \in Letters : clock < Expiry(l) => l = own
        BY <1>1, <2>1, <2>4, InForceOwn
    <2> QED BY <1>1, <1>3, <2>4, <2>5, <2>6, <2>7, ResolveStep
<1> QED BY <1>2, <1>3 DEF ResendIssue

LEMMA ReconcileMarqueStep ==
    ASSUME MarqueInv, ReconcileMarque
    PROVE  MarqueInv'
<1>1. /\ issue # NoMarque /\ issue.step = "sent" /\ marques # NoMarque /\ flight' = flight
      /\ UNCHANGED <<clock, letters, listing, outcomes, active, pending>> /\ marques' = NoMarque
    BY DEF ReconcileMarque
<1>2. Settles
    BY <1>1 DEF Settles
<1>3. /\ DOMAIN marques.prize \subseteq Letters /\ marques.at \in Nat /\ marques.at <= clock
      /\ \A l \in Letters : letters[l].issued + ListLag <= marques.at /\ letters[l].issued < marques.at
                              => l \in DOMAIN marques.prize \cup Remembered
    BY <1>1 DEF MarqueInv, ListOK
<1>4. /\ \A l, m \in Letters : New(l) /\ New(m) => l = m
      /\ \A l \in Letters : New(l) => letters[l].issued < issue.created + LastSend
      /\ \A l \in issue.before : ~New(l)
      /\ issue.created \in Nat
    BY <1>1 DEF MarqueInv, IssueOK, Issues
<1>5. clock \in Nat /\ \A l \in Letters : l \in Nat /\ letters[l].issued \in Nat
    BY LetterTypes DEF MarqueInv
<1>6. Matches = {l \in DOMAIN marques.prize : New(l)}
    BY <1>4 DEF Matches, New
<1>7. CASE \E l \in Matches : Matches = {l} /\ issue' = Done(l)
    <2>1. PICK own \in Matches : issue' = Done(own)
        BY <1>7
    <2>2. own \in Letters /\ own \in Nat /\ New(own)
        BY <1>3, <1>5, <1>6, <2>1
    <2>3. flight' = NoMarque
        BY <1>1, <2>2 DEF MarqueInv, FlightOK
    <2>4. \A l \in Letters : clock < Expiry(l) => l = own
        BY <1>1, <1>4, <2>2, InForceOwn
    <2> QED BY <1>1, <1>2, <2>1, <2>2, <2>3, <2>4, ResolveStep
<1>8. CASE Matches = {} /\ ProvenAbsent /\ issue' = Done(0)
    <2>1. marques.at >= issue.created + Window
        BY <1>8 DEF ProvenAbsent
    <2>2. /\ Window \in Nat /\ LastSend \in Nat /\ ListLag \in Nat
          /\ LastSend <= Window /\ LastSend + ListLag <= Window + 1
        BY MarqueAssumption
    <2>3. flight' = NoMarque
        <3>1. flight # NoMarque => clock < issue.created + LastSend
            BY DEF MarqueInv, FlightOK
        <3> QED BY <1>1, <1>3, <1>4, <1>5, <2>1, <2>2, <3>1
    <2>4. ASSUME NEW l \in Letters, New(l)
          PROVE  l \in Remembered
        <3>1. letters[l].issued \in Nat /\ letters[l].issued < issue.created + LastSend
            BY <1>4, <1>5, <2>4
        <3>2. letters[l].issued + ListLag <= marques.at /\ letters[l].issued < marques.at
            BY <1>3, <1>4, <2>1, <2>2, <3>1
        <3>3. l \notin DOMAIN marques.prize
            BY <1>6, <1>8, <2>4
        <3> QED BY <1>3, <3>2, <3>3
    <2>5. \A l \in Letters : clock < Expiry(l) => l \in Remembered \cup {0}
        BY <1>1, <2>4, InForceOwn
    <2> QED BY <1>1, <1>2, <1>8, <2>3, <2>5, ResolveStep
<1> QED BY <1>7, <1>8 DEF ReconcileMarque

LEMMA MarqueInvStep == MarqueInv /\ [MarqueNext]_mqvars => MarqueInv'
<1> SUFFICES ASSUME MarqueInv, [MarqueNext]_mqvars PROVE MarqueInv'
    OBVIOUS
<1>1. CASE MarqueNext
    BY <1>1, ServerStep, LateAppliedStep, ListStep, ConsiderStep, RetireStep, StageIssueStep,
       SendIssueStep, ResendIssueStep, ReconcileMarqueStep DEF MarqueNext
<1>2. CASE UNCHANGED mqvars
    <2> USE <1>2 DEF mqvars
    <2>1. Letters' = Letters /\ Remembered' = Remembered /\ \A l : Expiry(l)' = Expiry(l) /\ New(l)' = New(l)
        BY DEF Letters, Remembered, Expiry, New
    <2>2. LettersOK' /\ ListOK(listing)' /\ ListOK(marques)' /\ OutcomesOver' /\ DoneRead' /\ AtMostOne'
        BY <2>1 DEF MarqueInv, LettersOK, ListOK, OutcomesOver, DoneRead, AtMostOne
    <2>3. IssueOK' /\ FlightOK' /\ AllKnown'
        BY <2>1 DEF MarqueInv, IssueOK, FlightOK, AllKnown, Known
    <2> QED BY <2>2, <2>3 DEF MarqueInv
<1> QED BY <1>1, <1>2

\* Whatever was lost, a letter in force is remembered, or its request is
\* still being resolved.
THEOREM MarqueInvHolds == MarqueSpec => []MarqueInv
BY MarqueInitHolds, MarqueInvStep, PTL DEF MarqueSpec

\* Never two of our letters in force at once.
THEOREM OneMarqueHolds == MarqueSpec => []OneMarque
<1>1. ASSUME MarqueInv PROVE OneMarque
    <2> DEFINE held == {l \in Letters : clock < Expiry(l)}
    <2>1. \A l, m \in held : l = m
        BY <1>1 DEF MarqueInv, AtMostOne
    <2>2. held = {} \/ \E l : held = {l}
        BY <2>1
    <2>3. Cardinality(held) = 0 \/ Cardinality(held) = 1
        <3> HIDE DEF held
        <3> QED BY <2>2, FS_EmptySet, FS_Singleton
    <2> QED BY <2>3 DEF OneMarque
<1> QED BY <1>1, MarqueInvHolds, PTL

-----------------------------------------------------------------------------
(* Insured missions *)

\* The types: a server's policies, the mission with its intents and books.
CoverPolicy ==
    [leg : Legs, old : BOOLEAN, status : {"open", "settled_safe", "claimed_loss", "cancelled"}, refund : Nat, claim : Nat]
CoverMission == [leg : Legs, at : {"port", "sea", "ended"}, action : {"none", "staged", "sent", "reconciled"}, found : Nat,
                  intent : [Legs -> [offered : BOOLEAN, declined : BOOLEAN, policy : Nat]], fees : Int, proceeds : Int,
                  observed : BOOLEAN, settled : BOOLEAN, known : BOOLEAN]
CoverTypes == policies \in Seq(CoverPolicy) /\ offer \in Legs \cup {NoCover} /\ cover \in CoverMission


\* The policies of the server that belong to a leg of this mission, and the
\* one that is booked: at most one request is under way, for the leg in port.
Written(leg) == {i \in DOMAIN policies : ~policies[i].old /\ policies[i].leg = leg}
Booked(leg) == cover.intent[leg].policy
Asking == cover.action \in {"sent", "reconciled"}
OneRequest ==
    /\ cover.action # "none" => cover.at = "port" /\ Booked(cover.leg) = 0
    /\ cover.action # "sent" => offer = NoCover
    /\ \A leg \in Legs :
        /\ Booked(leg) > 0 => Written(leg) = {Booked(leg)}
        /\ Booked(leg) = 0 /\ ~(leg = cover.leg /\ Asking) => Written(leg) = {}
        /\ leg = cover.leg /\ cover.action = "sent" =>
             IF offer = NoCover THEN \E i \in DOMAIN policies : Written(leg) = {i} ELSE offer = leg /\ Written(leg) = {}
        /\ leg = cover.leg /\ cover.action = "reconciled" => Written(leg) = {cover.found}
\* The board lags behind the server, but never shows an open policy as ended.
BoardTrue ==
    board # NoCover =>
      /\ board \in Seq(CoverPolicy) /\ Len(board) <= Len(policies)
      /\ \A i \in DOMAIN board : /\ board[i].leg = policies[i].leg /\ board[i].old = policies[i].old
                                 /\ Open(policies[i]) => Open(board[i])
\* The ledger is read for the books after the ends are observed.
EndsSeen ==
    /\ cover.observed \/ cover.settled => cover.at = "ended"
    /\ cover.observed => \A i \in CoverPolicies : Ended(i)
    /\ ledger # NoCover => ledger.after \in BOOLEAN /\ (ledger.after => cover.observed /\ CoverPolicies \subseteq ledger.rows)
\* What is booked while the mission runs, and once it is settled.
PremiumOf(leg) == IF Booked(leg) > 0 THEN CoverPremium ELSE 0
BooksOpen == ~cover.settled => cover.fees = PremiumOf("out") + PremiumOf("back") /\ cover.proceeds = 0
BooksClosed == cover.settled => CoverBooked /\ cover.action = "none" /\ \A i \in OwnPolicies : Ended(i)
CoverInv == CoverTypes /\ OneRequest /\ BoardTrue /\ EndsSeen /\ BooksOpen /\ BooksClosed

\* No mission has begun, and nothing is booked.
LEMMA CoverInit1 == CoverInit => CoverInv
<1> SUFFICES ASSUME CoverInit PROVE CoverInv
    OBVIOUS
<1>1. CoverTypes
    <2>1. Offered("out") \in CoverPolicy /\ [Offered("out") EXCEPT !.old = TRUE] \in CoverPolicy
        BY DEF Offered, CoverPolicy, Legs
    <2>2. policies \in Seq(CoverPolicy)
        <3>1. CASE policies = <<>>
            BY <3>1
        <3>2. PICK x \in CoverPolicy : x = [Offered("out") EXCEPT !.old = TRUE]
            BY <2>1
        <3>3. CASE policies = <<x>>
            BY <3>3
        <3> QED BY <3>1, <3>2, <3>3 DEF CoverInit
    <2> QED BY <2>2 DEF CoverInit, CoverTypes, CoverMission, NoIntent, Legs
<1>2. DOMAIN policies \subseteq {1} /\ \A i \in DOMAIN policies : policies[i].old
    BY DEF CoverInit, Offered
<1>3. \A leg \in Legs : Written(leg) = {} /\ Booked(leg) = 0
    BY <1>2 DEF Written, Booked, CoverInit, NoIntent
<1>4. CoverPolicies = {}
    BY <1>3 DEF CoverPolicies, Booked
<1> QED BY <1>1, <1>3, <1>4 DEF CoverInv, OneRequest, Asking, BoardTrue, EndsSeen, BooksOpen, BooksClosed, PremiumOf, CoverInit, Legs

\* What an applied request makes of the list of policies.
LEMMA AppliedType ==
    ASSUME NEW c \in CoverMission, NEW i \in Nat
    PROVE  Applied(c, i) \in CoverMission
<1>1. PICK intent \in [Legs -> [offered : BOOLEAN, declined : BOOLEAN, policy : Nat]] : intent = [c.intent EXCEPT ![c.leg].policy = i]
    BY DEF CoverMission
<1>2. PICK fees \in Int : fees = c.fees + CoverPremium
    BY CoverAssumption DEF CoverMission
<1>3. PICK zero \in Nat : zero = 0
    OBVIOUS
<1>4. PICK idle \in {"none", "staged", "sent", "reconciled"} : idle = "none"
    OBVIOUS
<1>5. Applied(c, i) = [c EXCEPT !.intent = intent, !.fees = fees, !.found = zero, !.action = idle]
    BY <1>1, <1>2, <1>3, <1>4 DEF Applied, CoverMission
<1> QED BY <1>5 DEF CoverMission

\* What a change of one leg's intent leaves of the mission.
LEMMA Restaged ==
    ASSUME NEW c \in CoverMission, NEW action \in {"none", "staged", "sent", "reconciled"}
    PROVE  /\ [c EXCEPT !.action = action] \in CoverMission
           /\ \A flag \in BOOLEAN : [c EXCEPT !.action = action, !.intent[c.leg].declined = flag] \in CoverMission
           /\ \A flag \in BOOLEAN, intent \in [offered : BOOLEAN, declined : BOOLEAN, policy : Nat] :
                 [c EXCEPT !.action = action, !.intent[c.leg] = intent, !.observed = flag] \in CoverMission
<1>1. [c EXCEPT !.action = action] \in CoverMission
    BY DEF CoverMission
<1>2. ASSUME NEW flag \in BOOLEAN PROVE [c EXCEPT !.action = action, !.intent[c.leg].declined = flag] \in CoverMission
    <2>1. PICK all \in [Legs -> [offered : BOOLEAN, declined : BOOLEAN, policy : Nat]] : all = [c.intent EXCEPT ![c.leg].declined = flag]
        BY DEF CoverMission
    <2>2. [c EXCEPT !.action = action, !.intent = all] \in CoverMission
        BY DEF CoverMission
    <2> QED BY <2>1, <2>2 DEF CoverMission
<1>3. ASSUME NEW flag \in BOOLEAN, NEW intent \in [offered : BOOLEAN, declined : BOOLEAN, policy : Nat]
      PROVE  [c EXCEPT !.action = action, !.intent[c.leg] = intent, !.observed = flag] \in CoverMission
    <2>1. PICK all \in [Legs -> [offered : BOOLEAN, declined : BOOLEAN, policy : Nat]] : all = [c.intent EXCEPT ![c.leg] = intent]
        BY DEF CoverMission
    <2>2. [c EXCEPT !.action = action, !.intent = all, !.observed = flag] \in CoverMission
        BY DEF CoverMission
    <2> QED BY <2>1, <2>2 DEF CoverMission
<1> QED BY <1>1, <1>2, <1>3

LEMMA CoverPoliciesFinite ==
    ASSUME CoverInv
    PROVE  IsFiniteSet(CoverPolicies) /\ CoverPolicies \subseteq DOMAIN policies
<1>1. CoverPolicies \subseteq {Booked("out"), Booked("back")}
    BY DEF CoverPolicies, Booked, Legs
<1>2. IsFiniteSet({Booked("out"), Booked("back")})
    <2>1. IsFiniteSet({Booked("out")})
        BY FS_Singleton
    <2>2. {Booked("out"), Booked("back")} = {Booked("out")} \cup {Booked("back")}
        OBVIOUS
    <2> QED BY <2>1, <2>2, FS_AddElement
<1>3. \A leg \in Legs : Booked(leg) \in CoverPolicies => Booked(leg) \in DOMAIN policies
    BY DEF CoverInv, CoverTypes, CoverMission, OneRequest, Written, CoverPolicies, Booked
<1> QED BY <1>1, <1>2, <1>3, FS_Subset DEF Legs

LEMMA SettleSums ==
    ASSUME CoverInv
    PROVE  /\ SumFunction([i \in CoverPolicies |-> Row(i, policies[i].refund)]) \in Int
           /\ SumFunction([i \in CoverPolicies |-> Row(i, policies[i].claim)]) \in Int
<1>1. \A i \in CoverPolicies : Row(i, policies[i].refund) \in Int /\ Row(i, policies[i].claim) \in Int
    <2>1. ASSUME NEW i \in CoverPolicies PROVE policies[i] \in CoverPolicy
        BY CoverPoliciesFinite DEF CoverInv, CoverTypes
    <2> QED BY <2>1 DEF Row, CoverPolicy
<1>2. PICK f : f = [i \in CoverPolicies |-> Row(i, policies[i].refund)]
    OBVIOUS
<1>3. PICK e : e = [i \in CoverPolicies |-> Row(i, policies[i].claim)]
    OBVIOUS
<1>4. SumFunctionOnSet(f, CoverPolicies) \in Int
    BY <1>1, <1>2, CoverPoliciesFinite, SumType
<1>5. SumFunctionOnSet(e, CoverPolicies) \in Int
    BY <1>1, <1>3, CoverPoliciesFinite, SumType
<1> QED BY <1>2, <1>3, <1>4, <1>5 DEF SumFunction

\* Every step keeps the types ...
LEMMA CoverTypesNext == CoverInv /\ [CoverNext]_vivars => CoverTypes'
<1> SUFFICES ASSUME CoverInv, [CoverNext]_vivars PROVE CoverTypes'
    OBVIOUS
<1> USE DEF CoverInv
<1>1. ASSUME NEW i \in DOMAIN policies, PolicyEnds(i) PROVE CoverTypes'
    <2>1. PICK status \in {"settled_safe", "claimed_loss", "cancelled"}, refund \in Refunds :
             policies' = [policies EXCEPT ![i] = [@ EXCEPT !.status = status, !.refund = refund,
                                                           !.claim = IF status = "claimed_loss" THEN Claim ELSE 0]]
        BY <1>1 DEF PolicyEnds
    <2>2. PICK claim \in Nat : claim = IF status = "claimed_loss" THEN Claim ELSE 0
        BY CoverAssumption
    <2>3. refund \in Nat
        BY CoverAssumption
    <2>4. PICK x \in CoverPolicy : x = [policies[i] EXCEPT !.status = status, !.refund = refund, !.claim = claim]
        <3>1. policies[i] \in CoverPolicy
            BY DEF CoverTypes
        <3>2. status \in {"open", "settled_safe", "claimed_loss", "cancelled"}
            OBVIOUS
        <3> QED BY <2>2, <2>3, <3>1, <3>2 DEF CoverPolicy
    <2>5. policies' = [policies EXCEPT ![i] = x]
        BY <2>1, <2>2, <2>4
    <2> QED BY <1>1, <2>4, <2>5 DEF PolicyEnds, CoverTypes
<1>2. \A leg \in Legs : Created(leg) \in Seq(CoverPolicy)
    BY DEF Created, Offered, CoverTypes, CoverPolicy
<1>3. CASE LateOffer
    BY <1>2, <1>3 DEF LateOffer, CoverTypes
<1>4. CASE CaptureBoard \/ CaptureLedger \/ RestartCover
    BY <1>4 DEF CaptureBoard, CaptureLedger, RestartCover, CoverTypes
<1>5. CASE StageCover
    <2>1. [NoIntent EXCEPT !.offered = TRUE] \in [offered : BOOLEAN, declined : BOOLEAN, policy : Nat]
        BY DEF NoIntent
    <2> QED BY <1>5, <2>1, Restaged DEF StageCover, CoverTypes
<1>6. CASE Depart
    BY <1>6 DEF Depart, CoverTypes, CoverMission
<1>7. CASE ArriveInsured
    BY <1>7 DEF ArriveInsured, CoverTypes, CoverMission, Legs
<1>8. CASE SendCover
    <2>1. {Declined, Retried, Unanswered, Applied(cover, Len(policies) + 1)} \subseteq CoverMission
        <3>1. cover \in CoverMission /\ Len(policies) + 1 \in Nat
            BY DEF CoverTypes
        <3>2. Retried \in CoverMission /\ Unanswered \in CoverMission
            BY <3>1, Restaged DEF Retried, Unanswered
        <3>3. Declined \in CoverMission
            <4>1. PICK c \in CoverMission, idle \in {"none", "staged", "sent", "reconciled"}, yes \in BOOLEAN :
                     c = cover /\ idle = "none" /\ yes = TRUE
                BY <3>1
            <4>2. [c EXCEPT !.action = idle, !.intent[c.leg].declined = yes] \in CoverMission
                BY Restaged
            <4> QED BY <4>1, <4>2 DEF Declined
        <3> QED BY <3>1, <3>2, <3>3, AppliedType
    <2>2. cover.leg \in Legs
        BY DEF CoverTypes, CoverMission
    <2>3. cover' \in {Declined, Retried, Unanswered, Applied(cover, Len(policies) + 1)}
        BY <1>8 DEF SendCover
    <2> QED BY <1>2, <1>8, <2>1, <2>2, <2>3 DEF SendCover, CoverTypes
<1>9. CASE ResendCover
    <2>1. ASSUME NEW i \in Ours PROVE Applied(cover, i) \in CoverMission
        BY AppliedType DEF Ours, CoverTypes
    <2>2. Applied(cover, Len(policies) + 1) \in CoverMission
        BY AppliedType DEF CoverTypes
    <2> QED BY <1>2, <1>9, <2>1, <2>2 DEF ResendCover, CoverTypes
<1>10. CASE Reconcile
    <2>1. PICK i \in DOMAIN board : cover' = [cover EXCEPT !.action = "reconciled", !.found = i]
        BY <1>10 DEF Reconcile
    <2>2. i \in Nat
        <3>1. board \in Seq(CoverPolicy)
            BY <1>10 DEF Reconcile, BoardTrue
        <3> QED BY <2>1, <3>1
    <2> QED BY <1>10, <2>1, <2>2 DEF Reconcile, CoverTypes, CoverMission
<1>11. CASE ApplyReconciled
    BY <1>11, AppliedType DEF ApplyReconciled, CoverTypes, CoverMission
<1>12. CASE ObserveEnds
    BY <1>12 DEF ObserveEnds, CoverTypes, CoverMission
<1>13. CASE Settle
    <2>1. cover'.fees \in Int /\ cover'.proceeds \in Int
        BY <1>13, SettleSums DEF Settle, CoverTypes, CoverMission
    <2>2. PICK fees \in Int, proceeds \in Int : cover' = [cover EXCEPT !.settled = TRUE, !.fees = fees, !.proceeds = proceeds]
        BY <1>13, <2>1 DEF Settle, CoverTypes, CoverMission
    <2> QED BY <1>13, <2>2 DEF Settle, CoverTypes, CoverMission
<1>14. CASE UNCHANGED vivars
    BY <1>14 DEF vivars, CoverTypes
<1> QED BY <1>1, <1>3, <1>4, <1>5, <1>6, <1>7, <1>8, <1>9, <1>10, <1>11, <1>12, <1>13, <1>14 DEF CoverNext

LEMMA WrittenSame ==
    ASSUME DOMAIN policies' = DOMAIN policies,
           \A i \in DOMAIN policies : policies'[i].old = policies[i].old /\ policies'[i].leg = policies[i].leg
    PROVE  \A leg \in Legs : Written(leg)' = Written(leg)
BY DEF Written

LEMMA WrittenGrows ==
    ASSUME CoverTypes, NEW leg \in Legs, policies' = Created(leg)
    PROVE  /\ Written(leg)' = Written(leg) \cup {Len(policies) + 1} /\ Len(policies) + 1 \in Nat \ {0}
           /\ Len(policies) + 1 \in DOMAIN policies' /\ Len(policies') = Len(policies) + 1
           /\ \A other \in Legs \ {leg} : Written(other)' = Written(other)
           /\ \A i \in DOMAIN policies : i \in DOMAIN policies' /\ policies'[i] = policies[i]
           /\ policies'[Len(policies) + 1] = Offered(leg)
<1>1. PICK x : x = Offered(leg)
    OBVIOUS
<1>2. policies' = Append(policies, x) /\ policies \in Seq(CoverPolicy)
    BY <1>1 DEF Created, CoverTypes
<1>3. DOMAIN policies' = DOMAIN policies \cup {Len(policies) + 1} /\ Len(policies) \in Nat /\ Len(policies') = Len(policies) + 1
    BY <1>2
<1>4. policies'[Len(policies) + 1] = x /\ \A i \in DOMAIN policies : policies'[i] = policies[i]
    BY <1>2
<1>5. x.old = FALSE /\ x.leg = leg
    BY <1>1 DEF Offered
<1>6. Len(policies) + 1 \notin DOMAIN policies
    BY <1>2
<1> QED BY <1>1, <1>3, <1>4, <1>5, <1>6 DEF Written

\* ... the one request that may be under way ...
LEMMA OneRequestNext == CoverInv /\ [CoverNext]_vivars => OneRequest'
<1> SUFFICES ASSUME CoverInv, [CoverNext]_vivars PROVE OneRequest'
    OBVIOUS
<1> USE DEF OneRequest, Asking, Booked
<1>t. CoverTypes /\ OneRequest
    BY DEF CoverInv
<1>c. cover \in CoverMission /\ cover.leg \in Legs
    BY <1>t DEF CoverTypes, CoverMission
<1>1. ASSUME NEW i \in DOMAIN policies, PolicyEnds(i) PROVE OneRequest'
    <2>1. /\ DOMAIN policies' = DOMAIN policies
          /\ \A j \in DOMAIN policies : policies'[j].old = policies[j].old /\ policies'[j].leg = policies[j].leg
        BY <1>1, <1>t DEF PolicyEnds, CoverTypes, CoverPolicy
    <2> QED BY <1>1, <1>t, <2>1, WrittenSame DEF PolicyEnds
<1>2. CASE LateOffer
    BY <1>2, <1>t, <1>c, WrittenGrows DEF LateOffer
<1>s. ASSUME policies' = policies PROVE \A leg \in Legs : Written(leg)' = Written(leg)
    BY <1>s, WrittenSame
<1>3. CASE CaptureBoard \/ CaptureLedger \/ RestartCover \/ ObserveEnds \/ Settle
    <2>1. policies' = policies /\ offer' = offer /\ cover'.intent = cover.intent /\ cover'.leg = cover.leg
          /\ cover'.action = cover.action /\ cover'.at = cover.at /\ cover'.found = cover.found
        BY <1>3, <1>c DEF CaptureBoard, CaptureLedger, RestartCover, ObserveEnds, Settle, CoverMission
    <2> QED BY <1>t, <1>s, <2>1
<1>4. CASE StageCover
    <2>1. policies' = policies /\ offer' = offer /\ cover'.leg = cover.leg /\ cover'.action = "staged" /\ cover'.at = cover.at
          /\ (\A leg \in Legs : cover'.intent[leg].policy = cover.intent[leg].policy) /\ cover.action = "none" /\ cover.at = "port"
          /\ cover.intent[cover.leg].policy = 0
        BY <1>4, <1>c DEF StageCover, CoverMission, InPort, Intent, NoIntent
    <2> QED BY <1>t, <1>s, <1>c, <2>1
<1>5. CASE Depart \/ ArriveInsured
    <2>1. policies' = policies /\ offer' = offer /\ cover'.intent = cover.intent
          /\ cover'.action = cover.action /\ cover.action = "none"
        BY <1>5, <1>c, <1>t DEF Depart, ArriveInsured, InPort, CoverMission
    <2> QED BY <1>t, <1>s, <2>1
<1>6. ASSUME NEW i \in Nat \ {0}, cover' = Applied(cover, i)
      PROVE  /\ cover'.leg = cover.leg /\ cover'.action = "none" /\ cover'.at = cover.at
             /\ cover'.intent[cover.leg].policy = i
             /\ \A leg \in Legs \ {cover.leg} : cover'.intent[leg].policy = cover.intent[leg].policy
    BY <1>6, <1>c DEF Applied, CoverMission
<1>7. CASE SendCover
    <2>1. cover.action = "staged" /\ offer = NoCover /\ cover.at = "port" /\ Booked(cover.leg) = 0
        BY <1>7, <1>t DEF SendCover
    <2>2. CASE UNCHANGED policies /\ offer' = NoCover /\ cover' \in {Declined, Retried}
        <3>1. /\ cover'.leg = cover.leg /\ cover'.action = "none" /\ cover'.at = cover.at
              /\ \A leg \in Legs : cover'.intent[leg].policy = cover.intent[leg].policy
            <4>1. CASE cover' = Retried
                BY <4>1, <1>c DEF Retried, CoverMission
            <4>2. CASE cover' = Declined
                <5>1. cover'.intent = [cover.intent EXCEPT ![cover.leg].declined = TRUE]
                    BY <4>2, <1>c DEF Declined, CoverMission
                <5>2. \A leg \in Legs : cover'.intent[leg].policy = cover.intent[leg].policy
                    BY <5>1, <1>c DEF CoverMission
                <5> QED BY <4>2, <5>2, <1>c DEF Declined, CoverMission
            <4> QED BY <2>2, <4>1, <4>2
        <3> QED BY <1>t, <1>s, <2>1, <2>2, <3>1
    <2>3. CASE policies' = Created(cover.leg) /\ offer' = NoCover /\ cover' = Applied(cover, Len(policies) + 1)
        BY <1>t, <1>c, <1>6, <2>1, <2>3, WrittenGrows
    <2>u. ASSUME cover' = Unanswered PROVE /\ cover'.leg = cover.leg /\ cover'.action = "sent" /\ cover'.at = cover.at
                                           /\ cover'.intent = cover.intent
        BY <2>u, <1>c DEF Unanswered, CoverMission
    <2>4. CASE cover' = Unanswered /\ policies' = Created(cover.leg) /\ offer' = NoCover
        BY <1>t, <1>c, <2>1, <2>4, <2>u, WrittenGrows
    <2>5. CASE cover' = Unanswered /\ policies' = policies /\ offer' = cover.leg
        BY <1>t, <1>c, <1>s, <2>1, <2>5, <2>u, CoverAssumption DEF Legs
    <2> QED BY <1>7, <2>1, <2>2, <2>3, <2>4, <2>5 DEF SendCover
<1>8. CASE ResendCover
    <2>1. CASE offer # NoCover /\ policies' = Created(offer) /\ offer' = NoCover /\ cover' = Applied(cover, Len(policies) + 1)
        BY <1>8, <1>t, <1>c, <1>6, <2>1, WrittenGrows DEF ResendCover
    <2>2. ASSUME offer = NoCover, NEW i \in Ours, cover' = Applied(cover, i), UNCHANGED <<policies, offer>> PROVE OneRequest'
        <3>1. Written(cover.leg) = Ours /\ i \in Nat \ {0}
            BY <1>t DEF Written, Ours, CoverTypes
        <3> QED BY <1>8, <1>t, <1>c, <1>s, <1>6, <2>2, <3>1 DEF ResendCover
    <2> QED BY <1>8, <2>1, <2>2 DEF ResendCover
<1>9. CASE Reconcile
    <2>1. PICK i \in DOMAIN board : Matching = {i} /\ cover' = [cover EXCEPT !.action = "reconciled", !.found = i]
        BY <1>9 DEF Reconcile
    <2>2. i \in Written(cover.leg)
        <3>1. board \in Seq(CoverPolicy) /\ Len(board) <= Len(policies) /\ policies \in Seq(CoverPolicy)
              /\ board[i].leg = policies[i].leg /\ board[i].old = policies[i].old
            BY <1>9, <2>1, <1>t DEF Reconcile, CoverInv, CoverTypes, BoardTrue
        <3>2. i \in DOMAIN policies
            BY <2>1, <3>1
        <3>3. i \in Matching
            BY <2>1
        <3>4. Match(i)
            BY <3>3 DEF Matching
        <3> QED BY <3>1, <3>2, <3>4 DEF Match, Written
    <2>3. cover'.leg = cover.leg /\ cover'.action = "reconciled" /\ cover'.found = i /\ cover'.at = cover.at
          /\ cover'.intent = cover.intent
        BY <2>1, <1>c DEF CoverMission
    <2>4. cover.action = "sent" /\ policies' = policies /\ offer' = offer
        BY <1>9 DEF Reconcile
    <2>5. offer = NoCover /\ Written(cover.leg) = {i}
        BY <1>t, <1>c, <2>2, <2>4
    <2> QED BY <1>t, <1>c, <1>s, <2>3, <2>4, <2>5
<1>10. CASE ApplyReconciled
    <2>1. cover.action = "reconciled" /\ policies' = policies /\ offer' = offer /\ cover' = Applied(cover, cover.found)
        BY <1>10 DEF ApplyReconciled
    <2>2. cover.found \in Nat \ {0}
        <3>1. cover.found \in Written(cover.leg)
            BY <1>t, <1>c, <2>1
        <3>2. cover.found \in DOMAIN policies
            BY <3>1 DEF Written
        <3> QED BY <3>2, <1>t DEF CoverTypes
    <2> QED BY <1>t, <1>c, <1>s, <1>6, <2>1, <2>2
<1>11. CASE UNCHANGED vivars
    BY <1>11, <1>t, <1>s DEF vivars
<1> QED BY <1>1, <1>2, <1>3, <1>4, <1>5, <1>7, <1>8, <1>9, <1>10, <1>11 DEF CoverNext

\* ... what the board may show ...
LEMMA BoardTrueNext == CoverInv /\ [CoverNext]_vivars => BoardTrue'
<1> SUFFICES ASSUME CoverInv, [CoverNext]_vivars PROVE BoardTrue'
    OBVIOUS
<1> USE DEF BoardTrue
<1>t. CoverTypes /\ BoardTrue
    BY DEF CoverInv
<1>p. policies \in Seq(CoverPolicy)
    BY <1>t DEF CoverTypes
<1>1. CASE board' = NoCover
    BY <1>1
<1>2. ASSUME NEW i \in DOMAIN policies, PolicyEnds(i) PROVE BoardTrue'
    <2>1. board' = board /\ Len(policies') = Len(policies) /\ DOMAIN policies' = DOMAIN policies
          /\ \A j \in DOMAIN policies : policies'[j].old = policies[j].old /\ policies'[j].leg = policies[j].leg
        BY <1>2, <1>t DEF PolicyEnds, CoverTypes, CoverPolicy
    <2>2. \A j \in DOMAIN policies : Open(policies'[j]) => Open(policies[j])
        BY <1>2, <1>t DEF PolicyEnds, CoverTypes, CoverPolicy, Open
    <2>3. board # NoCover => \A j \in DOMAIN board : j \in DOMAIN policies
        BY <1>t, <1>p
    <2> QED BY <1>t, <2>1, <2>2, <2>3
<1>3. CASE LateOffer
    <2>1. board' = board /\ offer \in Legs /\ policies' = Created(offer)
        BY <1>3, <1>t DEF LateOffer, CoverTypes
    <2>2. Len(policies) <= Len(policies') /\ Len(policies) \in Nat /\ \A i \in DOMAIN policies : policies'[i] = policies[i]
        BY <1>t, <2>1, <1>p, WrittenGrows
    <2>3. board # NoCover => Len(board) \in Nat /\ \A j \in DOMAIN board : j \in DOMAIN policies
        BY <1>t, <1>p
    <2>4. Len(policies') \in Nat
        BY <1>t, <2>1, <1>p, WrittenGrows
    <2> QED BY <1>t, <2>1, <2>2, <2>3, <2>4
<1>4. CASE board' = policies /\ policies' = policies
    BY <1>p, <1>4
<1>5. CASE UNCHANGED <<board, policies>>
    BY <1>5, <1>t
<1> QED BY <1>1, <1>2, <1>3, <1>4, <1>5 DEF CoverNext, CaptureBoard, CaptureLedger, StageCover, Depart, ArriveInsured,
            SendCover, ResendCover, Reconcile, ApplyReconciled, RestartCover, ObserveEnds, Settle, vivars

\* ... the ends that are observed before the ledger is read ...
LEMMA EndsSeenNext == CoverInv /\ [CoverNext]_vivars => EndsSeen'
<1> SUFFICES ASSUME CoverInv, [CoverNext]_vivars PROVE EndsSeen'
    OBVIOUS
<1> USE DEF EndsSeen
<1>t. CoverTypes /\ EndsSeen /\ OneRequest
    BY DEF CoverInv
<1>c. cover \in CoverMission /\ cover.leg \in Legs /\ policies \in Seq(CoverPolicy)
    BY <1>t DEF CoverTypes, CoverMission
<1>d. CoverPolicies \subseteq DOMAIN policies
    BY CoverPoliciesFinite
<1>e. ASSUME NEW same, same = cover.intent, cover'.intent = same PROVE CoverPolicies' = CoverPolicies
    BY <1>e DEF CoverPolicies
<1>f. ASSUME \A i \in DOMAIN policies : Open(policies'[i]) => Open(policies[i]) PROVE \A i \in CoverPolicies : Ended(i) => Ended(i)'
    BY <1>d, <1>f DEF Ended
<1>1. ASSUME NEW i \in DOMAIN policies, PolicyEnds(i) PROVE EndsSeen'
    <2>1. \A j \in DOMAIN policies : Open(policies'[j]) => Open(policies[j])
        BY <1>1, <1>c DEF PolicyEnds, CoverPolicy, Open
    <2> QED BY <1>1, <1>t, <1>e, <1>f, <2>1 DEF PolicyEnds
<1>2. CASE LateOffer
    <2>1. offer \in Legs /\ policies' = Created(offer)
        BY <1>2, <1>t DEF LateOffer, CoverTypes
    <2>2. \A j \in DOMAIN policies : Open(policies'[j]) => Open(policies[j])
        BY <1>t, <2>1, WrittenGrows
    <2> QED BY <1>2, <1>t, <1>e, <1>f, <2>2 DEF LateOffer
<1>s. ASSUME policies' = policies PROVE \A i : Ended(i)' = Ended(i)
    BY <1>s DEF Ended
<1>3. CASE CaptureBoard \/ RestartCover
    BY <1>3, <1>t, <1>e, <1>s DEF CaptureBoard, RestartCover
<1>4. CASE CaptureLedger
    <2>1. CASE ledger' = NoCover
        BY <1>4, <2>1, <1>t, <1>e, <1>s DEF CaptureLedger
    <2>2. CASE ledger' = [rows |-> {i \in DOMAIN policies : Ended(i)}, after |-> cover.observed]
        <3>1. cover.observed \in BOOLEAN
            BY <1>c DEF CoverMission
        <3> QED BY <1>4, <2>2, <3>1, <1>t, <1>d, <1>e, <1>s DEF CaptureLedger
    <2> QED BY <1>4, <2>1, <2>2 DEF CaptureLedger
<1>5. ASSUME cover.at = "port", cover'.at \in {"port", "sea"}, ledger' = NoCover, cover'.observed \in {FALSE, cover.observed},
             cover'.settled = cover.settled PROVE EndsSeen'
    BY <1>5, <1>t
<1>6. CASE StageCover
    <2>1. cover.at = "port" /\ cover'.at = "port" /\ cover'.observed = FALSE /\ cover'.settled = cover.settled /\ ledger' = ledger
        BY <1>6, <1>c DEF StageCover, InPort, CoverMission
    <2>2. ~cover.observed /\ ~cover.settled
        BY <2>1, <1>t
    <2> QED BY <2>1, <2>2, <1>t
<1>7. CASE Depart
    <2>1. cover.at = "port" /\ cover'.at = "sea" /\ cover'.observed = cover.observed /\ cover'.settled = cover.settled /\ ledger' = NoCover
        BY <1>7, <1>c DEF Depart, InPort, CoverMission
    <2> QED BY <2>1, <1>5
<1>8. CASE ArriveInsured
    <2>1. cover.at = "sea" /\ cover'.observed = cover.observed /\ cover'.settled = cover.settled /\ ledger' = NoCover
        BY <1>8, <1>c DEF ArriveInsured, CoverMission
    <2> QED BY <2>1, <1>t
<1>9. CASE SendCover \/ ResendCover \/ ApplyReconciled
    <2>1. cover.action # "none" /\ ledger' = NoCover
          /\ \/ cover' \in {Declined, Retried, Unanswered}
             \/ \E i : cover' = Applied(cover, i)
        BY <1>9 DEF SendCover, ResendCover, ApplyReconciled
    <2>2. cover'.at = cover.at /\ cover'.observed = cover.observed /\ cover'.settled = cover.settled
        BY <2>1, <1>c DEF Declined, Retried, Unanswered, Applied, CoverMission
    <2> QED BY <2>1, <2>2, <1>t, <1>5 DEF OneRequest
<1>10. CASE Reconcile
    <2>1. cover.action # "none" /\ ledger' = ledger /\ policies' = policies
          /\ cover'.at = cover.at /\ cover'.observed = cover.observed /\ cover'.settled = cover.settled /\ cover'.intent = cover.intent
        BY <1>10, <1>c DEF Reconcile, CoverMission
    <2> QED BY <2>1, <1>t, <1>e, <1>s
<1>11. CASE ObserveEnds
    <2>1. cover.at = "ended" /\ ledger' = ledger /\ policies' = policies /\ cover'.at = cover.at
          /\ cover'.observed = TRUE /\ cover'.settled = cover.settled /\ cover'.intent = cover.intent
        BY <1>11, <1>c DEF ObserveEnds, Finished, CoverMission
    <2>2. \A i \in CoverPolicies : Ended(i)
        BY <1>11, <1>d DEF ObserveEnds, PoliciesTerminal, CoverInv, BoardTrue, Ended
    <2> QED BY <2>1, <2>2, <1>t, <1>e, <1>s
<1>12. CASE Settle
    <2>1. cover.at = "ended" /\ ledger' = ledger /\ policies' = policies
          /\ cover'.at = cover.at /\ cover'.observed = cover.observed /\ cover'.intent = cover.intent
        BY <1>12, <1>c DEF Settle, Finished, CoverMission
    <2> QED BY <2>1, <1>t, <1>e, <1>s
<1>13. CASE UNCHANGED vivars
    BY <1>13, <1>t, <1>e, <1>s DEF vivars
<1> QED BY <1>1, <1>2, <1>3, <1>4, <1>6, <1>7, <1>8, <1>9, <1>10, <1>11, <1>12, <1>13 DEF CoverNext

\* The sum over one element, and over two.
LEMMA SumOne ==
    ASSUME NEW x, NEW f, f[x] \in Int
    PROVE  SumFunctionOnSet(f, {x}) = f[x]
<1>1. IsFiniteSet({x}) /\ {x} \ {x} = {}
    BY FS_Singleton
<1>2. SumFunctionOnSet(f, {x}) = f[x] + SumFunctionOnSet(f, {x} \ {x})
    BY <1>1, SumRemove
<1> QED BY <1>1, <1>2, SumEmpty

LEMMA SumTwo ==
    ASSUME NEW x, NEW y, x # y, NEW f, f[x] \in Int, f[y] \in Int
    PROVE  SumFunctionOnSet(f, {x, y}) = f[x] + f[y]
<1>1. PICK S : S = {y}
    OBVIOUS
<1>2. IsFiniteSet(S) /\ x \notin S /\ S \cup {x} = {x, y}
    BY <1>1, FS_Singleton
<1>3. SumFunctionOnSet(f, S \cup {x}) = f[x] + SumFunctionOnSet(f, S)
    BY <1>1, <1>2, SumAdd
<1> QED BY <1>1, <1>2, <1>3, SumOne

\* When no request is open the policies this mission wrote are those it booked.
LEMMA OwnAreBooked ==
    ASSUME CoverInv, cover.action = "none"
    PROVE  /\ OwnPolicies = CoverPolicies
           /\ Booked("out") > 0 /\ Booked("back") > 0 => Booked("out") # Booked("back")
<1>t. policies \in Seq(CoverPolicy) /\ cover \in CoverMission
    BY DEF CoverInv, CoverTypes
<1>1. \A leg \in Legs : Booked(leg) \in Nat /\ Written(leg) = IF Booked(leg) > 0 THEN {Booked(leg)} ELSE {}
    BY <1>t DEF CoverInv, OneRequest, Asking, Booked, CoverMission
<1>2. OwnPolicies = Written("out") \cup Written("back")
    <2>1. ASSUME NEW i \in DOMAIN policies PROVE policies[i].leg \in {"out", "back"}
        <3>1. policies[i] \in CoverPolicy
            BY <1>t
        <3> QED BY <3>1 DEF CoverPolicy, Legs
    <2> QED BY <2>1 DEF OwnPolicies, Written
<1>3. CoverPolicies = {Booked("out"), Booked("back")} \ {0}
    BY DEF CoverPolicies, Booked, Legs
<1>4. Written("out") \cap Written("back") = {}
    BY DEF Written
<1> QED BY <1>1, <1>2, <1>3, <1>4 DEF Legs

\* What is booked when the ends are read: premiums less refunds, and claims.
LEMMA SettledSums ==
    ASSUME CoverInv, cover.action = "none", CoverPolicies # {}, CoverPolicies \subseteq ledger.rows
    PROVE  /\ PremiumOf("out") + PremiumOf("back") - SumFunction([i \in CoverPolicies |-> Row(i, policies[i].refund)])
              = SumFunction([i \in OwnPolicies |-> CoverPremium - policies[i].refund])
           /\ SumFunction([i \in CoverPolicies |-> Row(i, policies[i].claim)])
              = SumFunction([i \in OwnPolicies |-> policies[i].claim])
<1>1. PICK C : C = CoverPolicies
    OBVIOUS
<1>2. C = OwnPolicies /\ C \subseteq DOMAIN policies /\ IsFiniteSet(C)
    BY <1>1, OwnAreBooked, CoverPoliciesFinite
<1>3. PICK refund : refund = [i \in C |-> Row(i, policies[i].refund)]
    OBVIOUS
<1>4. PICK cost : cost = [i \in C |-> CoverPremium - policies[i].refund]
    OBVIOUS
<1>5. [i \in C |-> Row(i, policies[i].claim)] = [i \in C |-> policies[i].claim]
    BY <1>1 DEF Row
<1>6. \A i \in C : refund[i] \in Int /\ cost[i] = CoverPremium - refund[i] /\ cost[i] \in Int
    <2>1. ASSUME NEW i \in C PROVE policies[i] \in CoverPolicy
        BY <1>2 DEF CoverInv, CoverTypes
    <2> QED BY <1>1, <1>3, <1>4, <2>1, CoverAssumption DEF Row, CoverPolicy
<1>7. PremiumOf("out") + PremiumOf("back") - SumFunctionOnSet(refund, C) = SumFunctionOnSet(cost, C)
    <2>1. PICK a \in Nat : a = Booked("out")
        BY DEF CoverInv, CoverTypes, CoverMission, Booked, Legs
    <2>2. PICK b \in Nat : b = Booked("back")
        BY DEF CoverInv, CoverTypes, CoverMission, Booked, Legs
    <2>3. C = {a, b} \ {0} /\ (a > 0 /\ b > 0 => a # b)
        BY <1>1, <2>1, <2>2, OwnAreBooked DEF CoverPolicies, Booked, Legs
    <2>4. PremiumOf("out") = (IF a > 0 THEN CoverPremium ELSE 0) /\ PremiumOf("back") = (IF b > 0 THEN CoverPremium ELSE 0) /\ CoverPremium \in Nat
        BY <2>1, <2>2, CoverAssumption DEF PremiumOf
    <2>5. CASE a > 0 /\ b > 0
        <3>1. C = {a, b}
            BY <2>3, <2>5
        <3>2. SumFunctionOnSet(refund, C) = refund[a] + refund[b] /\ SumFunctionOnSet(cost, C) = cost[a] + cost[b]
            BY <1>6, <2>3, <2>5, <3>1, SumTwo
        <3> QED BY <1>6, <2>4, <2>5, <3>1, <3>2
    <2>6. ASSUME NEW x \in C, C = {x} PROVE SumFunctionOnSet(refund, C) = refund[x] /\ SumFunctionOnSet(cost, C) = cost[x]
        BY <1>6, <2>6, SumOne
    <2>7. CASE a > 0 /\ b = 0
        <3>1. C = {a}
            BY <2>3, <2>7
        <3> QED BY <1>6, <2>4, <2>6, <2>7, <3>1
    <2>8. CASE a = 0 /\ b > 0
        <3>1. C = {b}
            BY <2>3, <2>8
        <3> QED BY <1>6, <2>4, <2>6, <2>8, <3>1
    <2>9. a > 0 \/ b > 0
        BY <1>1, <2>3
    <2> QED BY <2>5, <2>7, <2>8, <2>9
<1> QED BY <1>1, <1>2, <1>3, <1>4, <1>5, <1>7 DEF SumFunction

\* ... and the books, open or closed.
LEMMA BooksNext == CoverInv /\ [CoverNext]_vivars => BooksOpen' /\ BooksClosed'
<1> SUFFICES ASSUME CoverInv, [CoverNext]_vivars PROVE BooksOpen' /\ BooksClosed'
    OBVIOUS
<1>t. CoverTypes /\ BooksOpen /\ BooksClosed /\ OneRequest /\ EndsSeen
    BY DEF CoverInv
<1>c. cover \in CoverMission /\ cover.leg \in Legs /\ policies \in Seq(CoverPolicy)
    BY <1>t DEF CoverTypes, CoverMission
<1>1. ASSUME \A leg \in Legs : Booked(leg)' = Booked(leg), cover'.fees = cover.fees, cover'.proceeds = cover.proceeds,
             ~cover.settled, ~cover'.settled PROVE BooksOpen' /\ BooksClosed'
    BY <1>1, <1>t DEF BooksOpen, BooksClosed, PremiumOf, Legs
<1>2. ASSUME NEW i \in DOMAIN policies, PolicyEnds(i) PROVE BooksOpen' /\ BooksClosed'
    <2>1. cover' = cover
        BY <1>2 DEF PolicyEnds
    <2>2. CASE ~cover.settled
        BY <1>1, <2>1, <2>2 DEF Booked
    <2>3. CASE cover.settled
        <3>1. i \notin OwnPolicies
            BY <1>2, <1>t, <2>3 DEF BooksClosed, PolicyEnds, Ended
        <3>2. DOMAIN policies' = DOMAIN policies /\ (\A j \in DOMAIN policies : policies'[j].old = policies[j].old)
              /\ \A j \in DOMAIN policies : j # i => policies'[j] = policies[j]
            BY <1>2, <1>c DEF PolicyEnds, CoverPolicy
        <3>3. OwnPolicies' = OwnPolicies /\ \A j \in OwnPolicies : policies'[j] = policies[j]
            BY <3>1, <3>2 DEF OwnPolicies
        <3>4. PICK S : S = OwnPolicies
            OBVIOUS
        <3>5. [j \in S |-> CoverPremium - policies'[j].refund] = [j \in S |-> CoverPremium - policies[j].refund]
              /\ [j \in S |-> policies'[j].claim] = [j \in S |-> policies[j].claim]
            BY <3>3, <3>4
        <3>6. CoverBooked'
            BY <1>t, <2>1, <2>3, <3>3, <3>4, <3>5 DEF CoverBooked, BooksClosed
        <3>7. \A j \in OwnPolicies' : Ended(j)'
            BY <1>t, <2>3, <3>3 DEF BooksClosed, Ended
        <3> QED BY <1>t, <2>1, <2>3, <3>6, <3>7 DEF BooksClosed, BooksOpen
    <2> QED BY <2>2, <2>3
<1>3. CASE cover' = cover /\ policies' = policies
    <2>1. CASE ~cover.settled
        BY <1>1, <1>3, <2>1 DEF Booked
    <2>2. CASE cover.settled
        BY <1>t, <1>3, <2>2 DEF BooksClosed, BooksOpen, CoverBooked, OwnPolicies, Ended
    <2> QED BY <2>1, <2>2
<1>4. CASE LateOffer
    <2>1. cover' = cover /\ ~cover.settled
        BY <1>4, <1>t DEF LateOffer, OneRequest, BooksClosed
    <2> QED BY <1>1, <2>1 DEF Booked
<1>5. CASE StageCover \/ Depart \/ ArriveInsured
    <2>2. ~cover.settled
        <3>1. cover.at \in {"port", "sea"}
            BY <1>5 DEF StageCover, Depart, ArriveInsured, InPort
        <3> QED BY <1>t, <3>1 DEF EndsSeen
    <2>3. cover'.fees = cover.fees /\ cover'.proceeds = cover.proceeds /\ cover'.settled = cover.settled
        BY <1>5, <1>c DEF StageCover, Depart, ArriveInsured, CoverMission
    <2>4. CASE cover'.intent = cover.intent
        BY <1>1, <2>2, <2>3, <2>4 DEF Booked
    <2>5. CASE StageCover
        <3>1. \A leg \in Legs : cover'.intent[leg].policy = cover.intent[leg].policy
            BY <2>5, <1>c DEF StageCover, CoverMission, InPort, Intent, NoIntent
        <3> QED BY <1>1, <2>2, <2>3, <3>1 DEF Booked
    <2>6. Depart \/ ArriveInsured => cover'.intent = cover.intent
        BY <1>c DEF Depart, ArriveInsured, CoverMission
    <2> QED BY <1>5, <2>4, <2>5, <2>6
<1>6. ASSUME cover.action # "none", NEW i \in Nat \ {0}, cover' = Applied(cover, i) PROVE BooksOpen' /\ BooksClosed'
    <2>1. ~cover.settled /\ Booked(cover.leg) = 0
        BY <1>6, <1>t DEF OneRequest, BooksClosed
    <2>2. /\ cover'.intent[cover.leg].policy = i /\ cover'.settled = cover.settled
          /\ cover'.fees = cover.fees + CoverPremium /\ cover'.proceeds = cover.proceeds
          /\ \A leg \in Legs \ {cover.leg} : cover'.intent[leg].policy = cover.intent[leg].policy
        BY <1>6, <1>c DEF Applied, CoverMission
    <2>3. cover.fees = PremiumOf("out") + PremiumOf("back") /\ cover.proceeds = 0
        BY <1>t, <2>1 DEF BooksOpen
    <2>4. CoverPremium \in Nat
        BY CoverAssumption
    <2>5. CASE cover.leg = "out"
        BY <2>1, <2>2, <2>3, <2>4, <2>5 DEF BooksOpen, BooksClosed, PremiumOf, Booked, Legs
    <2>6. CASE cover.leg = "back"
        BY <2>1, <2>2, <2>3, <2>4, <2>6 DEF BooksOpen, BooksClosed, PremiumOf, Booked, Legs
    <2> QED BY <1>c, <2>5, <2>6 DEF Legs
<1>7. CASE SendCover \/ ResendCover \/ ApplyReconciled
    <2>1. cover.action # "none" /\ ~cover.settled
        BY <1>7, <1>t DEF SendCover, ResendCover, ApplyReconciled, BooksClosed
    <2>2. \/ cover' \in {Declined, Retried, Unanswered}
          \/ \E i \in Nat \ {0} : cover' = Applied(cover, i)
        <3>1. Ours \subseteq Nat \ {0} /\ Len(policies) + 1 \in Nat \ {0}
            BY <1>c DEF Ours
        <3>2. ASSUME cover.action = "reconciled" PROVE cover.found \in Nat \ {0}
            <4>1. cover.found \in Written(cover.leg)
                BY <3>2, <1>t, <1>c DEF OneRequest
            <4> QED BY <4>1, <1>c DEF Written
        <3>3. SendCover => cover' \in {Declined, Retried, Unanswered} \/ cover' = Applied(cover, Len(policies) + 1)
            BY DEF SendCover
        <3>4. ResendCover => cover' = Applied(cover, Len(policies) + 1) \/ \E i \in Ours : cover' = Applied(cover, i)
            BY DEF ResendCover
        <3>5. ApplyReconciled => cover.action = "reconciled" /\ cover' = Applied(cover, cover.found)
            BY DEF ApplyReconciled
        <3> QED BY <1>7, <3>1, <3>2, <3>3, <3>4, <3>5
    <2>3. CASE cover' \in {Declined, Retried, Unanswered}
        <3>1. cover'.fees = cover.fees /\ cover'.proceeds = cover.proceeds /\ cover'.settled = cover.settled
            BY <2>3, <1>c DEF Declined, Retried, Unanswered, CoverMission
        <3>2. cover' = Declined => cover'.intent = [cover.intent EXCEPT ![cover.leg].declined = TRUE]
            BY <1>c DEF Declined, CoverMission
        <3>3. cover' # Declined => cover'.intent = cover.intent
            BY <2>3, <1>c DEF Retried, Unanswered, CoverMission
        <3>4. \A leg \in Legs : cover'.intent[leg].policy = cover.intent[leg].policy
            BY <3>2, <3>3, <1>c DEF CoverMission
        <3> QED BY <1>1, <2>1, <3>1, <3>4 DEF Booked
    <2> QED BY <1>6, <2>1, <2>2, <2>3
<1>8. CASE Reconcile \/ ObserveEnds
    <2>1. ~cover.settled
        BY <1>8, <1>t DEF Reconcile, ObserveEnds, Finished, BooksClosed
    <2>2. cover'.fees = cover.fees /\ cover'.proceeds = cover.proceeds /\ cover'.settled = cover.settled /\ cover'.intent = cover.intent
        BY <1>8, <1>c DEF Reconcile, ObserveEnds, CoverMission
    <2> QED BY <1>1, <2>1, <2>2 DEF Booked
<1>9. CASE Settle
    <2>1. policies' = policies /\ cover'.settled /\ cover'.action = "none" /\ cover.action = "none" /\ ~cover.settled
        BY <1>9, <1>c DEF Settle, Finished, CoverMission
    <2>2. cover.fees = PremiumOf("out") + PremiumOf("back") /\ cover.proceeds = 0
        BY <1>t, <2>1 DEF BooksOpen
    <2>3. OwnPolicies' = OwnPolicies /\ OwnPolicies = CoverPolicies
        BY <2>1, OwnAreBooked DEF OwnPolicies
    <2>4. CASE CoverPolicies = {}
        <3>1. cover'.fees = cover.fees /\ cover'.proceeds = cover.proceeds
            BY <1>9, <2>4, <1>c DEF Settle, CoverMission
        <3>2. cover.fees = 0
            <4>1. Booked("out") \in Nat /\ Booked("back") \in Nat /\ {Booked("out"), Booked("back")} \subseteq {0}
                BY <2>4, <1>c DEF CoverPolicies, Booked, Legs, CoverMission
            <4> QED BY <2>2, <4>1 DEF PremiumOf
        <3>3. \A f : DOMAIN f = {} => SumFunction(f) = 0
            BY SumEmpty DEF SumFunction
        <3>4. CoverBooked'
            BY <2>1, <2>2, <2>3, <2>4, <3>1, <3>2, <3>3 DEF CoverBooked
        <3> QED BY <2>1, <2>3, <2>4, <3>4 DEF BooksOpen, BooksClosed
    <2>5. CASE CoverPolicies # {}
        <3>1. LedgerCurrent /\ PoliciesTerminal
            BY <1>9, <2>5 DEF Settle
        <3>2. CoverPolicies \subseteq ledger.rows /\ \A i \in CoverPolicies : Ended(i)
            BY <3>1, <1>t DEF LedgerCurrent, EndsSeen
        <3>3. PICK refunds \in Int : refunds = SumFunction([i \in CoverPolicies |-> Row(i, policies[i].refund)])
            BY SettleSums
        <3>4. PICK claims \in Int : claims = SumFunction([i \in CoverPolicies |-> Row(i, policies[i].claim)])
            BY SettleSums
        <3>5. cover' = [cover EXCEPT !.settled = TRUE, !.fees = cover.fees - refunds, !.proceeds = cover.proceeds + claims]
            BY <1>9, <2>5, <3>3, <3>4 DEF Settle
        <3>6. cover'.fees = cover.fees - refunds /\ cover'.proceeds = claims
            BY <2>2, <3>4, <3>5, <1>c DEF CoverMission
        <3>7. CoverBooked'
            <4>1. /\ PremiumOf("out") + PremiumOf("back") - refunds = SumFunction([i \in OwnPolicies |-> CoverPremium - policies[i].refund])
                  /\ claims = SumFunction([i \in OwnPolicies |-> policies[i].claim])
                BY <2>1, <2>5, <3>2, <3>3, <3>4, SettledSums
            <4>2. PICK S : S = OwnPolicies
                OBVIOUS
            <4>3. cover'.fees = SumFunction([i \in OwnPolicies |-> CoverPremium - policies[i].refund])
                <5>1. cover'.fees = PremiumOf("out") + PremiumOf("back") - refunds
                    <6>1. PremiumOf("out") \in Int /\ PremiumOf("back") \in Int
                        BY CoverAssumption DEF PremiumOf
                    <6> QED BY <2>2, <3>6, <6>1
                <5> QED BY <4>1, <5>1
            <4>4. cover'.proceeds = SumFunction([i \in OwnPolicies |-> policies[i].claim])
                BY <3>6, <4>1
            <4>5. [i \in S |-> CoverPremium - policies'[i].refund] = [i \in S |-> CoverPremium - policies[i].refund]
                  /\ [i \in S |-> policies'[i].claim] = [i \in S |-> policies[i].claim]
                BY <2>1
            <4> QED BY <2>3, <4>2, <4>3, <4>4, <4>5 DEF CoverBooked
        <3> QED BY <2>1, <2>3, <3>2, <3>7 DEF BooksOpen, BooksClosed, Ended
    <2> QED BY <2>4, <2>5
<1> QED BY <1>2, <1>3, <1>4, <1>5, <1>7, <1>8, <1>9 DEF CoverNext, CaptureBoard, CaptureLedger, RestartCover, vivars

\* The books of a settled mission are what its policies really cost and paid.
THEOREM CoverBookedHolds == CoverSpec => []CoverBooked
<1>1. CoverInit => CoverInv
    BY CoverInit1
<1>2. CoverInv /\ [CoverNext]_vivars => CoverInv'
    BY CoverTypesNext, OneRequestNext, BoardTrueNext, EndsSeenNext, BooksNext DEF CoverInv
<1>3. CoverInv => CoverBooked
    BY DEF CoverInv, BooksClosed, CoverBooked
<1> QED BY <1>1, <1>2, <1>3, PTL DEF CoverSpec

-----------------------------------------------------------------------------
(* Underwriting *)

OfServer == [status : TermEnds \cup {"open", "cancelled"}, at : Nat, ours : BOOLEAN, shown : SUBSET Listing]
UnderwritingTypes ==
    /\ policy \in [Policies -> OfServer]
    /\ rec \in [Policies -> Record \cup {Unknown}] /\ pos \in [Policies -> Position \cup {Unknown}]
    /\ initial \in Nat /\ request \in Policies \cup {Unknown} /\ foreign \in SUBSET Policies
    /\ mission \in Undertaking \cup {Unknown} /\ observed \in Observed \cup {Unknown}

\* On the frozen terms, what was shown or recorded of an end is the end.
EndsTrue ==
    \A p \in Policies :
        /\ \A l \in policy[p].shown : l.terms = 1 => l.status \in {"open", policy[p].status}
        /\ rec[p] # Unknown => rec[p].now \in policy[p].shown
        /\ pos[p] # Unknown => pos[p].terms = 1 /\ (pos[p].closed => pos[p].status \in TermEnds /\ pos[p].status = policy[p].status)
\* A slice from before this database keeps it from writing any.
ForeignBlocks ==
    /\ foreign \subseteq Slices /\ (observed # Unknown => foreign \subseteq observed.owned)
    /\ foreign # {} => mission = Unknown /\ Positions = {} /\ Slices = foreign
\* Every slice has its receipt or is the one being asked for.
Asked == {p \in Policies : In({"ambiguous", "complete"}) /\ p = mission.policy}
SlicesKnown ==
    /\ request # Unknown => In({"ambiguous"}) /\ mission.policy = request
    /\ In({"complete"}) => mission.policy \in Slices
    /\ foreign = {} => Positions \subseteq Slices /\ Slices \subseteq Positions \cup Asked
\* A request whose answer was lost counts as collateral already locked.
PendingLoss == IF In({"ambiguous"}) /\ mission.policy \notin Slices THEN Collateral ELSE 0
WithinBudget ==
    foreign = {} =>
      SumFunction([p \in Slices |-> RealLoss(p)]) + PendingLoss <= initial + SumFunction([p \in Slices |-> RealGain(p)]) \div 10
UnderwritingInv == UnderwritingTypes /\ EndsTrue /\ ForeignBlocks /\ SlicesKnown /\ WithinBudget

\* Nothing is listed, receipted or asked for at the start.
LEMMA UnderwritingInit1 == UnderwritingInit => UnderwritingInv
<1> SUFFICES ASSUME UnderwritingInit PROVE UnderwritingInv
    OBVIOUS
<1>1. Listed("open", 1, 1) \in Listing
    BY DEF Listed, Listing
<1>2. UnderwritingTypes
    <2>1. ASSUME NEW p \in Policies PROVE policy[p] \in OfServer
        <3>0. (p \in foreign) \in BOOLEAN
            OBVIOUS
        <3>1. PICK flag \in BOOLEAN : flag = (p \in foreign)
            BY <3>0
        <3>2. PICK listed \in Listing : listed = Listed("open", 1, 1)
            BY <1>1
        <3>3. policy[p] = [status |-> "open", at |-> 1, ours |-> flag, shown |-> {listed}]
            BY <3>1, <3>2 DEF UnderwritingInit
        <3> QED BY <3>3 DEF OfServer
    <2>2. policy \in [Policies -> OfServer]
        BY <2>1 DEF UnderwritingInit
    <2> QED BY <2>2 DEF UnderwritingInit, UnderwritingTypes
<1>3. EndsTrue
    BY DEF UnderwritingInit, EndsTrue, Listed
<1>4. Slices = foreign /\ Positions = {}
    BY DEF UnderwritingInit, Slices, Positions
<1>5. foreign = {} => WithinBudget
    <2>1. SUFFICES ASSUME foreign = {} PROVE WithinBudget
        OBVIOUS
    <2>2. \A f : DOMAIN f = {} => SumFunction(f) = 0
        BY SumEmpty DEF SumFunction
    <2>3. DOMAIN [p \in Slices |-> RealLoss(p)] = {} /\ DOMAIN [p \in Slices |-> RealGain(p)] = {}
        BY <1>4, <2>1
    <2>4. SumFunction([p \in Slices |-> RealLoss(p)]) = 0 /\ SumFunction([p \in Slices |-> RealGain(p)]) = 0
        BY <2>2, <2>3
    <2>5. PendingLoss = 0 /\ initial = 0
        BY DEF PendingLoss, In, UnderwritingInit
    <2> QED BY <2>4, <2>5 DEF WithinBudget
<1> QED BY <1>2, <1>3, <1>4, <1>5 DEF UnderwritingInv, ForeignBlocks, SlicesKnown, In, UnderwritingInit, WithinBudget

\* What a listing does to a record.
LEMMA MergeKeeps ==
    ASSUME NEW old \in Record \cup {Unknown}, NEW new \in Listing
    PROVE  Merge(old, new) \in Record /\ (Merge(old, new).now = new \/ (old # Unknown /\ Merge(old, new).now = old.now))
<1>1. CASE old = Unknown
    BY <1>1 DEF Merge, Record, Listing
<1>2. CASE old \in Record /\ old # Unknown
    <2>1. PICK changed \in BOOLEAN : changed = Merge(old, new).changed
        BY <1>2 DEF Merge
    <2>2. PICK kept \in Listing : kept = Merge(old, new).now /\ kept \in {new, old.now}
        BY <1>2 DEF Merge, Record
    <2>3. Merge(old, new) = [first |-> old.first, now |-> kept, changed |-> changed]
        BY <1>2, <2>1, <2>2 DEF Merge
    <2> QED BY <1>2, <2>2, <2>3 DEF Record
<1> QED BY <1>1, <1>2

\* What a record does to a position.
LEMMA ClosedKeeps ==
    ASSUME NEW position \in Position, NEW record \in Record \cup {Unknown}, NEW proven \in BOOLEAN
    PROVE  LET after == Closed(PolicyFunded(position, proven), record) IN
           /\ after \in Position /\ after.terms = position.terms
           /\ \/ after.closed = position.closed /\ after.status = position.status
              \/ /\ record # Unknown /\ after.closed /\ after.status = record.now.status
                 /\ record.now.status \in TermEnds /\ record.now.terms = position.terms
<1> DEFINE funded == PolicyFunded(position, proven)
<1>1. PICK flag \in BOOLEAN : flag = (position.funded \/ proven)
    OBVIOUS
<1>2. funded = [position EXCEPT !.funded = flag]
    BY <1>1 DEF PolicyFunded
<1>3. funded \in Position /\ funded.terms = position.terms /\ funded.closed = position.closed /\ funded.status = position.status
    BY <1>2 DEF Position
<1> HIDE DEF funded
<1>4. CASE Closed(funded, record) = funded
    BY <1>3, <1>4 DEF funded
<1>5. CASE ~(funded.closed \/ record = Unknown \/ record.changed \/ record.now.status \notin TermEnds \/ record.now.terms # funded.terms)
    <2>1. Closed(funded, record) = [funded EXCEPT !.closed = TRUE, !.status = record.now.status]
        BY <1>5 DEF Closed
    <2>2. PICK status \in TermEnds : status = record.now.status
        BY <1>5
    <2>3. PICK yes \in BOOLEAN : yes = TRUE
        OBVIOUS
    <2>4. PICK after : after = [funded EXCEPT !.closed = yes, !.status = status]
        OBVIOUS
    <2>5. after \in Position /\ after.terms = funded.terms /\ after.closed /\ after.status = status
        BY <1>3, <2>3, <2>4 DEF Position
    <2>6. Closed(funded, record) = after
        BY <2>1, <2>2, <2>3, <2>4
    <2> QED BY <1>3, <1>5, <2>2, <2>5, <2>6 DEF funded
<1> QED BY <1>4, <1>5 DEF Closed

\* What a capture records and settles.
LEMMA CaptureTypes ==
    ASSUME UnderwritingTypes, NEW shown \in Boards
    PROVE  /\ shown \in [Policies -> Listing \cup {Unknown}]
           /\ Recorded(shown) \in [Policies -> Record \cup {Unknown}]
           /\ \A proven : Settled(Recorded(shown), proven) \in [Policies -> Position \cup {Unknown}]
<1>1. \A p \in Policies : shown[p] \in Listing \cup {Unknown}
    BY DEF Boards, UnderwritingTypes, OfServer
<1>2. shown \in [Policies -> Listing \cup {Unknown}]
    BY <1>1 DEF Boards
<1>3. \A p \in Policies : Recorded(shown)[p] \in Record \cup {Unknown}
    BY <1>1, MergeKeeps DEF Recorded, UnderwritingTypes
<1>4. Recorded(shown) \in [Policies -> Record \cup {Unknown}]
    BY <1>3 DEF Recorded
<1>5. PICK records \in [Policies -> Record \cup {Unknown}] : records = Recorded(shown)
    BY <1>4
<1>6. ASSUME NEW proven PROVE Settled(records, proven) \in [Policies -> Position \cup {Unknown}]
    <2>1. ASSUME NEW p \in Policies PROVE Settled(records, proven)[p] \in Position \cup {Unknown}
        <3>1. CASE pos[p] = Unknown
            BY <3>1 DEF Settled
        <3>2. CASE pos[p] # Unknown
            <4>1. pos[p] \in Position /\ records[p] \in Record \cup {Unknown} /\ (p \in proven) \in BOOLEAN
                BY <3>2 DEF UnderwritingTypes
            <4>2. Closed(PolicyFunded(pos[p], p \in proven), records[p]) \in Position
                BY <4>1, ClosedKeeps
            <4> QED BY <3>2, <4>2 DEF Settled
        <3> QED BY <3>1, <3>2
    <2> QED BY <2>1 DEF Settled
<1> QED BY <1>2, <1>4, <1>5, <1>6

\* A listing, a lock and a mission that moves on.
LEMMA ListedType ==
    ASSUME NEW status \in TermEnds \cup {"open", "cancelled"}, NEW time \in Nat, NEW terms \in {1, 2}
    PROVE  Listed(status, time, terms) \in Listing /\ Listed(status, time, terms).status = status /\ Listed(status, time, terms).terms = terms
BY DEF Listed, Listing

LEMMA LocksType ==
    ASSUME UnderwritingTypes, NEW p \in Policies
    PROVE  /\ Locks(p) \in [Policies -> OfServer]
           /\ \A q \in Policies : /\ Locks(p)[q].ours = (policy[q].ours \/ q = p)
                                  /\ Locks(p)[q].status = policy[q].status /\ Locks(p)[q].shown = policy[q].shown
<1>1. PICK yes \in BOOLEAN : yes = TRUE
    OBVIOUS
<1>2. PICK x : x = [policy[p] EXCEPT !.ours = yes]
    OBVIOUS
<1>3. x \in OfServer /\ x.ours = yes /\ x.status = policy[p].status /\ x.shown = policy[p].shown
    BY <1>2 DEF UnderwritingTypes, OfServer
<1>4. Locks(p) = [policy EXCEPT ![p] = x]
    BY <1>1, <1>2 DEF Locks
<1>5. Locks(p) \in [Policies -> OfServer] /\ Locks(p)[p] = x /\ \A q \in Policies \ {p} : Locks(p)[q] = policy[q]
    BY <1>3, <1>4 DEF UnderwritingTypes
<1>6. ASSUME NEW q \in Policies
      PROVE  Locks(p)[q].ours = (policy[q].ours \/ q = p) /\ Locks(p)[q].status = policy[q].status /\ Locks(p)[q].shown = policy[q].shown
    <2>1. CASE q = p
        BY <1>1, <1>3, <1>5, <2>1
    <2>2. CASE q # p
        <3>1. policy[q].ours \in BOOLEAN
            BY DEF UnderwritingTypes, OfServer
        <3> QED BY <1>5, <2>2, <3>1
    <2> QED BY <2>1, <2>2
<1> QED BY <1>5, <1>6

LEMMA MissionTypes ==
    ASSUME UnderwritingTypes, mission # Unknown, NEW state \in {"new", "staged", "ambiguous", "complete", "refused", "done"}, Becomes(state)
    PROVE  /\ mission' \in Undertaking /\ mission' # Unknown /\ mission \in Undertaking
           /\ mission'.policy = mission.policy /\ mission'.terms = mission.terms /\ mission'.state = state
<1>1. mission' = [mission EXCEPT !.state = state] /\ mission \in Undertaking
    BY DEF UnderwritingTypes, Becomes
<1>2. mission' \in Undertaking /\ mission'.policy = mission.policy /\ mission'.terms = mission.terms /\ mission'.state = state
    BY <1>1 DEF Undertaking
<1> QED BY <1>1, <1>2, UnknownAssumption

\* What a step makes of the server's policies.
LEMMA PolicyStep ==
    ASSUME UnderwritingTypes, NEW p \in Policies, UnderwrittenEnds(p) \/ OddListing(p)
    PROVE  /\ policy' \in [Policies -> OfServer]
           /\ \A q \in Policies : /\ policy'[q].ours = policy[q].ours /\ policy[q].shown \subseteq policy'[q].shown
                                  /\ \A l \in policy'[q].shown \ policy[q].shown : l.terms = 1 => l.status = policy'[q].status
                                  /\ policy[q].status # "open" => policy'[q].status = policy[q].status
<1>1. PICK status \in TermEnds \cup {"open", "cancelled"}, listed \in Listing, time \in Nat :
         /\ policy' = [policy EXCEPT ![p] = [@ EXCEPT !.status = status, !.at = time, !.shown = policy[p].shown \cup {listed}]]
         /\ listed.terms = 1 => listed.status = status
         /\ policy[p].status # "open" => status = policy[p].status
    <2>1. policy[p].at + 1 \in Nat /\ policy[p] \in OfServer /\ policy[p].status \in TermEnds \cup {"open", "cancelled"}
        BY DEF UnderwritingTypes, OfServer
    <2>2. PICK time \in Nat : time = policy[p].at + 1
        BY <2>1
    <2>3. CASE UnderwrittenEnds(p)
        <3>1. PICK status \in TermEnds \cup {"cancelled"} :
                 policy' = [policy EXCEPT ![p] = [@ EXCEPT !.status = status, !.at = policy[p].at + 1,
                                                           !.shown = policy[p].shown \cup {Listed(status, policy[p].at + 1, 1)}]]
            BY <2>3 DEF UnderwrittenEnds
        <3>2. PICK listed \in Listing : listed = Listed(status, policy[p].at + 1, 1) /\ listed.status = status
            BY <2>1, ListedType
        <3> QED BY <2>2, <2>3, <3>1, <3>2 DEF UnderwrittenEnds
    <2>4. CASE OddListing(p)
        <3>1. PICK shown \in TermEnds \cup {"open"} :
                 policy' = [policy EXCEPT ![p] = [@ EXCEPT !.at = policy[p].at + 1,
                                                           !.shown = policy[p].shown \cup {Listed(shown, policy[p].at + 1, 2)}]]
            BY <2>4 DEF OddListing
        <3>2. PICK listed \in Listing : listed = Listed(shown, policy[p].at + 1, 2) /\ listed.terms = 2
            BY <2>1, ListedType
        <3>3. PICK status \in TermEnds \cup {"open", "cancelled"} : status = policy[p].status
            BY <2>1
        <3>4. [policy[p] EXCEPT !.at = time, !.shown = policy[p].shown \cup {listed}] = [policy[p] EXCEPT !.status = status, !.at = time, !.shown = policy[p].shown \cup {listed}]
            BY <2>1, <3>3 DEF OfServer
        <3>5. policy' = [policy EXCEPT ![p] = [policy[p] EXCEPT !.status = status, !.at = time, !.shown = policy[p].shown \cup {listed}]]
            BY <2>2, <3>1, <3>2, <3>4
        <3>6. listed.terms = 1 => listed.status = status
            BY <3>2
        <3> QED BY <3>3, <3>5, <3>6
    <2> QED BY <2>3, <2>4
<1>2. PICK x : x = [policy[p] EXCEPT !.status = status, !.at = time, !.shown = policy[p].shown \cup {listed}]
    OBVIOUS
<1>3. x \in OfServer /\ x.ours = policy[p].ours /\ x.status = status /\ x.shown = policy[p].shown \cup {listed}
    BY <1>2 DEF UnderwritingTypes, OfServer
<1>4. policy' = [policy EXCEPT ![p] = x]
    BY <1>1, <1>2
<1> QED BY <1>1, <1>3, <1>4 DEF UnderwritingTypes

\* Every step keeps the types ...
LEMMA UnderwritingTypesNext == UnderwritingTypes /\ [UnderwritingNext]_uwvars => UnderwritingTypes'
<1> SUFFICES ASSUME UnderwritingTypes, [UnderwritingNext]_uwvars PROVE UnderwritingTypes'
    OBVIOUS
<1> USE DEF UnderwritingTypes
<1>1. ASSUME NEW p \in Policies, UnderwrittenEnds(p) \/ OddListing(p) PROVE UnderwritingTypes'
    BY <1>1, PolicyStep DEF UnderwrittenEnds, OddListing
<1>2. CASE CapturePolicies
    <2>1. PICK shown \in Boards, proven \in SUBSET Policies : /\ rec' = Recorded(shown)
              /\ \/ pos' = Settled(Recorded(shown), proven) /\ observed' = [board |-> shown, owned |-> {p \in Policies : policy[p].ours}]
                 \/ observed' = Unknown /\ UNCHANGED pos
              /\ UNCHANGED <<policy, foreign, request, initial, mission>>
        BY <1>2 DEF CapturePolicies
    <2>2. [board |-> shown, owned |-> {p \in Policies : policy[p].ours}] \in Observed
        BY CaptureTypes DEF Observed
    <2>3. /\ Recorded(shown) \in [Policies -> Record \cup {Unknown}]
          /\ Settled(Recorded(shown), proven) \in [Policies -> Position \cup {Unknown}]
        BY CaptureTypes
    <2> QED BY <2>1, <2>2, <2>3
<1>s. ASSUME Seeded PROVE initial' \in Nat
    BY <1>s, UnderwritingAssumption DEF Seeded
<1>3. CASE ConsiderUnderwriting
    <2>1. CASE UNCHANGED mission
        BY <1>3, <1>s, <2>1 DEF ConsiderUnderwriting
    <2>2. PICK p \in Policies : \/ Admits(p) /\ mission' = [policy |-> p, terms |-> observed.board[p].terms, state |-> "new"]
                                \/ UNCHANGED mission
        BY <1>3 DEF ConsiderUnderwriting
    <2>3. CASE Admits(p) /\ mission' = [policy |-> p, terms |-> observed.board[p].terms, state |-> "new"]
        <3>1. observed # Unknown
            BY <1>3 DEF ConsiderUnderwriting, PolicyEvidence
        <3>2. observed.board[p] \in Listing
            BY <2>3, <3>1 DEF Admits, Candidate, Observed
        <3>3. mission' \in Undertaking
            BY <2>3, <3>2 DEF Undertaking, Listing
        <3> QED BY <1>3, <1>s, <3>3 DEF ConsiderUnderwriting
    <2> QED BY <2>1, <2>2, <2>3
<1>4. CASE DriveUnderwriting
    <2>1. mission' = Unknown \/ (Becomes("staged") /\ mission # Unknown)
        BY <1>4 DEF DriveUnderwriting, In
    <2>2. mission' \in Undertaking \cup {Unknown}
        BY <2>1, MissionTypes
    <2> QED BY <1>4, <1>s, <2>2 DEF DriveUnderwriting, Preflight
<1>m. ASSUME mission # Unknown PROVE mission \in Undertaking /\ mission.policy \in Policies
    BY <1>m DEF Undertaking
<1>i. ASSUME Sends PROVE initial' \in Nat /\ mission # Unknown
    BY <1>i, <1>s DEF Sends, Preflight, In
<1>5. CASE RequestAnswered
    BY <1>5, <1>i, <1>m, LocksType, MissionTypes DEF RequestAnswered
<1>6. CASE AnswerLost
    BY <1>6, <1>i, <1>m, MissionTypes DEF AnswerLost
<1>7. CASE RequestRefused
    BY <1>7, <1>i, <1>m, MissionTypes DEF RequestRefused
<1>8. CASE RequestVetoed
    BY <1>8, MissionTypes DEF RequestVetoed, In
<1>9. CASE UnderwrittenLate
    BY <1>9, LocksType DEF UnderwrittenLate
<1>10. CASE AcceptUnderwriting
    <2>1. mission # Unknown
        BY <1>10 DEF AcceptUnderwriting, In
    <2>2. mission' \in Undertaking \cup {Unknown}
        BY <1>10, <2>1, MissionTypes DEF AcceptUnderwriting
    <2>3. [terms |-> mission.terms, funded |-> FALSE, closed |-> FALSE, status |-> "active"] \in Position
        BY <1>m, <2>1 DEF Undertaking, Position
    <2>4. pos' \in [Policies -> Position \cup {Unknown}]
        BY <1>10, <2>3 DEF AcceptUnderwriting, Receipt
    <2> QED BY <1>10, <2>2, <2>4 DEF AcceptUnderwriting
<1>11. CASE CrashUnderwriting
    BY <1>11 DEF CrashUnderwriting
<1>12. CASE UNCHANGED uwvars
    BY <1>12 DEF uwvars
<1> QED BY <1>1, <1>2, <1>3, <1>4, <1>5, <1>6, <1>7, <1>8, <1>9, <1>10, <1>11, <1>12 DEF UnderwritingNext

\* ... what records and positions say of a policy's end ...
LEMMA EndsTrueNext == UnderwritingInv /\ [UnderwritingNext]_uwvars => EndsTrue'
<1> SUFFICES ASSUME UnderwritingInv, [UnderwritingNext]_uwvars PROVE EndsTrue'
    OBVIOUS
<1>t. UnderwritingTypes /\ EndsTrue
    BY DEF UnderwritingInv
<1>1. ASSUME NEW p \in Policies, UnderwrittenEnds(p) \/ OddListing(p) PROVE EndsTrue'
    <2>1. UNCHANGED <<rec, pos>>
        BY <1>1 DEF UnderwrittenEnds, OddListing
    <2>2. ASSUME NEW q \in Policies
          PROVE  /\ \A l \in policy'[q].shown : l.terms = 1 => l.status \in {"open", policy'[q].status}
                 /\ rec[q] # Unknown => rec[q].now \in policy'[q].shown
                 /\ pos[q] # Unknown => pos[q].terms = 1 /\ (pos[q].closed => pos[q].status \in TermEnds /\ pos[q].status = policy'[q].status)
        <3>1. /\ policy[q].shown \subseteq policy'[q].shown
              /\ \A l \in policy'[q].shown \ policy[q].shown : l.terms = 1 => l.status = policy'[q].status
              /\ policy[q].status # "open" => policy'[q].status = policy[q].status
            BY <1>1, <1>t, PolicyStep
        <3>2. "open" \notin TermEnds
            BY DEF TermEnds
        <3> QED BY <1>t, <3>1, <3>2 DEF EndsTrue
    <2> QED BY <2>1, <2>2 DEF EndsTrue
<1>2. CASE CapturePolicies
    <2>1. PICK shown \in Boards, proven \in SUBSET Policies : /\ rec' = Recorded(shown) /\ policy' = policy
              /\ pos' \in {Settled(Recorded(shown), proven), pos}
        BY <1>2 DEF CapturePolicies
    <2>2. ASSUME NEW q \in Policies
          PROVE  /\ rec'[q] # Unknown => rec'[q].now \in policy[q].shown
                 /\ pos'[q] # Unknown => pos'[q].terms = 1 /\ (pos'[q].closed => pos'[q].status \in TermEnds /\ pos'[q].status = policy[q].status)
        <3>1. shown[q] \in policy[q].shown \cup {Unknown} /\ shown[q] \in Listing \cup {Unknown} /\ rec[q] \in Record \cup {Unknown}
            BY <1>t, CaptureTypes DEF Boards, UnderwritingTypes
        <3>2. rec'[q] # Unknown => rec'[q].now \in policy[q].shown
            BY <1>t, <2>1, <3>1, MergeKeeps DEF EndsTrue, Recorded
        <3>3. rec'[q] \in Record \cup {Unknown}
            BY <1>t, <2>1, CaptureTypes
        <3>4. CASE pos'[q] = pos[q]
            BY <1>t, <3>2, <3>4 DEF EndsTrue
        <3>5. CASE pos[q] # Unknown /\ pos'[q] = Closed(PolicyFunded(pos[q], q \in proven), rec'[q])
            <4>1. pos[q] \in Position /\ pos[q].terms = 1
                  /\ (pos[q].closed => pos[q].status \in TermEnds /\ pos[q].status = policy[q].status)
                BY <1>t, <3>5 DEF UnderwritingTypes, EndsTrue
            <4>2. PICK flag \in BOOLEAN : flag = (q \in proven)
                <5>1. (q \in proven) \in BOOLEAN
                    OBVIOUS
                <5> QED BY <5>1
            <4>3. pos'[q] = Closed(PolicyFunded(pos[q], flag), rec'[q])
                BY <3>5, <4>2
            <4>4. /\ pos'[q].terms = pos[q].terms
                  /\ \/ pos'[q].closed = pos[q].closed /\ pos'[q].status = pos[q].status
                     \/ /\ rec'[q] # Unknown /\ pos'[q].closed /\ pos'[q].status = rec'[q].now.status
                        /\ rec'[q].now.status \in TermEnds /\ rec'[q].now.terms = pos[q].terms
                <5>1. PICK position \in Position : position = pos[q]
                    BY <4>1
                <5>2. PICK record \in Record \cup {Unknown} : record = rec'[q]
                    BY <3>3
                <5>3. PICK after : after = Closed(PolicyFunded(position, flag), record)
                    OBVIOUS
                <5>4. /\ after.terms = position.terms
                      /\ \/ after.closed = position.closed /\ after.status = position.status
                         \/ /\ record # Unknown /\ after.closed /\ after.status = record.now.status
                            /\ record.now.status \in TermEnds /\ record.now.terms = position.terms
                    BY <5>3, ClosedKeeps
                <5> QED BY <4>3, <5>1, <5>2, <5>3, <5>4
            <4>5. rec'[q] # Unknown /\ rec'[q].now.terms = 1 /\ rec'[q].now.status \in TermEnds => rec'[q].now.status = policy[q].status
                <5>1. \A l \in policy[q].shown : l.terms = 1 => l.status \in {"open", policy[q].status}
                    BY <1>t DEF EndsTrue
                <5> QED BY <3>2, <5>1 DEF TermEnds
            <4>6. CASE pos'[q].closed = pos[q].closed /\ pos'[q].status = pos[q].status
                BY <3>2, <4>1, <4>4, <4>6
            <4>7. CASE ~(pos'[q].closed = pos[q].closed /\ pos'[q].status = pos[q].status)
                <5>1. rec'[q] # Unknown /\ pos'[q].status = rec'[q].now.status
                      /\ rec'[q].now.status \in TermEnds /\ rec'[q].now.terms = pos[q].terms
                    BY <4>4, <4>7
                <5> QED BY <3>2, <4>1, <4>4, <4>5, <5>1
            <4> QED BY <4>6, <4>7
        <3>6. pos'[q] = pos[q] \/ (pos[q] # Unknown /\ pos'[q] = Closed(PolicyFunded(pos[q], q \in proven), rec'[q]))
            BY <2>1 DEF Settled
        <3> QED BY <3>2, <3>4, <3>5, <3>6
    <2> QED BY <1>t, <2>1, <2>2 DEF EndsTrue
<1>3. ASSUME UNCHANGED <<rec, pos>>, NEW p \in Policies, policy' = Locks(p) PROVE EndsTrue'
    BY <1>3, <1>t, LocksType DEF EndsTrue
<1>m. ASSUME mission # Unknown PROVE mission.policy \in Policies /\ mission.terms \in {1, 2}
    BY <1>m, <1>t DEF UnderwritingTypes, Undertaking
<1>4. CASE RequestAnswered
    BY <1>3, <1>4, <1>m DEF RequestAnswered, Sends, In
<1>5. CASE UNCHANGED <<policy, rec, pos>>
    BY <1>5, <1>t DEF EndsTrue
<1>6. CASE UnderwrittenLate
    BY <1>3, <1>5, <1>6, <1>t DEF UnderwrittenLate, UnderwritingTypes
<1>7. CASE AcceptUnderwriting
    <2>1. mission # Unknown /\ mission.terms = 1 /\ pos' = Receipt(mission.policy) /\ UNCHANGED <<policy, rec>>
        BY <1>7 DEF AcceptUnderwriting, In
    <2>2. ASSUME NEW q \in Policies, pos'[q] # Unknown
          PROVE  pos'[q].terms = 1 /\ (pos'[q].closed => pos'[q].status \in TermEnds /\ pos'[q].status = policy[q].status)
        <3>1. pos'[q] = pos[q] \/ pos'[q] = [terms |-> mission.terms, funded |-> FALSE, closed |-> FALSE, status |-> "active"]
            BY <1>t, <2>1 DEF Receipt, UnderwritingTypes
        <3> QED BY <1>t, <2>1, <2>2, <3>1 DEF EndsTrue
    <2> QED BY <1>t, <2>1, <2>2 DEF EndsTrue
<1> QED BY <1>1, <1>2, <1>4, <1>5, <1>6, <1>7 DEF UnderwritingNext, ConsiderUnderwriting, DriveUnderwriting, AnswerLost, RequestRefused,
            RequestVetoed, CrashUnderwriting, uwvars

\* With slices of its own from before, nothing is ever written.
LEMMA NothingAdmitted ==
    ASSUME UnderwritingInv, PolicyEvidence
    PROVE  foreign = {}
BY DEF UnderwritingInv, ForeignBlocks, PolicyEvidence

\* ... the slices this database knows or does not ...
LEMMA ForeignNext == UnderwritingInv /\ [UnderwritingNext]_uwvars => ForeignBlocks' /\ SlicesKnown'
<1> SUFFICES ASSUME UnderwritingInv, [UnderwritingNext]_uwvars PROVE ForeignBlocks' /\ SlicesKnown'
    OBVIOUS
<1>t. UnderwritingTypes /\ ForeignBlocks /\ SlicesKnown
    BY DEF UnderwritingInv
<1>u. Unknown \notin Policies
    BY UnknownAssumption
<1> USE DEF ForeignBlocks, SlicesKnown
<1>s. ASSUME \A p \in Policies : policy'[p].ours = policy[p].ours PROVE Slices' = Slices
    BY <1>s DEF Slices
<1>p. ASSUME pos' = pos PROVE Positions' = Positions
    BY <1>p DEF Positions
<1>m. ASSUME mission' = mission PROVE Asked' = Asked /\ \A states : In(states)' = In(states)
    BY <1>m DEF Asked, In
<1>f. foreign' = foreign
    BY DEF UnderwritingNext, UnderwrittenEnds, OddListing, CapturePolicies, ConsiderUnderwriting, DriveUnderwriting, RequestAnswered,
           AnswerLost, RequestRefused, RequestVetoed, UnderwrittenLate, AcceptUnderwriting, CrashUnderwriting, uwvars
<1>1. ASSUME NEW p \in Policies, UnderwrittenEnds(p) \/ OddListing(p) PROVE ForeignBlocks' /\ SlicesKnown'
    <2>1. UNCHANGED <<pos, mission, request, observed>>
        BY <1>1 DEF UnderwrittenEnds, OddListing
    <2>2. Slices' = Slices
        BY <1>1, <1>s, <1>t, PolicyStep
    <2> QED BY <1>t, <1>p, <1>m, <1>f, <2>1, <2>2
<1>2. CASE CapturePolicies
    <2>1. PICK shown \in Boards, proven \in SUBSET Policies : rec' = Recorded(shown) /\ pos' \in {Settled(Recorded(shown), proven), pos}
        BY <1>2 DEF CapturePolicies
    <2>r. UNCHANGED <<policy, request, mission>> /\ (observed' = Unknown \/ observed'.owned = Slices)
        BY <1>2 DEF CapturePolicies, Slices
    <2>2. ASSUME NEW q \in Policies PROVE pos'[q] = Unknown <=> pos[q] = Unknown
        <3>1. CASE pos'[q] = pos[q]
            BY <3>1
        <3>2. CASE pos[q] # Unknown /\ pos'[q] = Closed(PolicyFunded(pos[q], q \in proven), rec'[q])
            <4>1. pos[q] \in Position /\ rec'[q] \in Record \cup {Unknown} /\ (q \in proven) \in BOOLEAN
                BY <1>t, <2>1, <3>2, CaptureTypes DEF UnderwritingTypes
            <4>2. Closed(PolicyFunded(pos[q], q \in proven), rec'[q]) \in Position
                BY <4>1, ClosedKeeps
            <4> QED BY <3>2, <4>2, UnknownAssumption
        <3>3. pos'[q] = pos[q] \/ (pos[q] # Unknown /\ pos'[q] = Closed(PolicyFunded(pos[q], q \in proven), rec'[q]))
            BY <2>1 DEF Settled
        <3> QED BY <3>1, <3>2, <3>3
    <2>3. Positions' = Positions
        BY <2>2 DEF Positions
    <2>4. observed' # Unknown => foreign \subseteq observed'.owned
        BY <1>t, <2>r
    <2> QED BY <1>t, <1>s, <1>m, <1>f, <2>r, <2>3, <2>4
<1>3. CASE ConsiderUnderwriting
    <2>1. UNCHANGED <<policy, pos, request, observed>> /\ mission = Unknown /\ foreign = {}
        BY <1>3, NothingAdmitted DEF ConsiderUnderwriting
    <2>2. mission' = mission \/ (mission'.state = "new" /\ mission' # Unknown)
        BY <1>3, UnderwritingTypesNext, <1>t DEF ConsiderUnderwriting
    <2>3. ~In({"ambiguous", "complete"}) /\ ~In({"ambiguous"})
        BY <2>1 DEF In
    <2>4. ~In({"ambiguous", "complete"})' /\ ~In({"ambiguous"})' /\ ~In({"complete"})'
        BY <2>1, <2>2 DEF In
    <2>5. Asked = {} /\ Asked' = {}
        BY <2>3, <2>4 DEF Asked
    <2> QED BY <1>t, <1>s, <1>p, <1>f, <2>1, <2>3, <2>4, <2>5
<1>4. ASSUME mission # Unknown PROVE foreign = {} /\ mission \in Undertaking /\ mission.policy \in Policies
    BY <1>4, <1>t DEF UnderwritingTypes, Undertaking
<1>5. ASSUME In({"new", "staged", "done", "refused"}), UNCHANGED <<policy, pos, request, observed>>,
             mission' = Unknown \/ (mission' # Unknown /\ mission'.state \in {"new", "staged"})
      PROVE  ForeignBlocks' /\ SlicesKnown'
    <2>1. ~In({"ambiguous", "complete"}) /\ ~In({"ambiguous"}) /\ mission # Unknown
        BY <1>5 DEF In
    <2>2. ~In({"ambiguous", "complete"})' /\ ~In({"ambiguous"})' /\ ~In({"complete"})'
        BY <1>5 DEF In
    <2>3. Asked = {} /\ Asked' = {}
        BY <2>1, <2>2 DEF Asked
    <2> QED BY <1>t, <1>s, <1>p, <1>f, <1>4, <1>5, <2>1, <2>2, <2>3
<1>6. CASE DriveUnderwriting
    <2>1. In({"new", "staged", "done", "refused"}) /\ UNCHANGED <<policy, pos, request, observed>> /\ (mission' = Unknown \/ Becomes("staged"))
        BY <1>6 DEF DriveUnderwriting, In
    <2>2. mission' = Unknown \/ (mission' # Unknown /\ mission'.state \in {"new", "staged"})
        BY <1>t, <2>1, MissionTypes DEF In
    <2> QED BY <1>5, <2>1, <2>2
<1>7. CASE RequestVetoed
    <2>1. In({"new", "staged", "done", "refused"}) /\ UNCHANGED <<policy, pos, request, observed>> /\ Becomes("new")
        BY <1>7 DEF RequestVetoed, In
    <2>2. mission' # Unknown /\ mission'.state \in {"new", "staged"}
        BY <1>t, <2>1, MissionTypes DEF In
    <2> QED BY <1>5, <2>1, <2>2
<1>8. ASSUME Sends PROVE mission # Unknown /\ mission.state \in {"staged", "ambiguous"} /\ mission.policy \in Policies /\ foreign = {}
    BY <1>4, <1>8 DEF Sends, In
<1>l. ASSUME NEW p \in Policies, policy' = Locks(p) PROVE Slices' = Slices \cup {p}
    <2>1. ASSUME NEW q \in Policies PROVE policy'[q].ours <=> (policy[q].ours \/ q = p)
        <3>1. policy'[q].ours = (policy[q].ours \/ q = p)
            BY <1>l, <1>t, LocksType
        <3> QED BY <3>1
    <2> QED BY <1>l, <2>1 DEF Slices
<1>9. CASE RequestAnswered
    <2>1. policy' = Locks(mission.policy) /\ request' = Unknown /\ pos' = pos /\ observed' = observed /\ Sends /\ Becomes("complete")
        BY <1>9 DEF RequestAnswered
    <2>2. mission' # Unknown /\ mission'.policy = mission.policy /\ mission'.state = "complete"
        BY <1>8, <1>t, <2>1, MissionTypes
    <2>3. In({"ambiguous", "complete"})' /\ Asked' = {mission.policy}
        BY <1>8, <2>1, <2>2 DEF In, Asked
    <2>4. Asked \subseteq {mission.policy}
        BY DEF Asked
    <2> QED BY <1>8, <1>l, <1>p, <1>f, <1>t, <2>1, <2>2, <2>3, <2>4
<1>10. CASE AnswerLost
    <2>1. UNCHANGED <<policy, pos, observed>> /\ request' = mission.policy /\ Sends /\ Becomes("ambiguous")
        BY <1>10 DEF AnswerLost
    <2>2. mission' # Unknown /\ mission'.policy = mission.policy /\ mission'.state = "ambiguous"
        BY <1>8, <1>t, <2>1, MissionTypes
    <2>3. In({"ambiguous", "complete"})' /\ In({"ambiguous"})' /\ ~In({"complete"})' /\ Asked' = {mission.policy}
        BY <1>8, <2>1, <2>2 DEF In, Asked
    <2>4. Asked \subseteq {mission.policy}
        BY DEF Asked
    <2> QED BY <1>8, <1>s, <1>p, <1>f, <1>t, <2>1, <2>2, <2>3, <2>4
<1>11. CASE RequestRefused
    <2>1. UNCHANGED <<policy, pos, observed>> /\ request' = Unknown /\ Sends /\ Becomes("refused") /\ mission.policy \notin Slices
        BY <1>8, <1>11 DEF RequestRefused, Slices
    <2>2. mission' # Unknown /\ mission'.policy = mission.policy /\ mission'.state = "refused"
        BY <1>8, <1>t, <2>1, MissionTypes
    <2>3. ~In({"ambiguous", "complete"})' /\ ~In({"complete"})' /\ Asked' = {}
        BY <1>8, <2>1, <2>2 DEF In, Asked
    <2>4. Asked \subseteq {mission.policy}
        BY DEF Asked
    <2> QED BY <1>8, <1>s, <1>p, <1>f, <1>t, <2>1, <2>2, <2>3, <2>4
<1>12. CASE UnderwrittenLate
    <2>1. request \in Policies /\ request' = Unknown /\ policy' \in {Locks(request), policy} /\ UNCHANGED <<pos, mission, observed>>
        BY <1>12, <1>t DEF UnderwrittenLate, UnderwritingTypes
    <2>2. In({"ambiguous"}) /\ mission.policy = request /\ In({"ambiguous", "complete"}) /\ ~In({"complete"})
        BY <1>12, <1>t DEF UnderwrittenLate, In
    <2>3. Asked = {request}
        BY <2>1, <2>2 DEF Asked
    <2>4. foreign = {}
        BY <1>4, <2>2 DEF In
    <2> QED BY <1>l, <1>s, <1>p, <1>m, <1>f, <1>t, <2>1, <2>2, <2>3, <2>4
<1>13. CASE AcceptUnderwriting
    <2>1. In({"complete"}) /\ mission # Unknown /\ UNCHANGED <<policy, request, observed>> /\ pos' = Receipt(mission.policy) /\ (Becomes("done") \/ mission' = mission)
        BY <1>13 DEF AcceptUnderwriting, In
    <2>2. foreign = {} /\ mission.policy \in Slices /\ mission \in Undertaking /\ mission.policy \in Policies
        BY <1>4, <1>t, <2>1
    <2>3. Positions' = Positions \cup {mission.policy}
        <3>1. [terms |-> mission.terms, funded |-> FALSE, closed |-> FALSE, status |-> "active"] \in Position
            BY <2>2 DEF Undertaking, Position
        <3>2. \A p \in Policies : pos'[p] # Unknown <=> pos[p] # Unknown \/ p = mission.policy
            BY <1>t, <2>1, <2>2, <3>1, UnknownAssumption DEF Receipt, UnderwritingTypes
        <3> QED BY <2>2, <3>2 DEF Positions
    <2>4. Asked = {mission.policy} /\ ~In({"ambiguous"})
        BY <2>1, <2>2 DEF Asked, In
    <2>5. CASE mission' = mission
        BY <1>t, <1>s, <1>m, <1>f, <2>1, <2>2, <2>3, <2>4, <2>5
    <2>6. CASE Becomes("done")
        <3>1. mission' # Unknown /\ mission'.state = "done"
            BY <1>t, <2>1, <2>6, MissionTypes
        <3>2. ~In({"ambiguous", "complete"})' /\ ~In({"ambiguous"})' /\ ~In({"complete"})'
            BY <3>1 DEF In
        <3>3. Asked' = {}
            BY <3>2 DEF Asked
        <3> QED BY <1>t, <1>s, <1>f, <2>1, <2>2, <2>3, <2>4, <3>1, <3>2, <3>3
    <2> QED BY <2>1, <2>5, <2>6
<1>14. CASE CrashUnderwriting
    <2>1. observed' = Unknown /\ UNCHANGED <<policy, pos, mission, request>>
        BY <1>14 DEF CrashUnderwriting
    <2> QED BY <1>t, <1>s, <1>p, <1>m, <1>f, <2>1
<1>15. CASE UNCHANGED uwvars
    <2>1. UNCHANGED <<policy, pos, mission, request, observed>>
        BY <1>15 DEF uwvars
    <2> QED BY <1>t, <1>s, <1>p, <1>m, <1>f, <2>1
<1> QED BY <1>1, <1>2, <1>3, <1>6, <1>7, <1>9, <1>10, <1>11, <1>12, <1>13, <1>14, <1>15 DEF UnderwritingNext


\* What each policy costs and earns, over all of them, and its sums over ours.
LossOf == [p \in Policies |-> RealLoss(p)]
GainOf == [p \in Policies |-> RealGain(p)]
Exposed == SumFunctionOnSet(LossOf, Slices)
Earned == SumFunctionOnSet(GainOf, Slices)

LEMMA SlicesFinite == IsFiniteSet(Slices) /\ Slices \subseteq Policies
<1>1. Slices \subseteq Policies
    BY DEF Slices
<1> QED BY <1>1, FS_Subset, UnderwritingAssumption

StakesTyped ==
    \A p \in Policies : /\ LossOf[p] = RealLoss(p) /\ RealLoss(p) \in Nat /\ RealLoss(p) <= Collateral
                        /\ GainOf[p] = RealGain(p) /\ RealGain(p) \in Nat
\* A policy never costs more than the collateral.
LEMMA LossTypes == UnderwritingTypes => StakesTyped
<1> SUFFICES ASSUME UnderwritingTypes, NEW p \in Policies
             PROVE  /\ LossOf[p] = RealLoss(p) /\ RealLoss(p) \in Nat /\ RealLoss(p) <= Collateral
                    /\ GainOf[p] = RealGain(p) /\ RealGain(p) \in Nat
    BY DEF StakesTyped
<1>1. Premium \in Nat /\ Collateral \in Nat /\ Premium <= Collateral
    BY UnderwritingAssumption
<1>2. PICK d \in Nat : d = Collateral - Premium /\ d <= Collateral
    BY <1>1
<1> QED BY <1>1, <1>2 DEF LossOf, GainOf, RealLoss, RealGain

Accounted ==
    /\ Exposed \in Int /\ Earned \in Int /\ PendingLoss \in Nat
    /\ WithinBudget <=> (foreign = {} => Exposed + PendingLoss <= initial + Earned \div 10)
    /\ BudgetRespected <=> (Slices # foreign => Exposed <= initial + Earned \div 10)
\* The sums over our slices are sums of one function over all policies.
LEMMA Recast == UnderwritingTypes => Accounted
<1> SUFFICES ASSUME UnderwritingTypes PROVE Accounted
    OBVIOUS
<1>1. PICK S : S = Slices
    OBVIOUS
<1>2. IsFiniteSet(S) /\ S \subseteq Policies
    BY <1>1, SlicesFinite
<1>3. \A p \in S : LossOf[p] = RealLoss(p) /\ LossOf[p] \in Int /\ GainOf[p] = RealGain(p) /\ GainOf[p] \in Int
    BY <1>2, LossTypes DEF StakesTyped
<1>4. Exposed \in Int /\ Earned \in Int
    BY <1>1, <1>2, <1>3, SumType DEF Exposed, Earned
<1>5. SumFunction([p \in S |-> RealLoss(p)]) = Exposed
    <2>1. PICK f : f = [p \in S |-> RealLoss(p)]
        OBVIOUS
    <2>2. SumFunction(f) = SumFunctionOnSet(f, S)
        BY <2>1 DEF SumFunction, FoldFunction, SumFunctionOnSet
    <2>3. \A p \in S : LossOf[p] \in Int /\ LossOf[p] = f[p]
        BY <1>3, <2>1
    <2>4. SumFunctionOnSet(LossOf, S) = SumFunctionOnSet(f, S)
        BY <1>2, <2>3, SumSame
    <2> QED BY <1>1, <2>1, <2>2, <2>4 DEF Exposed
<1>6. SumFunction([p \in S |-> RealGain(p)]) = Earned
    <2>1. PICK f : f = [p \in S |-> RealGain(p)]
        OBVIOUS
    <2>2. SumFunction(f) = SumFunctionOnSet(f, S)
        BY <2>1 DEF SumFunction, FoldFunction, SumFunctionOnSet
    <2>3. \A p \in S : GainOf[p] \in Int /\ GainOf[p] = f[p]
        BY <1>3, <2>1
    <2>4. SumFunctionOnSet(GainOf, S) = SumFunctionOnSet(f, S)
        BY <1>2, <2>3, SumSame
    <2> QED BY <1>1, <2>1, <2>2, <2>4 DEF Earned
<1>7. PendingLoss \in Nat
    BY UnderwritingAssumption DEF PendingLoss
<1>8. SumFunction([p \in Slices |-> RealLoss(p)]) = Exposed /\ SumFunction([p \in Slices |-> RealGain(p)]) = Earned
    BY <1>1, <1>5, <1>6
<1>9. WithinBudget <=> (foreign = {} => Exposed + PendingLoss <= initial + Earned \div 10)
    BY ONLY <1>8 DEF WithinBudget
<1>10. BudgetRespected <=> (Slices # foreign => Exposed <= initial + Earned \div 10)
    BY ONLY <1>8 DEF BudgetRespected
<1> QED BY <1>4, <1>7, <1>9, <1>10 DEF Accounted


\* Where no policy costs anything, no budget is passed.
NothingStaked == Collateral = 0 => WithinBudget
LEMMA NothingAtStake == UnderwritingTypes => NothingStaked
<1> SUFFICES ASSUME UnderwritingTypes, Collateral = 0 PROVE WithinBudget
    BY DEF NothingStaked
<1>1. Exposed \in Int /\ Earned \in Int /\ (WithinBudget <=> (foreign = {} => Exposed + PendingLoss <= initial + Earned \div 10))
    BY Recast DEF Accounted
<1>2. PendingLoss = 0
    BY DEF PendingLoss
<1>3. PICK S : S = Slices
    OBVIOUS
<1>4. IsFiniteSet(S) /\ \A p \in S : LossOf[p] \in Int /\ GainOf[p] \in Int /\ LossOf[p] <= 0 /\ 0 <= GainOf[p]
    BY <1>3, SlicesFinite, LossTypes DEF StakesTyped
<1>5. Exposed <= 0 /\ 0 <= Earned
    <2>1. PICK zero : zero = [p \in S |-> 0]
        OBVIOUS
    <2>2. \A p \in S : zero[p] \in Int /\ zero[p] = 0
        BY <2>1
    <2>3. SumFunctionOnSet(zero, S) = 0
        BY <1>4, <2>2, SumZero
    <2>4. SumFunctionOnSet(LossOf, S) <= SumFunctionOnSet(zero, S) /\ SumFunctionOnSet(zero, S) <= SumFunctionOnSet(GainOf, S)
        BY <1>4, <2>2, SumMonotone
    <2> QED BY <1>3, <2>3, <2>4 DEF Exposed, Earned
<1> QED BY <1>1, <1>2, <1>5 DEF UnderwritingTypes

\* The preflight admits a slice only where every slice is on the books, and the
\* books are never better than the truth.
LEMMA AdmittedWithin ==
    ASSUME UnderwritingInv, PolicyEvidence, Seeded, NEW p \in Policies, Admits(p), Asked = {}, Collateral > 0
    PROVE  /\ foreign = {} /\ p \notin Slices /\ initial' \in Nat
           /\ Exposed + Collateral <= initial' + Earned \div 10
<1>t. UnderwritingTypes /\ EndsTrue /\ ForeignBlocks /\ SlicesKnown
    BY DEF UnderwritingInv
<1>1. foreign = {} /\ Positions = Slices /\ p \notin Slices
    <2>1. foreign = {}
        BY NothingAdmitted
    <2>2. Positions = Slices
        BY <1>t, <2>1 DEF SlicesKnown
    <2> QED BY <2>1, <2>2 DEF Admits, Candidate, Positions
<1>2. initial' \in Nat
    BY <1>t, UnderwritingAssumption DEF Seeded, UnderwritingTypes
<1>3. PICK S : S = Positions /\ S = Slices
    BY <1>1
<1>4. IsFiniteSet(S) /\ S \subseteq Policies
    BY <1>3, SlicesFinite
<1>5. PICK gains : gains = [q \in S |-> IF pos[q].closed /\ Net(pos[q]) > 0 THEN Net(pos[q]) ELSE 0]
    OBVIOUS
<1>6. PICK losses : losses = [q \in S |-> IF pos[q].closed /\ Net(pos[q]) < 0 THEN -Net(pos[q]) ELSE 0]
    OBVIOUS
<1>7. PICK locked : locked = [q \in S |-> IF pos[q].closed THEN 0 ELSE Collateral]
    OBVIOUS
<1>8. /\ Gains = SumFunctionOnSet(gains, S) /\ Losses = SumFunctionOnSet(losses, S)
      /\ Outstanding = SumFunctionOnSet(locked, S)
    <2>1. Gains = SumFunction(gains) /\ Losses = SumFunction(losses) /\ Outstanding = SumFunction(locked)
        BY <1>3, <1>5, <1>6, <1>7 DEF Gains, Losses, Outstanding
    <2>2. DOMAIN gains = S /\ DOMAIN losses = S /\ DOMAIN locked = S
        BY <1>5, <1>6, <1>7
    <2>3. \A f : SumFunction(f) = SumFunctionOnSet(f, DOMAIN f)
        BY DEF SumFunction, FoldFunction, SumFunctionOnSet
    <2> QED BY <2>1, <2>2, <2>3
<1>9. ASSUME NEW q \in S
      PROVE  /\ gains[q] \in Int /\ losses[q] \in Int /\ locked[q] \in Int /\ LossOf[q] \in Int /\ GainOf[q] \in Int
             /\ LossOf[q] <= losses[q] + locked[q] /\ gains[q] <= GainOf[q]
    <2>1. pos[q] \in Position /\ q \in Policies /\ (pos[q].closed => pos[q].status \in TermEnds /\ pos[q].status = policy[q].status)
        BY <1>t, <1>3 DEF Positions, UnderwritingTypes, EndsTrue
    <2>2. Premium \in Nat /\ Collateral \in Nat /\ Premium <= Collateral
        BY UnderwritingAssumption
    <2>3. /\ LossOf[q] = RealLoss(q) /\ RealLoss(q) \in Nat /\ RealLoss(q) <= Collateral
          /\ GainOf[q] = RealGain(q) /\ RealGain(q) \in Nat
        BY <1>t, <2>1, LossTypes DEF StakesTyped
    <2>4. CASE ~pos[q].closed
        <3>1. gains[q] = 0 /\ losses[q] = 0 /\ locked[q] = Collateral
            BY <1>5, <1>6, <1>7, <2>4
        <3> QED BY <2>2, <2>3, <3>1
    <2>5. CASE pos[q].closed /\ pos[q].status = "claimed_loss"
        <3>1. Net(pos[q]) = Premium - Collateral /\ RealLoss(q) = Collateral - Premium /\ RealGain(q) = 0
            BY <2>1, <2>5 DEF Net, RealLoss, RealGain
        <3>2. gains[q] = 0 /\ locked[q] = 0 /\ losses[q] = Collateral - Premium
            BY <1>5, <1>6, <1>7, <2>2, <2>5, <3>1
        <3> QED BY <2>2, <2>3, <3>1, <3>2
    <2>6. CASE pos[q].closed /\ pos[q].status = "settled_safe"
        <3>1. Net(pos[q]) = Premium /\ RealLoss(q) = 0 /\ RealGain(q) = Premium
            BY <2>1, <2>6 DEF Net, RealLoss, RealGain
        <3>2. gains[q] = Premium /\ locked[q] = 0 /\ losses[q] = 0
            BY <1>5, <1>6, <1>7, <2>2, <2>6, <3>1
        <3> QED BY <2>2, <2>3, <3>1, <3>2
    <2> QED BY <2>1, <2>4, <2>5, <2>6 DEF TermEnds
<1>10. SumFunctionOnSet(LossOf, S) <= SumFunctionOnSet(losses, S) + SumFunctionOnSet(locked, S)
    BY <1>4, <1>9, SumSplit
<1>11. SumFunctionOnSet(gains, S) <= SumFunctionOnSet(GainOf, S)
    BY <1>4, <1>9, SumMonotone
<1>12. /\ SumFunctionOnSet(gains, S) \in Int /\ SumFunctionOnSet(losses, S) \in Int /\ SumFunctionOnSet(locked, S) \in Int
       /\ SumFunctionOnSet(LossOf, S) \in Int /\ SumFunctionOnSet(GainOf, S) \in Int
    BY <1>4, <1>9, SumType
<1>13. initial' + Gains \div 10 - Losses - Outstanding >= Collateral
    <2>1. Remaining >= Collateral
        BY DEF Admits
    <2>2. PICK left : left = initial' + Gains \div 10 - Losses - Outstanding
        OBVIOUS
    <2>3. Remaining = IF left > 0 THEN left ELSE 0
        BY <2>2 DEF Remaining
    <2>4. Collateral \in Nat /\ Collateral > 0 /\ left \in Int
        BY <1>2, <1>8, <1>12, <2>2, UnderwritingAssumption
    <2>5. left >= Collateral
        BY ONLY <2>1, <2>3, <2>4
    <2> QED BY <2>2, <2>5
<1>14. Exposed + Collateral <= initial' + Earned \div 10
    <2>1. PICK loss \in Int : loss = SumFunctionOnSet(LossOf, S) /\ loss = Exposed
        BY <1>3, <1>12 DEF Exposed
    <2>2. PICK gain \in Int : gain = SumFunctionOnSet(GainOf, S) /\ gain = Earned
        BY <1>3, <1>12 DEF Earned
    <2>3. PICK g \in Int : g = Gains /\ g <= gain
        BY <1>8, <1>11, <1>12, <2>2
    <2>4. PICK l \in Int, o \in Int : l = Losses /\ o = Outstanding /\ loss <= l + o
        BY <1>8, <1>10, <1>12, <2>1
    <2>5. PICK b \in Nat : b = initial'
        BY <1>2
    <2>6. Collateral \in Nat
        BY UnderwritingAssumption
    <2>7. PICK x \in Int, y \in Int : x = g \div 10 /\ y = gain \div 10 /\ x <= y
        BY <2>3
    <2>8. b + x - l - o >= Collateral
        BY <1>13, <2>3, <2>4, <2>5, <2>7
    <2>9. loss + Collateral <= b + y
        <3>1. loss <= l + o /\ x <= y
            BY <2>4, <2>7
        <3>2. (b + (x - l)) - o >= Collateral /\ Collateral \in Int /\ b \in Int
            BY <2>6, <2>8
        <3> QED BY <3>1, <3>2
    <2> QED BY <2>1, <2>2, <2>5, <2>7, <2>9
<1> QED BY <1>1, <1>2, <1>14


\* What a slice that is locked adds.
LEMMA LockAdds ==
    ASSUME UnderwritingTypes, NEW p \in Policies, policy' = Locks(p), policy[p].status = "open" \/ policy[p].ours
    PROVE  /\ Slices' = Slices \cup {p} /\ Earned' = Earned
           /\ Exposed' = IF p \in Slices THEN Exposed ELSE Exposed + Collateral
<1>1. Slices' = Slices \cup {p}
    <2>1. ASSUME NEW q \in Policies PROVE policy'[q].ours <=> (policy[q].ours \/ q = p)
        <3>1. policy'[q].ours = (policy[q].ours \/ q = p)
            BY LocksType
        <3> QED BY <3>1
    <2> QED BY <2>1 DEF Slices
<1>2. LossOf' = LossOf /\ GainOf' = GainOf
    BY LocksType DEF LossOf, GainOf, RealLoss, RealGain
<1>3. CASE p \in Slices
    <2>1. Slices' = Slices
        BY <1>1, <1>3
    <2> QED BY <1>1, <1>2, <1>3, <2>1 DEF Exposed, Earned
<1>4. CASE p \notin Slices
    <2>1. policy[p].status = "open" \/ p \in Slices
        BY DEF Slices
    <2>2. RealLoss(p) = Collateral /\ RealGain(p) = 0
        BY <1>4, <2>1 DEF RealLoss, RealGain
    <2>3. PICK S : S = Slices
        OBVIOUS
    <2>4. IsFiniteSet(S) /\ p \notin S /\ \A q \in S \cup {p} : LossOf[q] \in Int /\ GainOf[q] \in Int
        BY <1>4, <2>3, SlicesFinite, LossTypes DEF StakesTyped
    <2>5. /\ SumFunctionOnSet(LossOf, S \cup {p}) = LossOf[p] + SumFunctionOnSet(LossOf, S)
          /\ SumFunctionOnSet(GainOf, S \cup {p}) = GainOf[p] + SumFunctionOnSet(GainOf, S)
        BY <2>4, SumAdd
    <2>6. LossOf[p] = Collateral /\ GainOf[p] = 0 /\ Collateral \in Int
        BY <2>2, LossTypes, UnderwritingAssumption DEF StakesTyped
    <2>7. SumFunctionOnSet(LossOf, S) = Exposed /\ SumFunctionOnSet(GainOf, S) = Earned /\ Exposed \in Int /\ Earned \in Int
        BY <2>3, Recast DEF Exposed, Earned, Accounted
    <2>8. Exposed' = SumFunctionOnSet(LossOf, S \cup {p}) /\ Earned' = SumFunctionOnSet(GainOf, S \cup {p})
        BY <1>1, <1>2, <2>3 DEF Exposed, Earned
    <2>9. Exposed' = Exposed + Collateral /\ Earned' = Earned
        BY <2>5, <2>6, <2>7, <2>8
    <2> QED BY <1>1, <1>4, <2>9
<1> QED BY <1>3, <1>4

\* What the end of a policy makes of them.
LEMMA EndLowers ==
    ASSUME UnderwritingTypes, NEW p \in Policies, UnderwrittenEnds(p) \/ OddListing(p)
    PROVE  Slices' = Slices /\ Exposed' <= Exposed /\ Earned <= Earned'
<1>1. Slices' = Slices
    <2>1. \A q \in Policies : policy'[q].ours = policy[q].ours
        BY PolicyStep
    <2> QED BY <2>1 DEF Slices
<1>2. UnderwritingTypes'
    BY UnderwritingTypesNext DEF UnderwritingNext
<1>3. \A q \in Policies : /\ LossOf[q] = RealLoss(q) /\ RealLoss(q) \in Nat
                          /\ GainOf[q] = RealGain(q) /\ RealGain(q) \in Nat
    BY LossTypes DEF StakesTyped
<1>4. \A q \in Policies : /\ LossOf'[q] = RealLoss(q)' /\ RealLoss(q)' \in Nat /\ RealLoss(q)' <= Collateral
                          /\ GainOf'[q] = RealGain(q)' /\ RealGain(q)' \in Nat
    <2>1. UnderwritingTypes' => StakesTyped'
        BY LossTypes, PTL
    <2> QED BY <1>2, <2>1 DEF StakesTyped
<1>5. ASSUME NEW q \in Policies
      PROVE  RealLoss(q)' <= RealLoss(q) /\ RealGain(q) <= RealGain(q)'
    <2>1. CASE policy[q].status = "open"
        <3>1. RealLoss(q) = Collateral /\ RealGain(q) = 0
            BY <2>1 DEF RealLoss, RealGain
        <3> QED BY <1>4, <3>1
    <2>2. CASE policy[q].status # "open"
        <3>1. policy'[q].status = policy[q].status
            BY <2>2, PolicyStep
        <3>2. RealLoss(q)' = RealLoss(q) /\ RealGain(q)' = RealGain(q)
            BY <3>1 DEF RealLoss, RealGain
        <3> QED BY <1>3, <3>2
    <2> QED BY <2>1, <2>2
<1>6. PICK S : S = Slices /\ S = Slices'
    BY <1>1
<1>7. IsFiniteSet(S) /\ S \subseteq Policies
    BY <1>6, SlicesFinite
<1>8. PICK before, after : before = LossOf /\ after = LossOf'
    OBVIOUS
<1>9. PICK small, big : small = GainOf /\ big = GainOf'
    OBVIOUS
<1>10. \A q \in S : /\ after[q] \in Int /\ before[q] \in Int /\ after[q] <= before[q]
                    /\ small[q] \in Int /\ big[q] \in Int /\ small[q] <= big[q]
    BY <1>3, <1>4, <1>5, <1>7, <1>8, <1>9
<1>11. SumFunctionOnSet(after, S) <= SumFunctionOnSet(before, S) /\ SumFunctionOnSet(small, S) <= SumFunctionOnSet(big, S)
    BY <1>7, <1>10, SumMonotone
<1>12. /\ Exposed = SumFunctionOnSet(before, S) /\ Exposed' = SumFunctionOnSet(after, S)
       /\ Earned = SumFunctionOnSet(small, S) /\ Earned' = SumFunctionOnSet(big, S)
    BY <1>6, <1>8, <1>9 DEF Exposed, Earned
<1> QED BY <1>1, <1>11, <1>12


\* ... and the budget, the lost request counted as locked.
LEMMA WithinBudgetNext == UnderwritingInv /\ [UnderwritingNext]_uwvars => WithinBudget'
<1> SUFFICES ASSUME UnderwritingInv, [UnderwritingNext]_uwvars PROVE WithinBudget'
    OBVIOUS
<1>t. UnderwritingTypes /\ SlicesKnown /\ WithinBudget
    BY DEF UnderwritingInv
<1>n. UnderwritingTypes'
    BY <1>t, UnderwritingTypesNext
<1>c. Collateral \in Nat
    BY UnderwritingAssumption
<1>z. CASE Collateral = 0
    <2>1. UnderwritingTypes' => NothingStaked'
        BY NothingAtStake, PTL
    <2> QED BY <1>n, <1>z, <2>1 DEF NothingStaked
<1>a. SUFFICES ASSUME Collateral > 0 PROVE WithinBudget'
    BY <1>c, <1>z
<1>f. foreign' = foreign
    BY DEF UnderwritingNext, UnderwrittenEnds, OddListing, CapturePolicies, ConsiderUnderwriting, DriveUnderwriting, RequestAnswered,
           AnswerLost, RequestRefused, RequestVetoed, UnderwrittenLate, AcceptUnderwriting, CrashUnderwriting, uwvars
<1>b. Accounted'
    <2>1. UnderwritingTypes' => Accounted'
        BY Recast, PTL
    <2> QED BY <1>n, <2>1
<1>g. SUFFICES ASSUME foreign = {} PROVE Exposed' + PendingLoss' <= initial' + Earned' \div 10
    BY <1>f, <1>b DEF Accounted
<1>e. /\ Exposed \in Int /\ Earned \in Int /\ PendingLoss \in Nat /\ initial \in Nat
      /\ Exposed + PendingLoss <= initial + Earned \div 10
    BY <1>t, <1>g, Recast DEF UnderwritingTypes, Accounted
<1>h. initial' \in Nat /\ initial <= initial'
    <2>1. ASSUME Seeded PROVE initial <= initial'
        BY <1>e, <1>n, <2>1 DEF Seeded, UnderwritingTypes
    <2>2. Seeded \/ UNCHANGED initial
        BY DEF UnderwritingNext, UnderwrittenEnds, OddListing, CapturePolicies, ConsiderUnderwriting, DriveUnderwriting, RequestAnswered,
               AnswerLost, RequestRefused, RequestVetoed, UnderwrittenLate, AcceptUnderwriting, CrashUnderwriting, uwvars, Sends, Preflight
    <2> QED BY <1>e, <1>n, <2>1, <2>2 DEF UnderwritingTypes
<1>i. Exposed' \in Int /\ Earned' \in Int /\ PendingLoss' \in Nat
    BY <1>b DEF Accounted
\* Where no stake rises, the budget still holds.
<1>k. ASSUME Exposed' <= Exposed, Earned <= Earned', PendingLoss' <= PendingLoss
      PROVE  Exposed' + PendingLoss' <= initial' + Earned' \div 10
    <2>1. PICK g \in Int, h \in Int : g = Earned /\ h = Earned'
        BY <1>e, <1>i
    <2>0. g <= h
        BY <1>k, <2>1
    <2>2. PICK x \in Int, y \in Int : x = g \div 10 /\ y = h \div 10 /\ x <= y
        BY <2>0
    <2>3. PICK l \in Int, d \in Int, c \in Int : l = Exposed /\ d = PendingLoss /\ c = initial
        BY <1>e
    <2>4. PICK m \in Int, n \in Int, k \in Int : m = Exposed' /\ n = PendingLoss' /\ k = initial'
        BY <1>h, <1>i
    <2>5. l + d <= c + x /\ m <= l /\ n <= d /\ c <= k
        BY <1>e, <1>h, <1>k, <2>1, <2>2, <2>3, <2>4
    <2>6. m + n <= k + y
        BY <2>2, <2>5
    <2> QED BY <2>1, <2>2, <2>4, <2>6
<1>s. ASSUME policy' = policy PROVE Slices' = Slices /\ Exposed' = Exposed /\ Earned' = Earned
    BY <1>s DEF Slices, Exposed, Earned, LossOf, GainOf, RealLoss, RealGain
<1>q. ASSUME policy' = policy, PendingLoss' <= PendingLoss PROVE Exposed' + PendingLoss' <= initial' + Earned' \div 10
    BY <1>e, <1>k, <1>q, <1>s
<1>m. ASSUME policy' = policy, mission' = mission PROVE PendingLoss' = PendingLoss
    BY <1>m, <1>s DEF PendingLoss, In
<1>o. ASSUME ~In({"ambiguous"})' PROVE PendingLoss' = 0
    BY <1>o DEF PendingLoss
<1>1. ASSUME NEW p \in Policies, UnderwrittenEnds(p) \/ OddListing(p) PROVE Exposed' + PendingLoss' <= initial' + Earned' \div 10
    <2>1. Slices' = Slices /\ Exposed' <= Exposed /\ Earned <= Earned'
        BY <1>1, <1>t, EndLowers
    <2>2. PendingLoss' = PendingLoss
        BY <1>1, <2>1 DEF PendingLoss, In, UnderwrittenEnds, OddListing
    <2> QED BY <1>e, <1>k, <2>1, <2>2
<1>2. CASE CapturePolicies \/ CrashUnderwriting \/ UNCHANGED uwvars
    <2>1. policy' = policy /\ mission' = mission
        BY <1>2 DEF CapturePolicies, CrashUnderwriting, uwvars
    <2> QED BY <1>e, <1>m, <1>q, <2>1
<1>3. CASE ConsiderUnderwriting \/ DriveUnderwriting \/ RequestVetoed \/ AcceptUnderwriting \/ RequestRefused
    <2>1. policy' = policy
        BY <1>3 DEF ConsiderUnderwriting, DriveUnderwriting, RequestVetoed, AcceptUnderwriting, RequestRefused
    <2>2. CASE mission' = mission
        BY <1>e, <1>m, <1>q, <2>1, <2>2
    <2>3. CASE mission' # mission
        <3>1. \/ mission' = Unknown
              \/ mission' # Unknown /\ mission'.state \in {"new", "staged", "done", "refused"}
            <4>1. CASE ConsiderUnderwriting
                BY <1>n, <2>3, <4>1 DEF ConsiderUnderwriting
            <4>2. CASE ~ConsiderUnderwriting
                <5>1. mission' = Unknown \/ (mission # Unknown /\ \E state \in {"new", "staged", "done", "refused"} : Becomes(state))
                    BY <1>3, <2>3, <4>2 DEF DriveUnderwriting, RequestVetoed, AcceptUnderwriting, RequestRefused, Sends, In
                <5> QED BY <1>t, <5>1, MissionTypes
            <4> QED BY <4>1, <4>2
        <3>2. ~In({"ambiguous"})'
            BY <3>1 DEF In
        <3> QED BY <1>e, <1>o, <1>q, <2>1, <3>2
    <2> QED BY <2>2, <2>3
<1>4. ASSUME Sends, In({"staged"})
      PROVE  mission.policy \in Policies /\ mission.policy \notin Slices /\ PendingLoss = 0 /\ Exposed + Collateral <= initial' + Earned \div 10
    <2>1. mission # Unknown /\ mission.state = "staged" /\ mission.policy \in Policies
        BY <1>4, <1>t DEF In, UnderwritingTypes, Undertaking
    <2>2. Preflight
        BY <1>4, <2>1 DEF Sends, In
    <2>3. Asked = {} /\ PendingLoss = 0
        BY <2>1 DEF Asked, In, PendingLoss
    <2> QED BY <1>a, <2>1, <2>2, <2>3, AdmittedWithin DEF Preflight
<1>5. ASSUME Sends, In({"ambiguous"})
      PROVE  mission.policy \in Policies /\ PendingLoss = IF mission.policy \in Slices THEN 0 ELSE Collateral
    BY <1>5, <1>t DEF In, UnderwritingTypes, Undertaking, PendingLoss
<1>6. Sends => mission # Unknown /\ (In({"staged"}) \/ In({"ambiguous"}))
    BY DEF Sends, In
<1>7. CASE RequestAnswered
    <2>1. Sends /\ CanLock /\ policy' = Locks(mission.policy) /\ Becomes("complete") /\ mission # Unknown
        BY <1>6, <1>7 DEF RequestAnswered
    <2>2. mission' # Unknown /\ mission'.state = "complete"
        BY <1>t, <2>1, MissionTypes
    <2>3. PendingLoss' = 0
        BY <1>o, <2>2 DEF In
    <2>4. mission.policy \in Policies /\ (policy[mission.policy].status = "open" \/ policy[mission.policy].ours)
        BY <1>4, <1>5, <1>6, <2>1 DEF CanLock
    <2>5. Earned' = Earned /\ Exposed' = IF mission.policy \in Slices THEN Exposed ELSE Exposed + Collateral
        BY <1>t, <2>1, <2>4, LockAdds
    <2>6. CASE In({"staged"})
        BY <1>4, <1>i, <1>c, <2>1, <2>3, <2>5, <2>6
    <2>7. CASE In({"ambiguous"})
        <3>1. Exposed' = Exposed + PendingLoss
            BY <1>5, <1>e, <2>1, <2>5, <2>7
        <3>2. Exposed' <= initial + Earned \div 10 /\ Earned \div 10 \in Int
            BY <1>e, <3>1
        <3> QED BY <1>e, <1>h, <1>i, <2>3, <2>5, <3>2
    <2> QED BY <1>6, <2>1, <2>6, <2>7
<1>8. CASE AnswerLost
    <2>1. Sends /\ policy' = policy /\ Becomes("ambiguous") /\ mission # Unknown
        BY <1>6, <1>8 DEF AnswerLost
    <2>2. mission' # Unknown /\ mission'.state = "ambiguous" /\ mission'.policy = mission.policy
        BY <1>t, <2>1, MissionTypes
    <2>3. PendingLoss' = IF mission.policy \in Slices THEN 0 ELSE Collateral
        BY <1>s, <2>1, <2>2 DEF PendingLoss, In
    <2>4. CASE In({"staged"})
        <3>1. PendingLoss' = Collateral
            BY <1>4, <2>1, <2>3, <2>4
        <3> QED BY <1>4, <1>s, <2>1, <2>4, <3>1
    <2>5. CASE In({"ambiguous"})
        BY <1>5, <1>e, <1>q, <2>1, <2>3, <2>5
    <2> QED BY <1>6, <2>1, <2>4, <2>5
<1>9. CASE UnderwrittenLate
    <2>1. request \in Policies /\ In({"ambiguous"}) /\ mission.policy = request /\ mission' = mission
        BY <1>9, <1>t DEF UnderwrittenLate, UnderwritingTypes, SlicesKnown
    <2>2. CASE policy[request].status = "open"
        <3>1. policy' = Locks(request)
            BY <1>9, <2>2 DEF UnderwrittenLate
        <3>2. /\ Slices' = Slices \cup {request} /\ Earned' = Earned
              /\ Exposed' = IF request \in Slices THEN Exposed ELSE Exposed + Collateral
            BY <1>t, <2>1, <2>2, <3>1, LockAdds
        <3>3. PendingLoss' = 0
            BY <2>1, <3>2 DEF PendingLoss, In
        <3>4. PendingLoss = IF request \in Slices THEN 0 ELSE Collateral
            BY <2>1 DEF PendingLoss
        <3>5. Exposed' = Exposed + PendingLoss
            BY <1>e, <3>2, <3>4
        <3>6. Exposed' <= initial + Earned \div 10 /\ Earned \div 10 \in Int
            BY <1>e, <3>5
        <3> QED BY <1>e, <1>h, <1>i, <3>2, <3>3, <3>6
    <2>3. CASE policy[request].status # "open"
        BY <1>9, <1>e, <1>m, <1>q, <2>1, <2>3 DEF UnderwrittenLate
    <2> QED BY <2>2, <2>3
<1> QED BY <1>1, <1>2, <1>3, <1>7, <1>8, <1>9 DEF UnderwritingNext

LEMMA UnderwritingNext1 == UnderwritingInv /\ [UnderwritingNext]_uwvars => UnderwritingInv'
BY UnderwritingTypesNext, EndsTrueNext, ForeignNext, WithinBudgetNext DEF UnderwritingInv

\* What our slices have lost or may still lose is within the budget.
THEOREM BudgetRespectedHolds == UnderwritingSpec => []BudgetRespected
<1>1. UnderwritingInv => BudgetRespected
    <2> SUFFICES ASSUME UnderwritingInv PROVE BudgetRespected
        OBVIOUS
    <2>1. UnderwritingTypes /\ ForeignBlocks /\ WithinBudget
        BY DEF UnderwritingInv
    <2>2. Slices # foreign => foreign = {}
        BY <2>1 DEF ForeignBlocks
    <2>3. Exposed \in Int /\ Earned \in Int /\ PendingLoss \in Nat /\ initial \in Nat
        BY <2>1, Recast DEF UnderwritingTypes, Accounted
    <2>4. foreign = {} => Exposed + PendingLoss <= initial + Earned \div 10
        BY <2>1, Recast DEF Accounted
    <2>5. Slices # foreign => Exposed <= initial + Earned \div 10
        BY <2>2, <2>3, <2>4
    <2> QED BY <2>1, <2>5, Recast DEF Accounted
<1> QED BY <1>1, UnderwritingInit1, UnderwritingNext1, PTL DEF UnderwritingSpec


\* No slice is forgotten: with no mission open, each has its receipt.
THEOREM SliceReceiptedHolds == UnderwritingSpec => []SliceReceipted
<1>1. UnderwritingInv => SliceReceipted
    <2> SUFFICES ASSUME UnderwritingInv, mission = Unknown PROVE Slices \ foreign \subseteq Positions
        BY DEF SliceReceipted
    <2>1. ForeignBlocks /\ SlicesKnown /\ Asked = {}
        BY DEF UnderwritingInv, Asked, In
    <2> QED BY <2>1 DEF ForeignBlocks, SlicesKnown
<1> QED BY <1>1, UnderwritingInit1, UnderwritingNext1, PTL DEF UnderwritingSpec

\* A position is closed as its policy ended, whatever versions the board showed.
THEOREM ClosedAsEndedHolds == UnderwritingSpec => []ClosedAsEnded
<1>1. UnderwritingInv => ClosedAsEnded
    BY DEF UnderwritingInv, EndsTrue, ClosedAsEnded, Positions
<1> QED BY <1>1, UnderwritingInit1, UnderwritingNext1, PTL DEF UnderwritingSpec


-----------------------------------------------------------------------------
(* One pass of the account *)

JobSteps == {"planned", "staged", "sent", "aboard", "tender", "tendered", "done"}
Places == {"idle", "dispatch", "loans", "credit", "controls", "treasury", "ships", "tail"}
Passes == [at : Places, next : Nat \ {0}, unresolved : BOOLEAN]
WorkTypes ==
    /\ cash \in Int /\ due \in Nat
    /\ wire \in [Names -> {"none", "may", "applied"}] /\ task \in [Names -> JobSteps \cup {NoJob}]
    /\ seen \in [cash : Int, due : Nat, marque : BOOLEAN]
    /\ pass \in Passes /\ (pass.at = "dispatch" => pass.next <= Len(Ids))
\* Only a request whose outcome is unknown may still be applied.
OnTheWire == \A id \in Names : wire[id] # "none" <=> task[id] \in {"sent", "tendered"}
\* An unknown outcome, except the marque's, keeps the pass from the gate.
Held(id) == Pending(task[id]) /\ id # "marque"
HoldsBack ==
    /\ pass.at = "dispatch" => \A i \in 1..(pass.next - 1) : Held(Ids[i]) => pass.unresolved
    /\ pass.at = "loans" => \A id \in Names : Held(id) => pass.unresolved
    /\ pass.at \in {"controls", "treasury", "ships", "tail"} => \A id \in Names : ~Held(id)
\* Past the gate only the marque can have taken cash since the capture.
MarquePaid == IF task["marque"] = "sent" /\ wire["marque"] = "applied" THEN MarqueCost ELSE 0
SeenTrue ==
    pass.at # "idle" =>
      /\ due <= seen.due /\ (task["marque"] \in {"planned", "staged", "sent"} => seen.marque)
      /\ (\A id \in Names \ {"marque"} : task[id] # "sent") => cash >= seen.cash - MarquePaid
NeverPlanned == task["treasury"] # "planned"
WorkInv == WorkTypes /\ OnTheWire /\ HoldsBack /\ SeenTrue /\ NeverPlanned /\ CommitmentsFunded

\* The order of the dispatch names every mission.
LEMMA IdsNamed ==
    /\ Ids \in Seq(Names) /\ Len(Ids) >= 3 /\ Len(Ids) \in Nat
    /\ \A i \in 1..Len(Ids) : Ids[i] \in Names
    /\ \A id \in Names : \E i \in 1..Len(Ids) : Ids[i] = id
    /\ Fleet \subseteq Names /\ "loans" \in Names /\ "marque" \in Names /\ "treasury" \in Names
<1>1. ShipOrder \in Seq(Names) /\ <<"loans">> \in Seq(Names) /\ <<"treasury", "marque">> \in Seq(Names)
    <2>1. ShipOrder \in Seq(Fleet)
        BY WorkAssumption
    <2>2. Fleet \subseteq Names
        BY DEF Names
    <2>3. ShipOrder \in Seq(Names)
        BY <2>1, <2>2
    <2> QED BY <2>3 DEF Names, Controls
<1>2. PICK ships \in Seq(Names) : ships = ShipOrder
    BY <1>1
<1>3. Ids = (<<"loans">> \o ships) \o <<"treasury", "marque">>
    BY <1>2 DEF Ids
<1>4. PICK n \in Nat : n = Len(ships)
    OBVIOUS
<1>b. PICK head \in Seq(Names) : head = <<"loans">> /\ Len(head) = 1 /\ head[1] = "loans"
    BY <1>1
<1>c. head \o ships \in Seq(Names)
    OBVIOUS
<1>5. PICK front \in Seq(Names) : front = head \o ships
    BY <1>c
<1>6. Len(front) = n + 1 /\ front[1] = "loans" /\ \A i \in 1..n : front[i + 1] = ships[i]
    BY <1>b, <1>4, <1>5
<1>7. PICK last \in Seq(Names) : last = <<"treasury", "marque">>
    BY <1>1
<1>8. Len(last) = 2 /\ last[1] = "treasury" /\ last[2] = "marque"
    BY <1>7
<1>9. Ids = front \o last
    BY <1>b, <1>3, <1>5, <1>7
<1>10. /\ Ids \in Seq(Names) /\ Len(Ids) = n + 3
       /\ \A i \in 1..(n + 1) : Ids[i] = front[i]
       /\ Ids[n + 2] = last[1] /\ Ids[n + 3] = last[2]
    <2>1. /\ Ids \in Seq(Names) /\ Len(Ids) = Len(front) + Len(last)
          /\ \A i \in 1..Len(front) : Ids[i] = front[i]
          /\ \A i \in 1..Len(last) : Ids[i + Len(front)] = last[i]
        BY <1>9
    <2>2. 1 \in 1..Len(last) /\ 2 \in 1..Len(last) /\ 1 + Len(front) = n + 2 /\ 2 + Len(front) = n + 3
        BY <1>4, <1>6, <1>8
    <2>3. Ids[n + 2] = last[1] /\ Ids[n + 3] = last[2]
        BY <2>1, <2>2
    <2> QED BY <1>4, <1>6, <1>8, <2>1, <2>3
<1>11. \A i \in 1..Len(Ids) : Ids[i] \in Names
    BY <1>10
<1>12. ASSUME NEW id \in Names PROVE \E i \in 1..Len(Ids) : Ids[i] = id
    <2>1. CASE id = "loans"
        <3>1. Ids[1] = id /\ 1 \in 1..Len(Ids)
            BY <1>4, <1>6, <1>10, <2>1
        <3> QED BY <3>1
    <2>2. CASE id = "treasury"
        <3>1. Ids[n + 2] = id /\ n + 2 \in 1..Len(Ids)
            BY <1>4, <1>8, <1>10, <2>2
        <3> QED BY <3>1
    <2>3. CASE id = "marque"
        <3>1. Ids[n + 3] = id /\ n + 3 \in 1..Len(Ids)
            BY <1>4, <1>8, <1>10, <2>3
        <3> QED BY <3>1
    <2>4. CASE id \in Fleet
        <3>1. PICK i \in 1..n : ships[i] = id
            BY <1>2, <1>4, <2>4 DEF Fleet
        <3>2. Ids[i + 1] = id /\ i + 1 \in 1..Len(Ids)
            BY <1>4, <1>6, <1>10, <3>1
        <3> QED BY <3>2
    <2> QED BY <2>1, <2>2, <2>3, <2>4 DEF Names, Controls
<1> QED BY <1>4, <1>10, <1>11, <1>12 DEF Names, Controls

\* The missions whose cash the invariant counts.
Payers == Fleet \cup {"treasury", "marque"}
\* They are finitely many, and the loans are none of them.
LEMMA PayersFinite == IsFiniteSet(Payers) /\ IsFiniteSet(Fleet) /\ Payers \subseteq Names /\ "loans" \notin Payers
<1>1. IsFiniteSet(Fleet)
    <2>1. PICK n \in Nat : n = Len(ShipOrder)
        BY WorkAssumption
    <2>2. ShipOrder \in Surjection(1..n, Fleet)
        BY <2>1, WorkAssumption DEF Fleet, Surjection
    <2>3. IsFiniteSet(1..n)
        BY FS_Interval
    <2> QED BY <2>2, <2>3, FS_Surjection
<1>2. IsFiniteSet(Fleet \cup {"treasury"})
    BY <1>1, FS_AddElement
<1>3. IsFiniteSet((Fleet \cup {"treasury"}) \cup {"marque"})
    BY <1>2, FS_AddElement
<1>4. Payers = (Fleet \cup {"treasury"}) \cup {"marque"}
    BY DEF Payers
<1> QED BY <1>1, <1>3, <1>4, WorkAssumption DEF Payers, Names, Controls

UnpaidOf == [id \in Payers |-> Unpaid(id)]
Debt == SumFunctionOnSet(UnpaidOf, Payers)
Owes(id) == IF id \in Payers THEN Unpaid(id) ELSE 0
DebtTyped ==
    /\ Debt \in Int /\ \A id \in Names : Amount(id) \in Nat /\ Unpaid(id) \in Nat /\ Owes(id) \in Nat
    /\ CommitmentsFunded <=> cash >= ProtectedReserve + due + Debt
\* What they owe together.
LEMMA DebtTypes == WorkTypes => DebtTyped
<1> SUFFICES ASSUME WorkTypes PROVE DebtTyped
    OBVIOUS
<1>1. \A id \in Names : Amount(id) \in Nat
    BY WorkAssumption DEF Amount, WorkTypes
<1>2. \A id \in Names : Unpaid(id) \in Nat /\ Owes(id) \in Nat
    BY <1>1 DEF Unpaid, Owes
<1>3. \A id \in Payers : UnpaidOf[id] \in Int
    BY <1>2, PayersFinite DEF UnpaidOf
<1>4. Debt \in Int
    BY <1>3, PayersFinite, SumType DEF Debt
<1>5. SumFunction(UnpaidOf) = Debt
    BY DEF SumFunction, FoldFunction, SumFunctionOnSet, Debt, UnpaidOf
<1>6. SumFunction([id \in Fleet \cup {"treasury", "marque"} |-> Unpaid(id)]) = Debt
    BY <1>5 DEF UnpaidOf, Payers
<1>7. CommitmentsFunded <=> cash >= ProtectedReserve + due + Debt
    BY ONLY <1>6 DEF CommitmentsFunded
<1> QED BY <1>1, <1>2, <1>4, <1>7 DEF DebtTyped


Owing(id, step, sign) == IF id \in Payers /\ step \in {"planned", "staged", "sent"} /\ sign # "applied" THEN Amount(id) ELSE 0
\* One mission moves, and the money with it.
Moves(id, step, sign) ==
    /\ id \in Names /\ step \in JobSteps \cup {NoJob} /\ sign \in {"none", "may", "applied"}
    /\ task' = [task EXCEPT ![id] = step] /\ wire' = [wire EXCEPT ![id] = sign]
    /\ sign # "none" <=> step \in {"sent", "tendered"}
    /\ id = "treasury" => step # "planned"
Pays(id, step, sign) ==
    /\ cash' \in Int /\ due' \in Nat /\ due' <= due
    /\ cash' + due + Owes(id) >= cash + due' + Owing(id, step, sign)

\* A mission that moves leaves the others and the wire as they were.
LEMMA MovesTyped ==
    ASSUME WorkTypes, OnTheWire, NeverPlanned, NEW id, NEW step, NEW sign, Moves(id, step, sign)
    PROVE  /\ wire' \in [Names -> {"none", "may", "applied"}] /\ task' \in [Names -> JobSteps \cup {NoJob}]
           /\ task'[id] = step /\ wire'[id] = sign
           /\ \A other \in Names \ {id} : task'[other] = task[other] /\ wire'[other] = wire[other]
           /\ OnTheWire' /\ NeverPlanned'
<1>1. /\ wire' \in [Names -> {"none", "may", "applied"}] /\ task' \in [Names -> JobSteps \cup {NoJob}]
      /\ task'[id] = step /\ wire'[id] = sign
      /\ \A other \in Names \ {id} : task'[other] = task[other] /\ wire'[other] = wire[other]
    BY DEF Moves, WorkTypes
<1>2. OnTheWire'
    BY <1>1 DEF Moves, OnTheWire
<1>3. NeverPlanned'
    BY <1>1, IdsNamed DEF Moves, NeverPlanned
<1> QED BY <1>1, <1>2, <1>3

\* One summand of the debt changes.
LEMMA DebtMoves ==
    ASSUME WorkTypes, OnTheWire, NeverPlanned, WorkTypes', NEW id, NEW step, NEW sign, Moves(id, step, sign)
    PROVE  Debt' = Debt - Owes(id) + Owing(id, step, sign)
<1>1. id \in Names /\ Debt \in Int /\ DebtTyped /\ \A other \in Names : Amount(other) \in Nat /\ Unpaid(other) \in Nat
    BY DebtTypes DEF Moves, DebtTyped
<1>2. /\ task'[id] = step /\ wire'[id] = sign
      /\ \A other \in Names \ {id} : task'[other] = task[other] /\ wire'[other] = wire[other]
    BY MovesTyped
<1>3. \A other \in Payers \ {id} : Unpaid(other)' = Unpaid(other)
    BY <1>2, PayersFinite DEF Unpaid, Amount
<1>4. id \in Payers => Unpaid(id)' = Owing(id, step, sign)
    BY <1>2, PayersFinite DEF Unpaid, Amount, Owing
<1>5. PICK S : S = Payers /\ IsFiniteSet(S) /\ S \subseteq Names
    BY PayersFinite
<1>6. PICK before, after : before = UnpaidOf /\ after = UnpaidOf'
    OBVIOUS
<1>7. Debt = SumFunctionOnSet(before, S) /\ Debt' = SumFunctionOnSet(after, S)
    BY <1>5, <1>6 DEF Debt, Payers
<1>8. \A other \in S : before[other] = Unpaid(other) /\ after[other] = Unpaid(other)'
    BY <1>5, <1>6 DEF UnpaidOf, Payers
<1>9. \A other \in S : before[other] \in Int
    BY <1>1, <1>5, <1>8
<1>10. CASE id \in S
    <2>1. before[id] = Owes(id) /\ after[id] = Owing(id, step, sign) /\ Owing(id, step, sign) \in Int
        BY <1>1, <1>4, <1>5, <1>8, <1>10 DEF Owes, Owing
    <2>2. \A other \in S \ {id} : before[other] = after[other]
        BY <1>3, <1>5, <1>8
    <2>3. \A other \in S : before[other] \in Int /\ after[other] \in Int
        BY <1>9, <2>1, <2>2
    <2>4. SumFunctionOnSet(after, S) = SumFunctionOnSet(before, S) - before[id] + after[id]
        <3>1. IsFiniteSet(S) /\ id \in S
            BY <1>5, <1>10
        <3> QED BY ONLY <3>1, <2>2, <2>3, SumChange
    <2> QED BY <1>7, <2>1, <2>4
<1>11. CASE id \notin S
    <2>1. \A other \in S : before[other] \in Int /\ before[other] = after[other]
        BY <1>3, <1>5, <1>8, <1>9, <1>11
    <2>2. SumFunctionOnSet(before, S) = SumFunctionOnSet(after, S)
        BY <1>5, <2>1, SumSame
    <2>3. Owes(id) = 0 /\ Owing(id, step, sign) = 0
        BY <1>5, <1>11 DEF Owes, Owing
    <2> QED BY <1>1, <1>7, <2>2, <2>3
<1> QED BY <1>10, <1>11

\* A mission that moves and pays for what it owes leaves the rest funded.
LEMMA StaysFunded ==
    ASSUME WorkInv, WorkTypes', NEW id, NEW step, NEW sign, Moves(id, step, sign), Pays(id, step, sign)
    PROVE  CommitmentsFunded'
<1>1. WorkTypes /\ OnTheWire /\ NeverPlanned /\ CommitmentsFunded
    BY DEF WorkInv
<1>2. PICK was, is : was = Owes(id) /\ is = Owing(id, step, sign)
    OBVIOUS
<1>3. was \in Int /\ is \in Int
    BY <1>1, <1>2, DebtTypes DEF DebtTyped, Moves, Owing
<1>4. Debt' = Debt - was + is
    BY <1>1, <1>2, DebtMoves
<1>5. cash \in Int /\ due \in Int /\ Debt \in Int /\ cash >= ProtectedReserve + due + Debt /\ ProtectedReserve \in Int
    BY <1>1, DebtTypes, WorkAssumption DEF DebtTyped, WorkTypes
<1>6. cash' \in Int /\ due' \in Int /\ cash' + due + was >= cash + due' + is
    BY <1>2 DEF Pays
<1>7. cash' >= ProtectedReserve + due' + Debt'
    <2>1. PICK c \in Int, d \in Int, s \in Int, r \in Int : c = cash /\ d = due /\ s = Debt /\ r = ProtectedReserve
        BY <1>5
    <2>2. PICK a \in Int, b \in Int : a = cash' /\ b = due'
        BY <1>6
    <2>3. c >= r + d + s /\ a + d + was >= c + b + is
        BY <1>5, <1>6, <2>1, <2>2
    <2>4. a >= r + b + (s - was + is)
        BY <1>3, <2>3
    <2> QED BY <1>4, <2>1, <2>2, <2>4
<1>8. WorkTypes' => DebtTyped'
    BY DebtTypes, PTL
<1> QED BY <1>7, <1>8 DEF DebtTyped


\* What the server takes for a request.
LEMMA ChargePays ==
    ASSUME WorkTypes, NEW id \in Names, Charge(id), wire[id] # "applied"
    PROVE  /\ cash' \in Int /\ due' \in Nat /\ due' <= due /\ cash' + due + Owes(id) >= cash + due'
           /\ cash' = IF Paying(id) THEN cash - Amount(id) ELSE cash + Reward
<1>1. DebtTyped /\ Reward \in Nat /\ cash \in Int /\ due \in Nat /\ Amount(id) \in Nat /\ Owes(id) \in Nat
    BY DebtTypes, WorkAssumption DEF WorkTypes, DebtTyped
<1>2. cash' = IF Paying(id) THEN cash - Amount(id) ELSE cash + Reward
    BY DEF Charge
<1>3. CASE ~Paying(id)
    BY <1>1, <1>2, <1>3 DEF Charge
<1>4. CASE Paying(id) /\ id = "loans"
    <2>1. Amount(id) = due /\ due' = 0 /\ cash' = cash - due
        BY <1>4 DEF Amount, Charge
    <2> QED BY <1>1, <1>2, <2>1
<1>5. CASE Paying(id) /\ id # "loans"
    <2>1. id \in Payers
        BY <1>5 DEF Names, Controls, Payers
    <2>2. Owes(id) = Amount(id)
        BY <1>5, <2>1 DEF Owes, Unpaid, Paying
    <2>3. due' = due /\ cash' = cash - Amount(id)
        BY <1>5 DEF Charge
    <2> QED BY <1>1, <1>2, <2>2, <2>3
<1> QED BY <1>3, <1>4, <1>5

\* What the snapshot of the pass still allows after a mission moved.
Kept(id, step, sign) ==
    /\ id = "marque" /\ step \in {"planned", "staged", "sent"} => task[id] \in {"planned", "staged", "sent"}
    /\ task[id] = "sent" => step = "sent"
    /\ id # "marque" /\ step # "sent" => cash' >= cash
    /\ id = "marque" => cash' + (IF step = "sent" /\ sign = "applied" THEN MarqueCost ELSE 0) >= cash + MarquePaid
Dispatched(id, step, sign) ==
    /\ Moves(id, step, sign) /\ Pays(id, step, sign)
    /\ pass' = Idle \/ (AdvanceJob(Ids, "loans", Unresolved(id, step)) /\ Kept(id, step, sign))

\* Where a mission goes from a request that is answered, refused or lost.
LEMMA StepsAfter ==
    ASSUME WorkTypes, OnTheWire, NEW id \in Names
    PROVE  /\ FirstSend(id) => wire[id] = "none"
           /\ After(id) \in {"aboard", "done", NoJob} /\ Sent(id) \in {"sent", "tendered"}
           /\ Before(id) \in {"aboard", "planned", NoJob}
           /\ Before(id) = "planned" => task[id] = "staged" /\ id # "treasury"
<1>1. FirstSend(id) => wire[id] = "none"
    BY DEF FirstSend, OnTheWire
<1>2. After(id) \in {"aboard", "done", NoJob} /\ Sent(id) \in {"sent", "tendered"}
    BY DEF After, Sent
<1>3. Before(id) \in {"aboard", "planned", NoJob}
    BY DEF Before
<1>4. Before(id) = "planned" => task[id] = "staged" /\ id # "treasury"
    <2>1. id = "treasury" => id \notin Fleet \cup {"marque"}
        BY WorkAssumption DEF Controls
    <2> QED BY <2>1, WorkAssumption DEF Before
<1> QED BY <1>1, <1>2, <1>3, <1>4

\* Every way to dispatch one request is such a move.
LEMMA DispatchMoves ==
    ASSUME WorkInv, Dispatch
    PROVE  \E step, sign : Dispatched(Ids[pass.next], step, sign)
<1>t. WorkTypes /\ OnTheWire /\ NeverPlanned /\ DebtTyped
    BY DebtTypes DEF WorkInv
<1>1. PICK id : id = Ids[pass.next]
    OBVIOUS
<1>2. id \in Names /\ (Answered(id) \/ Refused(id) \/ JobUnanswered(id) \/ Vetoed(id) \/ Learnt(id) \/ StillUnknown(id))
    <2>1. pass.next \in 1..Len(Ids)
        BY <1>t, IdsNamed DEF Dispatch, WorkTypes, Passes
    <2> QED BY <1>1, <2>1, IdsNamed DEF Dispatch
<1>3. task[id] \in JobSteps \cup {NoJob} /\ wire[id] \in {"none", "may", "applied"} /\ cash \in Int /\ due \in Nat /\ Owes(id) \in Nat /\ Amount(id) \in Nat
    BY <1>2, <1>t DEF WorkTypes, DebtTyped
<1>4. /\ FirstSend(id) => wire[id] = "none"
      /\ After(id) \in {"aboard", "done", NoJob} /\ Sent(id) \in {"sent", "tendered"}
      /\ Before(id) \in {"aboard", "planned", NoJob}
      /\ Before(id) = "planned" => task[id] = "staged" /\ id # "treasury"
    BY <1>2, <1>t, StepsAfter
<1>5. /\ \A sign : Owing(id, After(id), sign) = 0
      /\ Owing(id, Sent(id), "applied") = 0
      /\ FirstSend(id) => Owing(id, Before(id), "none") <= Owes(id) /\ Owing(id, Sent(id), "may") <= Owes(id)
    <2>1. \A sign : Owing(id, After(id), sign) = 0
        BY <1>4, WorkAssumption DEF Owing
    <2>2. Owing(id, Sent(id), "applied") = 0
        BY DEF Owing
    <2>3. ASSUME FirstSend(id), id \in Payers PROVE Owing(id, Before(id), "none") <= Owes(id) /\ Owing(id, Sent(id), "may") <= Owes(id)
        <3>1. CASE task[id] = "staged"
            <4>1. Owes(id) = Amount(id)
                BY <1>4, <2>3, <3>1 DEF Owes, Unpaid
            <4>2. Owing(id, Before(id), "none") \in {0, Amount(id)} /\ Owing(id, Sent(id), "may") \in {0, Amount(id)}
                BY DEF Owing
            <4> QED BY <1>3, <4>1, <4>2
        <3>2. CASE task[id] = "tender"
            <4>1. Sent(id) = "tendered" /\ Before(id) # "planned"
                BY <1>4, <3>2 DEF Sent
            <4>2. Owing(id, Before(id), "none") = 0 /\ Owing(id, Sent(id), "may") = 0
                BY <1>4, <4>1, WorkAssumption DEF Owing
            <4> QED BY <1>3, <4>2
        <3> QED BY <2>3, <3>1, <3>2 DEF FirstSend
    <2>4. ASSUME FirstSend(id), id \notin Payers PROVE Owing(id, Before(id), "none") <= Owes(id) /\ Owing(id, Sent(id), "may") <= Owes(id)
        BY <1>3, <2>4 DEF Owing
    <2> QED BY <2>1, <2>2, <2>3, <2>4
<1>6. ASSUME Charge(id), wire[id] # "applied", NEW step, NEW sign, Owing(id, step, sign) = 0 PROVE Pays(id, step, sign)
    <2>1. cash' \in Int /\ due' \in Nat /\ due' <= due /\ cash' + due + Owes(id) >= cash + due'
        BY <1>2, <1>6, <1>t, ChargePays
    <2> QED BY <1>3, <1>6, <2>1 DEF Pays
<1>7. ASSUME UNCHANGED <<cash, due>>, NEW step, NEW sign, Owing(id, step, sign) \in Nat, Owing(id, step, sign) <= Owes(id) PROVE Pays(id, step, sign)
    BY <1>3, <1>7 DEF Pays
<1>n. \A step, sign : Owing(id, step, sign) \in Nat
    BY <1>3 DEF Owing
<1>8. ASSUME Answered(id) PROVE Dispatched(id, After(id), "none")
    <2>1. Moves(id, After(id), "none")
        BY <1>2, <1>4, <1>8, WorkAssumption DEF Answered, Resolve, Moves, JobSteps
    <2> QED BY <1>4, <1>5, <1>6, <1>8, <2>1 DEF Answered, Resolve, Ends, Dispatched
<1>9. ASSUME Refused(id) PROVE Dispatched(id, Before(id), "none")
    <2>1. Moves(id, Before(id), "none")
        BY <1>2, <1>4, <1>9, WorkAssumption DEF Refused, Resolve, Moves, JobSteps
    <2> QED BY <1>5, <1>7, <1>9, <1>n, <2>1 DEF Refused, Resolve, Ends, Dispatched
<1>10. ASSUME Vetoed(id) PROVE Dispatched(id, Before(id), "none")
    <2>1. wire' = [wire EXCEPT ![id] = "none"]
        BY <1>2, <1>4, <1>10, <1>t DEF Vetoed, WorkTypes
    <2>2. Moves(id, Before(id), "none")
        BY <1>2, <1>4, <1>10, <2>1, WorkAssumption DEF Vetoed, Moves, JobSteps
    <2>3. Pays(id, Before(id), "none")
        BY <1>5, <1>7, <1>10, <1>n DEF Vetoed
    <2>4. Kept(id, Before(id), "none")
        <3>1. Before(id) \notin {"staged", "sent"} /\ FirstSend(id) /\ cash' = cash
            BY <1>4, <1>10, WorkAssumption DEF Vetoed
        <3>2. id = "marque" => MarquePaid = 0
            BY <3>1 DEF MarquePaid, FirstSend
        <3> QED BY <1>3, <1>4, <3>1, <3>2 DEF Kept, FirstSend
    <2> QED BY <1>10, <2>2, <2>3, <2>4 DEF Vetoed, Dispatched
<1>11. ASSUME Learnt(id) PROVE Dispatched(id, After(id), "none")
    <2>1. Moves(id, After(id), "none")
        BY <1>2, <1>4, <1>11, WorkAssumption DEF Learnt, Resolve, Moves, JobSteps
    <2>2. Pays(id, After(id), "none")
        <3>1. CASE wire[id] = "applied" /\ UNCHANGED <<cash, due>>
            BY <1>3, <1>5, <1>7, <3>1
        <3>2. CASE wire[id] = "may" /\ Charge(id)
            BY <1>5, <1>6, <3>2
        <3> QED BY <1>11, <3>1, <3>2 DEF Learnt
    <2> QED BY <1>11, <2>1, <2>2 DEF Learnt, Resolve, Ends, Dispatched
<1>12. ASSUME StillUnknown(id) PROVE Dispatched(id, task[id], wire[id])
    <2>1. Moves(id, task[id], wire[id])
        BY <1>2, <1>3, <1>12, <1>t DEF StillUnknown, Moves, WorkTypes, OnTheWire, NeverPlanned
    <2>2. Owing(id, task[id], wire[id]) = Owes(id)
        BY DEF Owing, Owes, Unpaid
    <2>3. Pays(id, task[id], wire[id])
        BY <1>3, <1>7, <1>12, <2>2 DEF StillUnknown
    <2>4. Kept(id, task[id], wire[id])
        <3>1. cash' = cash
            BY <1>12 DEF StillUnknown
        <3>2. id = "marque" => MarquePaid = IF task[id] = "sent" /\ wire[id] = "applied" THEN MarqueCost ELSE 0
            BY DEF MarquePaid
        <3>3. MarqueCost \in Nat
            BY WorkAssumption
        <3> QED BY <1>3, <3>1, <3>2, <3>3 DEF Kept
    <2> QED BY <1>12, <2>1, <2>3, <2>4 DEF StillUnknown, Dispatched
<1>13. ASSUME JobUnanswered(id) PROVE \E sign : Dispatched(id, Sent(id), sign)
    <2>1. /\ FirstSend(id) /\ wire[id] = "none" /\ task' = [task EXCEPT ![id] = Sent(id)]
          /\ AdvanceJob(Ids, "loans", Unresolved(id, Sent(id)))
        BY <1>4, <1>13 DEF JobUnanswered
    <2>2. ASSUME NEW sign \in {"may", "applied"}, wire' = [wire EXCEPT ![id] = sign] PROVE Moves(id, Sent(id), sign)
        BY <1>2, <1>4, <2>1, <2>2 DEF Moves, JobSteps
    <2>3. id = "marque" => MarquePaid = 0
        BY <2>1 DEF MarquePaid, FirstSend
    <2>4. Sent(id) = IF task[id] = "staged" THEN "sent" ELSE "tendered"
        BY <2>1 DEF Sent, FirstSend
    <2>5. CASE Charge(id) /\ wire' = [wire EXCEPT ![id] = "applied"]
        <3>1. cash' \in Int /\ cash' = IF Paying(id) THEN cash - Amount(id) ELSE cash + Reward
            BY <1>2, <1>t, <2>1, <2>5, ChargePays
        <3>2. MarqueCost \in Nat /\ Reward \in Nat /\ (id = "marque" => Amount(id) = MarqueCost)
            BY WorkAssumption DEF Amount
        <3>3. Paying(id) <=> Sent(id) = "sent"
            BY <2>1, <2>4 DEF Paying, FirstSend
        <3>4. Kept(id, Sent(id), "applied")
            BY <1>3, <2>1, <2>3, <2>4, <3>1, <3>2, <3>3 DEF Kept, FirstSend
        <3> QED BY <1>5, <1>6, <2>1, <2>2, <2>5, <3>4 DEF Dispatched
    <2>6. CASE wire' = [wire EXCEPT ![id] = "may"] /\ UNCHANGED <<cash, due>>
        <3>1. Kept(id, Sent(id), "may")
            BY <1>3, <2>1, <2>3, <2>4, <2>6 DEF Kept, FirstSend
        <3> QED BY <1>5, <1>7, <1>n, <2>1, <2>2, <2>6, <3>1 DEF Dispatched
    <2> QED BY <1>13, <2>5, <2>6 DEF JobUnanswered
<1> QED BY <1>1, <1>2, <1>8, <1>9, <1>10, <1>11, <1>12, <1>13


\* How a pass moves on.
LEMMA Advances ==
    ASSUME pass \in Passes, NEW ids, Len(ids) \in Nat, NEW place \in Places, NEW unresolved \in BOOLEAN, AdvanceJob(ids, place, unresolved)
    PROVE  /\ pass' \in Passes /\ pass'.unresolved = unresolved
           /\ pass.next < Len(ids) => pass'.at = pass.at /\ pass'.next = pass.next + 1
           /\ ~(pass.next < Len(ids)) => pass'.at = place /\ pass'.next = 1
<1>1. CASE pass.next < Len(ids)
    <2>1. PICK n \in Nat \ {0} : n = pass.next + 1
        BY DEF Passes
    <2>2. pass' = [pass EXCEPT !.next = n, !.unresolved = unresolved]
        BY <1>1, <2>1 DEF AdvanceJob
    <2>3. pass' \in Passes /\ pass'.at = pass.at /\ pass'.next = n /\ pass'.unresolved = unresolved
        BY <2>2 DEF Passes
    <2> QED BY <1>1, <2>1, <2>3
<1>2. CASE ~(pass.next < Len(ids))
    <2>1. PICK one \in Nat \ {0} : one = 1
        OBVIOUS
    <2>2. pass' = [at |-> place, next |-> one, unresolved |-> unresolved]
        BY <1>2, <2>1 DEF AdvanceJob
    <2> QED BY <1>2, <2>1, <2>2 DEF Passes
<1> QED BY <1>1, <1>2

\* A pass that ends, and one that goes on to its next part.
LEMMA EndsTyped ==
    /\ Ends => pass' \in Passes /\ pass'.at = "idle"
    /\ \A place \in Places : pass \in Passes /\ Goes(place) => pass' \in Passes /\ pass'.at = place /\ pass'.next = 1 /\ pass'.unresolved = pass.unresolved
<1>1. PICK one \in Nat \ {0} : one = 1
    OBVIOUS
<1>2. PICK no \in BOOLEAN : no = FALSE
    OBVIOUS
<1>3. PICK idle \in Places : idle = "idle"
    BY DEF Places
<1>4. Ends => pass' = [at |-> idle, next |-> one, unresolved |-> no]
    BY <1>1, <1>2, <1>3 DEF Ends, Idle
<1>5. Ends => pass' \in Passes /\ pass'.at = "idle"
    BY <1>3, <1>4 DEF Passes
<1>6. ASSUME NEW place \in Places, pass \in Passes, Goes(place)
      PROVE  pass' \in Passes /\ pass'.at = place /\ pass'.next = 1 /\ pass'.unresolved = pass.unresolved
    <2>1. pass' = [pass EXCEPT !.at = place, !.next = one]
        BY <1>1, <1>6 DEF Goes
    <2> QED BY <1>1, <1>6, <2>1 DEF Passes
<1> QED BY <1>5, <1>6

\* A step that ends the pass with one mission moved and paid for.
LEMMA EndsWell ==
    ASSUME WorkInv, NEW id, NEW step, NEW sign, Moves(id, step, sign), Pays(id, step, sign), Ends, UNCHANGED seen
    PROVE  WorkInv'
<1>1. WorkTypes /\ OnTheWire /\ NeverPlanned
    BY DEF WorkInv
<1>2. /\ wire' \in [Names -> {"none", "may", "applied"}] /\ task' \in [Names -> JobSteps \cup {NoJob}]
      /\ OnTheWire' /\ NeverPlanned'
    BY <1>1, MovesTyped
<1>3. pass' \in Passes /\ pass'.at = "idle"
    BY EndsTyped
<1>4. WorkTypes'
    BY <1>1, <1>2, <1>3 DEF WorkTypes, Pays
<1>5. CommitmentsFunded'
    BY <1>4, StaysFunded
<1>6. HoldsBack' /\ SeenTrue'
    BY <1>3 DEF HoldsBack, SeenTrue
<1> QED BY <1>2, <1>4, <1>5, <1>6 DEF WorkInv

\* The dispatch keeps the invariant: what is unknown holds back the rest.
LEMMA DispatchNext ==
    ASSUME WorkInv, Dispatch
    PROVE  WorkInv'
<1>t. WorkTypes /\ OnTheWire /\ NeverPlanned /\ HoldsBack /\ SeenTrue
    BY DEF WorkInv
<1>1. PICK id, step, sign : id = Ids[pass.next] /\ Dispatched(id, step, sign)
    BY DispatchMoves
<1>2. pass.at = "dispatch" /\ seen' = seen
    BY DEF Dispatch
<1>3. Moves(id, step, sign) /\ Pays(id, step, sign) /\ id \in Names
    BY <1>1 DEF Dispatched, Moves
<1>4. CASE pass' = Idle
    BY <1>2, <1>3, <1>4, EndsWell DEF Ends
<1>5. CASE AdvanceJob(Ids, "loans", Unresolved(id, step)) /\ Kept(id, step, sign)
    <2>1. /\ wire' \in [Names -> {"none", "may", "applied"}] /\ task' \in [Names -> JobSteps \cup {NoJob}]
          /\ task'[id] = step /\ wire'[id] = sign
          /\ \A other \in Names \ {id} : task'[other] = task[other] /\ wire'[other] = wire[other]
          /\ OnTheWire' /\ NeverPlanned'
        BY <1>t, <1>3, MovesTyped
    <2>2. PICK flag \in BOOLEAN : flag = Unresolved(id, step)
        <3>1. Unresolved(id, step) \in BOOLEAN
            BY <1>t DEF Unresolved, WorkTypes, Passes
        <3> QED BY <3>1
    <2>3. PICK length \in Nat : length = Len(Ids)
        BY IdsNamed
    <2>4. pass.next \in 1..length /\ pass \in Passes
        BY <1>t, <1>2, <2>3 DEF WorkTypes, Passes
    <2>5. /\ pass' \in Passes /\ pass'.unresolved = flag
          /\ pass.next < length => pass'.at = "dispatch" /\ pass'.next = pass.next + 1
          /\ ~(pass.next < length) => pass'.at = "loans" /\ pass'.next = 1
        <3>1. "loans" \in Places /\ AdvanceJob(Ids, "loans", flag) /\ Len(Ids) \in Nat
            BY <1>5, <2>2, IdsNamed DEF Places
        <3> QED BY <1>2, <2>3, <2>4, <3>1, Advances
    <2>6. WorkTypes'
        <3>1. cash' \in Int /\ due' \in Nat
            BY <1>3 DEF Pays
        <3>2. pass'.at = "dispatch" => pass'.next <= Len(Ids)
            BY <2>3, <2>4, <2>5
        <3> QED BY <1>t, <1>2, <2>1, <2>5, <3>1, <3>2 DEF WorkTypes
    <2>7. CommitmentsFunded'
        BY <1>3, <2>6, StaysFunded
    <2>8. ASSUME NEW i \in 1..pass.next, Held(Ids[i])' PROVE flag
        <3>1. Ids[i] \in Names
            BY <2>3, <2>4, IdsNamed
        <3>2. CASE Ids[i] = id
            <4>1. Pending(step) /\ id # "marque"
                BY <2>1, <2>8, <3>2 DEF Held
            <4> QED BY <2>2, <4>1 DEF Unresolved
        <3>3. CASE Ids[i] # id
            <4>1. i \in 1..(pass.next - 1)
                BY <1>1, <2>4, <3>3
            <4>2. Held(Ids[i])
                BY <2>1, <2>8, <3>1, <3>3 DEF Held
            <4> QED BY <1>t, <1>2, <2>2, <4>1, <4>2 DEF HoldsBack, Unresolved
        <3> QED BY <3>2, <3>3
    <2>9. HoldsBack'
        <3>1. CASE pass.next < length
            <4>1. pass'.at = "dispatch" /\ pass'.unresolved = flag /\ 1..(pass'.next - 1) = 1..pass.next
                BY <2>4, <2>5, <3>1
            <4> QED BY <2>8, <4>1 DEF HoldsBack
        <3>2. CASE ~(pass.next < length)
            <4>1. pass'.at = "loans" /\ pass'.unresolved = flag /\ 1..length = 1..pass.next
                BY <2>4, <2>5, <3>2
            <4>2. \A other \in Names : \E i \in 1..pass.next : Ids[i] = other
                BY <2>3, <4>1, IdsNamed
            <4> QED BY <2>8, <4>1, <4>2 DEF HoldsBack
        <3> QED BY <3>1, <3>2
    <2>10. SeenTrue'
        <3>1. /\ due <= seen.due /\ (task["marque"] \in {"planned", "staged", "sent"} => seen.marque)
              /\ (\A other \in Names \ {"marque"} : task[other] # "sent") => cash >= seen.cash - MarquePaid
            BY <1>t, <1>2 DEF SeenTrue
        <3>2. due' <= seen.due
            <4>1. due' <= due /\ due' \in Nat /\ due \in Nat /\ seen.due \in Nat
                BY <1>t, <1>3 DEF Pays, WorkTypes
            <4> QED BY <3>1, <4>1
        <3>3. task'["marque"] \in {"planned", "staged", "sent"} => seen.marque
            BY <1>5, <2>1, <3>1, IdsNamed DEF Kept
        <3>4. ASSUME \A other \in Names \ {"marque"} : task'[other] # "sent" PROVE cash' >= seen.cash - MarquePaid'
            <4>1. cash \in Int /\ cash' \in Int /\ seen.cash \in Int /\ MarqueCost \in Nat
                BY <1>t, <2>6, WorkAssumption DEF WorkTypes
            <4>2. CASE id = "marque"
                <5>1. \A other \in Names \ {"marque"} : task[other] # "sent"
                    BY <2>1, <3>4, <4>2
                <5>2. PICK after \in Int : after = MarquePaid' /\ after = (IF step = "sent" /\ sign = "applied" THEN MarqueCost ELSE 0)
                    BY <2>1, <4>1, <4>2 DEF MarquePaid
                <5>3. PICK before \in Int : before = MarquePaid
                    BY <4>1 DEF MarquePaid
                <5>4. cash' + after >= cash + before
                    BY <1>5, <4>2, <5>2, <5>3 DEF Kept
                <5>5. cash >= seen.cash - before
                    BY <3>1, <5>1, <5>3
                <5>6. cash' >= seen.cash - after
                    <6>1. PICK c \in Int, s \in Int, d \in Int : c = cash /\ s = seen.cash /\ d = cash'
                        BY <4>1
                    <6>2. d + after >= c + before /\ c >= s - before
                        BY <5>4, <5>5, <6>1
                    <6>3. d >= s - after
                        BY <6>2
                    <6> QED BY <6>1, <6>3
                <5> QED BY <5>2, <5>6
            <4>3. CASE id # "marque"
                <5>1. MarquePaid' = MarquePaid /\ MarquePaid \in Int
                    <6>1. task'["marque"] = task["marque"] /\ wire'["marque"] = wire["marque"]
                        BY <2>1, <4>3, IdsNamed
                    <6>2. MarquePaid \in Int
                        BY <4>1 DEF MarquePaid
                    <6> QED BY <6>1, <6>2 DEF MarquePaid
                <5>2. step # "sent" /\ cash' >= cash
                    BY <1>3, <1>5, <2>1, <3>4, <4>3 DEF Kept
                <5>3. \A other \in Names \ {"marque"} : task[other] # "sent"
                    BY <1>5, <2>1, <3>4, <5>2 DEF Kept
                <5> QED BY <3>1, <4>1, <5>1, <5>2, <5>3
            <4> QED BY <4>2, <4>3
        <3> QED BY <1>2, <3>2, <3>3, <3>4 DEF SeenTrue
    <2> QED BY <2>1, <2>6, <2>7, <2>9, <2>10 DEF WorkInv
<1> QED BY <1>1, <1>4, <1>5 DEF Dispatched


\* Past the gate the snapshot covers a new commitment beside all the others.
Gated == pass.at \in {"controls", "treasury", "ships", "tail"}
LEMMA Spare ==
    ASSUME WorkInv, Gated, NEW id \in Payers, Affordable(id), Unpaid(id) = 0, id = "marque" => task[id] = NoJob
    PROVE  cash >= ProtectedReserve + due + Debt + Amount(id)
<1>t. WorkTypes /\ OnTheWire /\ HoldsBack /\ SeenTrue /\ NeverPlanned /\ DebtTyped
    BY DebtTypes DEF WorkInv
<1>1. \A other \in Names : ~Held(other)
    BY <1>t DEF HoldsBack, Gated
<1>2. due <= seen.due /\ (task["marque"] \in {"planned", "staged", "sent"} => seen.marque) /\ cash >= seen.cash - MarquePaid
    <2>1. pass.at # "idle"
        BY DEF Gated
    <2>2. \A other \in Names \ {"marque"} : task[other] # "sent"
        BY <1>1 DEF Held, Pending
    <2> QED BY <1>t, <2>1, <2>2 DEF SeenTrue
<1>3. /\ {"loans", "treasury", "marque"} \cap Fleet = {} /\ Fleet \subseteq Names
      /\ "treasury" \in Payers /\ "marque" \in Payers /\ id # "loans"
      /\ "treasury" \in Names /\ "marque" \in Names
    BY PayersFinite, WorkAssumption DEF Payers, Names, Controls
<1>4. Unpaid("treasury") = 0
    BY <1>1, <1>3, <1>t DEF Held, Pending, Unpaid, NeverPlanned
<1>5. PICK reserved \in Int : reserved = IF seen.marque /\ id # "marque" THEN MarqueCost ELSE 0
    BY WorkAssumption
<1>6. PICK marque \in Int, paid \in Int : marque = Unpaid("marque") /\ paid = MarquePaid /\ marque + paid <= reserved
    <2>1. Unpaid("marque") = IF task["marque"] \in {"planned", "staged", "sent"} /\ wire["marque"] # "applied" THEN MarqueCost ELSE 0
        BY DEF Unpaid, Amount
    <2>2. MarqueCost \in Nat
        BY WorkAssumption
    <2>3. CASE id = "marque"
        <3>1. Unpaid("marque") = 0 /\ MarquePaid = 0
            BY <2>3, WorkAssumption DEF MarquePaid
        <3> QED BY <1>5, <2>3, <3>1
    <2>4. CASE id # "marque" /\ seen.marque
        BY <1>5, <2>1, <2>2, <2>4 DEF MarquePaid
    <2>5. CASE id # "marque" /\ ~seen.marque
        <3>1. Unpaid("marque") = 0 /\ MarquePaid = 0
            BY <1>2, <2>1, <2>5 DEF MarquePaid
        <3> QED BY <1>5, <2>5, <3>1
    <2> QED BY <2>3, <2>4, <2>5
<1>7. PICK unpaid : unpaid = UnpaidOf
    OBVIOUS
<1>8. \A other \in Payers : unpaid[other] = Unpaid(other) /\ unpaid[other] \in Int /\ Unpaid(other) >= 0
    BY <1>7, <1>t, PayersFinite DEF UnpaidOf, DebtTyped
<1>9. Debt = marque + SumFunctionOnSet(unpaid, Fleet) /\ SumFunctionOnSet(unpaid, Fleet) \in Int
    <2>1. PICK S : S = Payers \ {"treasury"}
        OBVIOUS
    <2>2. IsFiniteSet(S) /\ S \subseteq Payers /\ "marque" \in S /\ S \ {"marque"} = Fleet
        BY <1>3, <2>1, PayersFinite, FS_Subset DEF Payers
    <2>3. SumFunctionOnSet(unpaid, Payers) = unpaid["treasury"] + SumFunctionOnSet(unpaid, S)
        <3>1. IsFiniteSet(Payers) /\ "treasury" \in Payers
            BY <1>3, PayersFinite
        <3>2. SumFunctionOnSet(unpaid, Payers) = unpaid["treasury"] + SumFunctionOnSet(unpaid, Payers \ {"treasury"})
            BY <1>8, <3>1, SumRemove
        <3> QED BY <2>1, <3>2
    <2>4. SumFunctionOnSet(unpaid, S) = unpaid["marque"] + SumFunctionOnSet(unpaid, Fleet)
        <3>1. \A other \in S : unpaid[other] \in Int
            BY <1>8, <2>2
        <3>2. SumFunctionOnSet(unpaid, S) = unpaid["marque"] + SumFunctionOnSet(unpaid, S \ {"marque"})
            BY <2>2, <3>1, SumRemove
        <3> QED BY <2>2, <3>2
    <2>5. SumFunctionOnSet(unpaid, Fleet) \in Int
        <3>1. IsFiniteSet(Fleet) /\ \A other \in Fleet : unpaid[other] \in Int
            BY <1>8, PayersFinite DEF Payers
        <3> QED BY <3>1, SumType
    <2>6. unpaid["treasury"] = 0 /\ unpaid["marque"] = marque
        BY <1>3, <1>4, <1>6, <1>8
    <2> QED BY <1>7, <2>3, <2>4, <2>5, <2>6 DEF Debt
<1>10. PICK rest : rest = Fleet \ {id}
    OBVIOUS
<1>11. IsFiniteSet(rest) /\ rest \subseteq Fleet
    BY <1>10, PayersFinite, FS_Subset
<1>12. SumFunctionOnSet(unpaid, Fleet) = SumFunctionOnSet(unpaid, rest)
    <2>1. CASE id \in Fleet
        <3>1. IsFiniteSet(Fleet) /\ \A other \in Fleet : unpaid[other] \in Int
            BY <1>8, PayersFinite DEF Payers
        <3>2. SumFunctionOnSet(unpaid, Fleet) = unpaid[id] + SumFunctionOnSet(unpaid, rest)
            BY <1>10, <2>1, <3>1, SumRemove
        <3>3. unpaid[id] = 0 /\ SumFunctionOnSet(unpaid, rest) \in Int
            BY <1>8, <1>11, <3>1, SumType
        <3> QED BY <3>2, <3>3
    <2>2. CASE id \notin Fleet
        BY <1>10, <2>2
    <2> QED BY <2>1, <2>2
<1>13. PICK others : others = [ship \in rest |-> MissionCash(ship)]
    OBVIOUS
<1>14. \A ship \in rest : unpaid[ship] \in Int /\ others[ship] \in Int /\ unpaid[ship] <= others[ship]
    <2>1. ASSUME NEW ship \in rest PROVE unpaid[ship] \in Int /\ others[ship] \in Int /\ unpaid[ship] <= others[ship]
        <3>1. ship \in Payers /\ ship \in Fleet /\ ship \notin {"loans", "treasury", "marque"}
            BY <1>3, <1>11 DEF Payers
        <3>2. unpaid[ship] = IF task[ship] \in {"planned", "staged", "sent"} /\ wire[ship] # "applied" THEN CargoCost ELSE 0
            BY <1>8, <3>1 DEF Unpaid, Amount
        <3>3. others[ship] = IF task[ship] \in {"planned", "staged", "sent"} THEN CargoCost ELSE 0
            BY <1>13 DEF MissionCash
        <3>4. CargoCost \in Nat
            BY WorkAssumption
        <3> QED BY <3>2, <3>3, <3>4
    <2> QED BY <2>1
<1>15. SumFunctionOnSet(unpaid, rest) <= SumFunctionOnSet(others, rest) /\ SumFunctionOnSet(others, rest) \in Int
    BY <1>11, <1>14, SumMonotone, SumType
<1>16. PICK covered \in Int : covered = SumFunctionOnSet(others, rest) /\ Committed(id) = ProtectedReserve + seen.due + reserved + covered
    <2>1. SumFunction(others) = SumFunctionOnSet(others, rest)
        BY <1>13 DEF SumFunction, FoldFunction, SumFunctionOnSet
    <2>2. SumFunction([ship \in rest |-> MissionCash(ship)]) = SumFunctionOnSet(others, rest)
        BY <1>13, <2>1
    <2>3. Committed(id) = ObligationReserves(id) + SumFunction([ship \in rest |-> MissionCash(ship)])
        BY <1>10 DEF Committed
    <2>4. ObligationReserves(id) = ProtectedReserve + seen.due + reserved
        BY <1>5 DEF ObligationReserves
    <2> QED BY <1>15, <2>2, <2>3, <2>4
<1>17. seen.cash - Amount(id) >= Committed(id)
    BY <1>3 DEF Affordable, Funded
<1>18. PICK c \in Int, d \in Int, s \in Int, e \in Int, a \in Int, r \in Int, u \in Int :
          c = cash /\ d = due /\ s = seen.cash /\ e = seen.due /\ a = Amount(id) /\ r = ProtectedReserve /\ u = SumFunctionOnSet(unpaid, rest)
    <2>1. cash \in Int /\ due \in Int /\ seen.cash \in Int /\ seen.due \in Int
        BY <1>t DEF WorkTypes
    <2>2. Amount(id) \in Int /\ ProtectedReserve \in Int
        BY <1>t, PayersFinite, WorkAssumption DEF DebtTyped
    <2> QED BY <1>9, <1>12, <2>1, <2>2
<1>19. /\ d <= e /\ c >= s - paid /\ marque + paid <= reserved /\ u <= covered
       /\ s - a >= r + e + reserved + covered
    BY <1>2, <1>6, <1>15, <1>16, <1>17, <1>18
<1>20. c >= r + d + (marque + u) + a
    BY <1>19
<1>21. Debt = marque + u
    BY <1>9, <1>12, <1>18
<1> QED BY <1>18, <1>20, <1>21

\* A mission that is started or staged with cash the snapshot can spare.
LEMMA StartsWell ==
    ASSUME WorkInv, Gated, NEW id \in Payers, NEW step, Moves(id, step, "none"), Affordable(id), Unpaid(id) = 0,
           id = "marque" => task[id] = NoJob, UNCHANGED <<cash, due, seen>>, Ends
    PROVE  WorkInv'
<1>1. WorkTypes /\ OnTheWire /\ NeverPlanned /\ DebtTyped
    BY DebtTypes DEF WorkInv
<1>2. /\ wire' \in [Names -> {"none", "may", "applied"}] /\ task' \in [Names -> JobSteps \cup {NoJob}]
      /\ OnTheWire' /\ NeverPlanned'
    BY <1>1, MovesTyped
<1>3. pass' \in Passes /\ pass'.at = "idle"
    BY EndsTyped
<1>4. WorkTypes'
    BY <1>1, <1>2, <1>3 DEF WorkTypes
<1>5. cash >= ProtectedReserve + due + Debt + Amount(id)
    BY Spare
<1>6. Debt' = Debt - Owes(id) + Owing(id, step, "none")
    BY <1>1, <1>4, DebtMoves
<1>7. PICK is \in Int, a \in Int : is = Owing(id, step, "none") /\ a = Amount(id) /\ is <= a
    BY <1>1, PayersFinite DEF DebtTyped, Owing
<1>8. Owes(id) = 0
    BY DEF Owes
<1>9. PICK c \in Int, d \in Int, s \in Int, r \in Int : c = cash /\ d = due /\ s = Debt /\ r = ProtectedReserve
    BY <1>1, WorkAssumption DEF DebtTyped, WorkTypes
<1>10. c >= r + d + s + a
    BY <1>5, <1>7, <1>9
<1>11. Debt' = s + is
    BY <1>6, <1>7, <1>8, <1>9
<1>12. c >= r + d + (s + is)
    BY <1>7, <1>10
<1>13. cash' >= ProtectedReserve + due' + Debt'
    BY <1>9, <1>11, <1>12
<1>14. WorkTypes' => DebtTyped'
    BY DebtTypes, PTL
<1>15. HoldsBack' /\ SeenTrue'
    BY <1>3 DEF HoldsBack, SeenTrue
<1> QED BY <1>2, <1>4, <1>13, <1>14, <1>15 DEF WorkInv, DebtTyped


\* A control or a ship that sets its mission, with nothing new to pay.
LEMMA SetWell ==
    ASSUME WorkInv, NEW id \in Names, NEW step \in {NoJob, "staged", "tender"}, Set(id, step),
           task[id] \in {NoJob, "done", "planned", "aboard"}, step = "staged" => task[id] = "planned" \/ id = "loans"
    PROVE  WorkInv'
<1>1. WorkTypes /\ OnTheWire /\ NeverPlanned /\ DebtTyped
    BY DebtTypes DEF WorkInv
<1>2. wire[id] = "none"
    BY <1>1, WorkAssumption DEF OnTheWire, WorkTypes
<1>3. wire' = [wire EXCEPT ![id] = "none"] /\ task' = [task EXCEPT ![id] = step] /\ UNCHANGED <<cash, due, seen>> /\ Ends
    BY <1>1, <1>2 DEF Set, WorkTypes
<1>4. Moves(id, step, "none")
    BY <1>3, WorkAssumption DEF Moves, JobSteps
<1>5. Owing(id, step, "none") <= Owes(id) /\ Owing(id, step, "none") \in Nat /\ Owes(id) \in Nat
    <2>1. Owes(id) \in Nat /\ Amount(id) \in Nat
        BY <1>1 DEF DebtTyped
    <2>2. CASE step = "staged" /\ id \in Payers
        <3>1. task[id] = "planned"
            BY <2>2, PayersFinite
        <3> QED BY <1>2, <2>1, <2>2, <3>1 DEF Owes, Owing, Unpaid
    <2>3. CASE ~(step = "staged" /\ id \in Payers)
        <3>1. Owing(id, step, "none") = 0
            BY <2>3, WorkAssumption DEF Owing
        <3> QED BY <2>1, <3>1
    <2> QED BY <2>2, <2>3
<1>6. Pays(id, step, "none")
    BY <1>1, <1>3, <1>5 DEF Pays, WorkTypes
<1> QED BY <1>3, <1>4, <1>6, EndsWell

\* A step of the pass alone.
LEMMA PassOnly ==
    ASSUME WorkInv, UNCHANGED <<cash, due, wire, task, seen>>, pass' \in Passes, pass'.at # "dispatch",
           pass'.at # "idle" => pass.at # "idle",
           pass'.at = "loans" => \A id \in Names : Held(id) => pass'.unresolved,
           pass'.at \in {"controls", "treasury", "ships", "tail"} => \A id \in Names : ~Held(id)
    PROVE  WorkInv'
<1>1. WorkTypes /\ OnTheWire /\ NeverPlanned /\ DebtTyped /\ SeenTrue /\ CommitmentsFunded
    BY DebtTypes DEF WorkInv
<1>2. WorkTypes'
    BY <1>1 DEF WorkTypes
<1>3. OnTheWire' /\ NeverPlanned'
    BY <1>1 DEF OnTheWire, NeverPlanned
<1>4. HoldsBack'
    BY DEF HoldsBack, Held
<1>5. SeenTrue'
    BY <1>1 DEF SeenTrue, MarquePaid
<1>6. Debt' = Debt
    BY DEF Debt, UnpaidOf, Unpaid, Amount
<1>7. WorkTypes' => DebtTyped'
    BY DebtTypes, PTL
<1>8. CommitmentsFunded'
    BY <1>1, <1>2, <1>6, <1>7 DEF DebtTyped
<1> QED BY <1>2, <1>3, <1>4, <1>5, <1>8 DEF WorkInv

\* A capture shows the cash as it is.
LEMMA CaptureNext ==
    ASSUME WorkInv, Capture
    PROVE  WorkInv'
<1>1. WorkTypes /\ OnTheWire /\ NeverPlanned /\ DebtTyped /\ CommitmentsFunded
    BY DebtTypes DEF WorkInv
<1>2. UNCHANGED <<cash, due, wire, task>>
    BY DEF Capture
<1>3. PICK flag \in BOOLEAN : flag = (task["marque"] \in {"planned", "staged", "sent"})
    <2>1. (task["marque"] \in {"planned", "staged", "sent"}) \in BOOLEAN
        OBVIOUS
    <2> QED BY <2>1
<1>4. PICK c \in Int, d \in Nat : c = cash /\ d = due
    BY <1>1 DEF WorkTypes
<1>5. seen' = [cash |-> c, due |-> d, marque |-> flag]
    BY <1>3, <1>4 DEF Capture
<1>6. PICK one \in Nat \ {0} : one = 1
    OBVIOUS
<1>7. PICK no \in BOOLEAN : no = FALSE
    OBVIOUS
<1>8. PICK place \in Places : place = "dispatch"
    BY DEF Places
<1>9. pass' = [at |-> place, next |-> one, unresolved |-> no]
    BY <1>6, <1>7, <1>8 DEF Capture, Idle
<1>10. pass' \in Passes /\ pass'.at = "dispatch" /\ pass'.next = 1
    BY <1>6, <1>8, <1>9 DEF Passes
<1>11. WorkTypes'
    <2>1. seen' \in [cash : Int, due : Nat, marque : BOOLEAN]
        BY <1>5
    <2>2. pass'.next <= Len(Ids)
        BY <1>10, IdsNamed
    <2> QED BY <1>1, <1>2, <1>10, <2>1, <2>2 DEF WorkTypes
<1>12. OnTheWire' /\ NeverPlanned'
    BY <1>1, <1>2 DEF OnTheWire, NeverPlanned
<1>13. HoldsBack'
    <2>1. 1..(pass'.next - 1) = {}
        BY <1>10
    <2> QED BY <1>10, <2>1 DEF HoldsBack
<1>14. SeenTrue'
    <2>1. seen'.cash = c /\ seen'.due = d /\ seen'.marque = flag
        BY <1>5
    <2>2. PICK paid \in Nat : paid = MarquePaid'
        BY WorkAssumption DEF MarquePaid
    <2>3. c >= c - paid
        OBVIOUS
    <2>4. cash' >= seen'.cash - MarquePaid'
        BY <1>2, <1>4, <2>1, <2>2, <2>3
    <2>5. due' <= seen'.due
        BY <1>2, <1>4, <2>1
    <2>6. task'["marque"] \in {"planned", "staged", "sent"} => seen'.marque
        BY <1>2, <1>3, <2>1
    <2> QED BY <2>4, <2>5, <2>6 DEF SeenTrue
<1>15. Debt' = Debt
    BY <1>2 DEF Debt, UnpaidOf, Unpaid, Amount
<1>16. WorkTypes' => DebtTyped'
    BY DebtTypes, PTL
<1>17. CommitmentsFunded'
    BY <1>1, <1>2, <1>11, <1>15, <1>16 DEF DebtTyped
<1> QED BY <1>11, <1>12, <1>13, <1>14, <1>17 DEF WorkInv

\* The server may apply a lost request at any time.
LEMMA LateNext ==
    ASSUME WorkInv, NEW id \in Names, LateCharge(id)
    PROVE  WorkInv'
<1>1. WorkTypes /\ OnTheWire /\ NeverPlanned /\ DebtTyped /\ HoldsBack /\ SeenTrue
    BY DebtTypes DEF WorkInv
<1>2. wire[id] = "may" /\ Charge(id) /\ UNCHANGED <<task, seen, pass>>
    BY DEF LateCharge
<1>3. task[id] \in {"sent", "tendered"}
    BY <1>1, <1>2 DEF OnTheWire
<1>4. Moves(id, task[id], "applied")
    BY <1>1, <1>2, <1>3 DEF Moves, LateCharge, WorkTypes, JobSteps
<1>5. /\ cash' \in Int /\ due' \in Nat /\ due' <= due /\ cash' + due + Owes(id) >= cash + due'
      /\ cash' = IF Paying(id) THEN cash - Amount(id) ELSE cash + Reward
    BY <1>1, <1>2, ChargePays
<1>6. Pays(id, task[id], "applied")
    BY <1>1, <1>5 DEF Pays, Owing, WorkTypes
<1>7. /\ wire' \in [Names -> {"none", "may", "applied"}] /\ task' \in [Names -> JobSteps \cup {NoJob}]
      /\ OnTheWire' /\ NeverPlanned' /\ wire'[id] = "applied"
      /\ \A other \in Names \ {id} : wire'[other] = wire[other]
    BY <1>1, <1>4, MovesTyped
<1>8. WorkTypes'
    BY <1>1, <1>2, <1>5, <1>7 DEF WorkTypes
<1>9. CommitmentsFunded'
    BY <1>4, <1>6, <1>8, StaysFunded
<1>10. HoldsBack'
    BY <1>1, <1>2 DEF HoldsBack, Held
<1>11. SeenTrue'
    <2>1. SUFFICES ASSUME pass.at # "idle" PROVE SeenTrue'
        BY <1>2 DEF SeenTrue
    <2>2. /\ due <= seen.due /\ (task["marque"] \in {"planned", "staged", "sent"} => seen.marque)
          /\ (\A other \in Names \ {"marque"} : task[other] # "sent") => cash >= seen.cash - MarquePaid
        BY <1>1, <2>1 DEF SeenTrue
    <2>3. due' <= seen.due
        <3>1. due' \in Int /\ due \in Int /\ seen.due \in Int
            BY <1>1, <1>5 DEF WorkTypes
        <3> QED BY <1>5, <2>2, <3>1
    <2>4. ASSUME \A other \in Names \ {"marque"} : task[other] # "sent" PROVE cash' >= seen.cash - MarquePaid'
        <3>1. PICK c \in Int, s \in Int, e \in Int : c = cash /\ s = seen.cash /\ e = cash'
            BY <1>1, <1>5 DEF WorkTypes
        <3>2. MarqueCost \in Nat /\ Reward \in Nat
            BY WorkAssumption
        <3>3. CASE id = "marque"
            <4>1. MarquePaid = 0 /\ Amount(id) = MarqueCost
                BY <1>2, <3>3 DEF MarquePaid, Amount
            <4>2. MarquePaid' = IF task[id] = "sent" THEN MarqueCost ELSE 0
                BY <1>2, <1>7, <3>3 DEF MarquePaid
            <4>3. Paying(id) <=> task[id] = "sent"
                BY <1>3 DEF Paying
            <4>4. c >= s
                BY <2>2, <2>4, <3>1, <4>1
            <4>5. CASE task[id] = "sent"
                <5>1. e = c - MarqueCost
                    BY <1>5, <3>1, <4>1, <4>3, <4>5
                <5> QED BY <1>2, <3>1, <3>2, <4>2, <4>4, <4>5, <5>1
            <4>6. CASE task[id] # "sent"
                <5>1. e = c + Reward
                    BY <1>5, <3>1, <4>3, <4>6
                <5> QED BY <1>2, <3>1, <3>2, <4>2, <4>4, <4>6, <5>1
            <4> QED BY <4>5, <4>6
        <3>4. CASE id # "marque"
            <4>1. ~Paying(id)
                BY <1>3, <2>4, <3>4 DEF Paying
            <4>2. e = c + Reward
                BY <1>5, <3>1, <4>1
            <4>3. wire'["marque"] = wire["marque"] /\ task'["marque"] = task["marque"]
                BY <1>2, <1>7, <3>4, IdsNamed
            <4>4. PICK paid \in Int : paid = MarquePaid /\ paid = MarquePaid'
                BY <3>2, <4>3 DEF MarquePaid
            <4>5. c >= s - paid
                BY <2>2, <2>4, <3>1, <4>4
            <4> QED BY <3>1, <3>2, <4>2, <4>4, <4>5
        <3> QED BY <3>3, <3>4
    <2> QED BY <1>2, <2>2, <2>3, <2>4 DEF SeenTrue
<1> QED BY <1>7, <1>8, <1>9, <1>10, <1>11 DEF WorkInv


\* Every step of the account or its server preserves the invariant.
LEMMA WorkNext1 == WorkInv /\ [WorkNext]_fwvars => WorkInv'
<1> SUFFICES ASSUME WorkInv, [WorkNext]_fwvars PROVE WorkInv'
    OBVIOUS
<1>t. WorkTypes /\ OnTheWire /\ NeverPlanned /\ HoldsBack
    BY DEF WorkInv
<1>n. /\ "loans" \in Names /\ "marque" \in Names /\ "treasury" \in Names /\ Fleet \subseteq Names
      /\ pass \in Passes /\ ~("loans" \in Fleet) /\ Fleet \subseteq Payers /\ "marque" \in Payers /\ "treasury" \in Payers
    BY <1>t, IdsNamed, PayersFinite DEF WorkTypes, Payers
<1>p. \A place \in Places : Goes(place) => pass' \in Passes /\ pass'.at = place /\ pass'.next = 1 /\ pass'.unresolved = pass.unresolved
    BY <1>n, EndsTyped
<1>1. ASSUME NEW id \in Names, LateCharge(id) PROVE WorkInv'
    BY <1>1, LateNext
<1>2. CASE Capture
    BY <1>2, CaptureNext
<1>3. CASE Dispatch
    BY <1>3, DispatchNext
<1>i. ASSUME UNCHANGED <<cash, due, wire, task, seen>>, Ends PROVE WorkInv'
    BY <1>i, EndsTyped, PassOnly
<1>h. ASSUME pass.at \in {"controls", "treasury", "ships", "tail"} PROVE Gated /\ \A id \in Names : ~Held(id)
    BY <1>h, <1>t DEF HoldsBack, Gated
<1>4. ASSUME NEW s \in Fleet, Tender(s) PROVE WorkInv'
    BY <1>4, <1>n, SetWell DEF Tender
<1>5. CASE ServiceLoans
    <2>1. CASE task["loans"] = "done" /\ Set("loans", NoJob)
        BY <1>n, <2>1, SetWell
    <2>2. CASE task["loans"] = NoJob /\ Set("loans", "staged")
        BY <1>n, <2>2, SetWell
    <2>3. CASE Skip(IF pass.unresolved THEN "credit" ELSE "controls")
        <3>1. PICK place \in Places : place = (IF pass.unresolved THEN "credit" ELSE "controls")
            BY DEF Places
        <3>2. Goes(place) /\ UNCHANGED <<cash, due, wire, task, seen>>
            BY <2>3, <3>1 DEF Skip
        <3>3. pass' \in Passes /\ pass'.at = place
            BY <1>p, <3>2
        <3>4. pass.at = "loans" /\ (place = "controls" => ~pass.unresolved) /\ place \in {"credit", "controls"}
            BY <1>5, <3>1 DEF ServiceLoans
        <3>5. pass'.at = "controls" => \A id \in Names : ~Held(id)
            BY <1>t, <3>3, <3>4 DEF HoldsBack
        <3> QED BY <3>2, <3>3, <3>4, <3>5, PassOnly
    <2> QED BY <1>5, <2>1, <2>2, <2>3 DEF ServiceLoans
<1>6. CASE CreditOnly
    BY <1>4, <1>6, <1>i DEF CreditOnly
<1>7. CASE DriveMarque
    <2>1. CASE task["marque"] \in {"done", "planned"} /\ Set("marque", NoJob)
        BY <1>n, <2>1, SetWell, WorkAssumption
    <2>2. CASE task["marque"] = "planned" /\ Set("marque", "staged")
        BY <1>n, <2>2, SetWell
    <2>3. CASE Skip("treasury")
        <3>1. "treasury" \in Places /\ Goes("treasury") /\ UNCHANGED <<cash, due, wire, task, seen>>
            BY <2>3 DEF Skip, Places
        <3>2. pass' \in Passes /\ pass'.at = "treasury" /\ pass.at = "controls"
            BY <1>7, <1>p, <3>1 DEF DriveMarque
        <3> QED BY <1>h, <3>1, <3>2, PassOnly
    <2> QED BY <1>7, <2>1, <2>2, <2>3 DEF DriveMarque
<1>8. CASE Treasury
    <2>0. Gated /\ pass.at = "treasury" /\ \A id \in Names : ~Held(id)
        BY <1>8, <1>h DEF Treasury
    <2>s. "ships" \in Places
        BY DEF Places
    <2>1. CASE task["treasury"] = "done" /\ task' = [task EXCEPT !["treasury"] = NoJob] /\ Goes("ships") /\ UNCHANGED <<cash, due, wire, seen, lost, jobs>>
        <3>1. wire["treasury"] = "none"
            BY <1>n, <1>t, <2>1 DEF OnTheWire, WorkTypes
        <3>2. wire' = [wire EXCEPT !["treasury"] = "none"]
            BY <1>t, <2>1, <3>1 DEF WorkTypes
        <3>3. Moves("treasury", NoJob, "none")
            BY <1>n, <2>1, <3>2, WorkAssumption DEF Moves
        <3>4. /\ wire' \in [Names -> {"none", "may", "applied"}] /\ task' \in [Names -> JobSteps \cup {NoJob}]
              /\ OnTheWire' /\ NeverPlanned' /\ task'["treasury"] = NoJob
              /\ \A other \in Names \ {"treasury"} : task'[other] = task[other] /\ wire'[other] = wire[other]
            BY <1>t, <3>3, MovesTyped
        <3>5. pass' \in Passes /\ pass'.at = "ships"
            BY <1>p, <2>1, <2>s
        <3>6. WorkTypes'
            BY <1>t, <2>1, <3>4, <3>5 DEF WorkTypes
        <3>7. Owing("treasury", NoJob, "none") = 0 /\ Owes("treasury") = 0
            BY <1>n, <2>1, WorkAssumption DEF Owing, Owes, Unpaid
        <3>8. Pays("treasury", NoJob, "none")
            BY <1>t, <2>1, <3>7 DEF Pays, WorkTypes
        <3>9. CommitmentsFunded'
            BY <3>3, <3>6, <3>8, StaysFunded
        <3>10. HoldsBack'
            BY <2>0, <3>4, <3>5, WorkAssumption DEF HoldsBack, Held, Pending
        <3>11. SeenTrue'
            <4>1. SeenTrue /\ pass.at # "idle"
                BY <2>0 DEF WorkInv
            <4>2. MarquePaid' = MarquePaid /\ task'["marque"] = task["marque"]
                BY <1>n, <3>4 DEF MarquePaid
            <4>3. (\A other \in Names \ {"marque"} : task'[other] # "sent") => (\A other \in Names \ {"marque"} : task[other] # "sent")
                BY <2>1, <3>4
            <4> QED BY <2>1, <4>1, <4>2, <4>3 DEF SeenTrue
        <3> QED BY <3>4, <3>6, <3>9, <3>10, <3>11 DEF WorkInv
    <2>2. CASE task["treasury"] = NoJob /\ Affordable("treasury") /\ Set("treasury", "staged")
        <3>1. wire["treasury"] = "none"
            BY <1>n, <1>t, <2>2, WorkAssumption DEF OnTheWire, WorkTypes
        <3>2. wire' = [wire EXCEPT !["treasury"] = "none"] /\ UNCHANGED <<cash, due, seen>> /\ Ends
            BY <1>t, <2>2, <3>1 DEF Set, WorkTypes
        <3>3. Moves("treasury", "staged", "none")
            BY <1>n, <2>2, <3>2 DEF Moves, Set, JobSteps
        <3>4. Unpaid("treasury") = 0
            BY <2>2, WorkAssumption DEF Unpaid
        <3> QED BY <1>n, <2>0, <2>2, <3>2, <3>3, <3>4, StartsWell
    <2>3. CASE Skip("ships")
        <3>1. Goes("ships") /\ UNCHANGED <<cash, due, wire, task, seen>>
            BY <2>3 DEF Skip
        <3>2. pass' \in Passes /\ pass'.at = "ships"
            BY <1>p, <2>s, <3>1
        <3> QED BY <2>0, <3>1, <3>2, PassOnly
    <2> QED BY <1>8, <2>1, <2>2, <2>3 DEF Treasury
<1>9. CASE DriveShip
    <2>0. Gated /\ pass.at = "ships" /\ \A id \in Names : ~Held(id)
        BY <1>9, <1>h DEF DriveShip
    <2>1. CASE NextShip
        <3>1. PICK none \in BOOLEAN : none = FALSE
            OBVIOUS
        <3>2. AdvanceJob(ShipOrder, "tail", none) /\ UNCHANGED <<cash, due, wire, task, seen>> /\ "tail" \in Places /\ Len(ShipOrder) \in Nat
            <4>1. Len(ShipOrder) \in Nat
                BY WorkAssumption
            <4>2. AdvanceJob(ShipOrder, "tail", FALSE) /\ UNCHANGED <<cash, due, wire, task, seen>>
                BY <2>1 DEF NextShip
            <4> QED BY <3>1, <4>1, <4>2 DEF Places
        <3>3. pass' \in Passes /\ pass'.at \in {"ships", "tail"}
            BY <1>n, <2>0, <3>2, Advances
        <3> QED BY <2>0, <3>2, <3>3, PassOnly
    <2>2. ASSUME NEW s \in Fleet, task[s] = NoJob, Affordable(s), Set(s, "planned") PROVE WorkInv'
        <3>1. wire[s] = "none" /\ s \in Names /\ s \in Payers /\ s # "treasury"
            BY <1>n, <1>t, <2>2, WorkAssumption DEF OnTheWire, WorkTypes, Controls
        <3>2. wire' = [wire EXCEPT ![s] = "none"] /\ UNCHANGED <<cash, due, seen>> /\ Ends
            BY <1>t, <2>2, <3>1 DEF Set, WorkTypes
        <3>3. Moves(s, "planned", "none")
            BY <2>2, <3>1, <3>2 DEF Moves, Set, JobSteps
        <3>4. Unpaid(s) = 0
            BY <2>2, WorkAssumption DEF Unpaid
        <3> QED BY <2>0, <2>2, <3>1, <3>2, <3>3, <3>4, StartsWell
    <2>3. ASSUME NEW s \in Fleet, task[s] = "planned", Set(s, "staged") PROVE WorkInv'
        BY <1>n, <2>3, SetWell
    <2>4. \/ NextShip
          \/ \E s \in Fleet : \/ task[s] = NoJob /\ Affordable(s) /\ Set(s, "planned")
                              \/ task[s] = "planned" /\ Set(s, "staged")
                              \/ Tender(s)
        BY <1>9 DEF DriveShip, Fleet
    <2> QED BY <1>4, <2>1, <2>2, <2>3, <2>4
<1>10. CASE PassTail
    <2>0. Gated /\ pass.at = "tail"
        BY <1>10, <1>h DEF PassTail
    <2>1. CASE task["marque"] = NoJob /\ Affordable("marque") /\ Set("marque", "planned")
        <3>1. wire["marque"] = "none"
            BY <1>n, <1>t, <2>1, WorkAssumption DEF OnTheWire, WorkTypes
        <3>2. wire' = [wire EXCEPT !["marque"] = "none"] /\ UNCHANGED <<cash, due, seen>> /\ Ends
            BY <1>t, <2>1, <3>1 DEF Set, WorkTypes
        <3>3. Moves("marque", "planned", "none")
            BY <1>n, <2>1, <3>2 DEF Moves, Set, JobSteps
        <3>4. Unpaid("marque") = 0
            BY <2>1, WorkAssumption DEF Unpaid
        <3> QED BY <1>n, <2>0, <2>1, <3>2, <3>3, <3>4, StartsWell
    <2> QED BY <1>10, <1>i, <2>1 DEF PassTail
<1>11. CASE Crash
    BY <1>11, <1>i DEF Crash
<1>12. CASE UNCHANGED fwvars
    <2>1. UNCHANGED <<cash, due, wire, task, seen, pass>>
        BY <1>12 DEF fwvars
    <2>2. Debt' = Debt
        BY <2>1 DEF Debt, UnpaidOf, Unpaid, Amount
    <2>3. WorkTypes' /\ OnTheWire' /\ NeverPlanned' /\ HoldsBack'
        BY <1>t, <2>1 DEF WorkTypes, OnTheWire, NeverPlanned, HoldsBack, Held
    <2>4. SeenTrue'
        BY <2>1 DEF WorkInv, SeenTrue, MarquePaid
    <2>5. WorkTypes' => DebtTyped'
        BY DebtTypes, PTL
    <2>6. CommitmentsFunded'
        BY <1>t, <2>1, <2>2, <2>3, <2>5, DebtTypes DEF WorkInv, DebtTyped
    <2> QED BY <2>3, <2>4, <2>6 DEF WorkInv
<1> QED BY <1>1, <1>2, <1>3, <1>5, <1>6, <1>7, <1>8, <1>9, <1>10, <1>11, <1>12 DEF WorkNext

\* No mission has begun, and the cash covers the reserve.
LEMMA WorkInit1 == WorkInit => WorkInv
<1> SUFFICES ASSUME WorkInit PROVE WorkInv
    OBVIOUS
<1>1. /\ cash \in Int /\ due \in Nat /\ cash >= ProtectedReserve + due
      /\ wire = [id \in Names |-> "none"] /\ task = [id \in Names |-> NoJob] /\ pass = Idle
    BY WorkAssumption DEF WorkInit
<1>2. seen \in [cash : Int, due : Nat, marque : BOOLEAN]
    <2>1. PICK no \in BOOLEAN : no = FALSE
        OBVIOUS
    <2>2. PICK zero \in Nat, none \in Int : zero = 0 /\ none = 0
        OBVIOUS
    <2>3. seen = [cash |-> none, due |-> zero, marque |-> no]
        BY <2>1, <2>2 DEF WorkInit
    <2> QED BY <2>3
<1>3. pass \in Passes /\ pass.at = "idle"
    <2>1. PICK one \in Nat \ {0} : one = 1
        OBVIOUS
    <2>2. PICK no \in BOOLEAN : no = FALSE
        OBVIOUS
    <2>3. PICK idle \in Places : idle = "idle"
        BY DEF Places
    <2>4. pass = [at |-> idle, next |-> one, unresolved |-> no]
        BY <1>1, <2>1, <2>2, <2>3 DEF Idle
    <2> QED BY <2>3, <2>4 DEF Passes
<1>4. WorkTypes
    BY <1>1, <1>2, <1>3 DEF WorkTypes
<1>5. OnTheWire /\ NeverPlanned
    BY <1>1, IdsNamed, WorkAssumption DEF OnTheWire, NeverPlanned
<1>6. HoldsBack /\ SeenTrue
    BY <1>3 DEF HoldsBack, SeenTrue
<1>7. Debt = 0
    <2>1. PICK unpaid : unpaid = UnpaidOf
        OBVIOUS
    <2>2. \A id \in Payers : unpaid[id] \in Int /\ unpaid[id] = 0
        BY <1>1, <2>1, PayersFinite, WorkAssumption DEF UnpaidOf, Unpaid
    <2>3. SumFunctionOnSet(unpaid, Payers) = 0
        BY <2>2, PayersFinite, SumZero
    <2> QED BY <2>1, <2>3 DEF Debt
<1>8. ProtectedReserve \in Int
    BY WorkAssumption
<1>9. CommitmentsFunded
    <2>1. DebtTyped
        BY <1>4, DebtTypes
    <2> QED BY <1>1, <1>7, <1>8, <2>1 DEF DebtTyped
<1> QED BY <1>4, <1>5, <1>6, <1>9 DEF WorkInv

\* The cash covers the reserve, the installment and every unpaid commitment.
THEOREM CommitmentsFundedHolds == WorkSpec => []CommitmentsFunded
<1>1. WorkInv => CommitmentsFunded
    BY DEF WorkInv
<1> QED BY <1>1, WorkInit1, WorkNext1, PTL DEF WorkSpec
=============================================================================
