---------------------------- MODULE ActionJournal ---------------------------
(***************************************************************************)
(* The durable life of one mission's game mutations:                       *)
(* internal/engine/journal.go (stage, dispatch, replan, reconcile),        *)
(* internal/engine/results.go (consume), internal/store/journal.go (the    *)
(* journal rows) and internal/gameapi/client.go (transport retries),       *)
(* against an upstream that remembers an idempotency key for a limited     *)
(* time.                                                                   *)
(*                                                                         *)
(* A mission carries out actions 1, 2, 3, ...: an action's ID is derived   *)
(* from the mission generation, stage and sequence number, so the number   *)
(* stands for the ID.  Every database write is one step and is fenced by   *)
(* account ownership (AccountLease: only the newest owner's writes         *)
(* commit); a process that has lost ownership goes on with whatever needs  *)
(* no write, sending requests included, until its context is cancelled.    *)
(* A crash and a restart of the same process is a TakeOver by itself.      *)
(*                                                                         *)
(* Why a first send is vetoed (a stream event, a cooldown, a price that    *)
(* moved) is data that this module leaves open: a veto may always happen.  *)
(***************************************************************************)
EXTENDS Integers

CONSTANTS
    Proc,           \* processes that may run the account
    None,
    MaxSeq,         \* actions of the mission
    ReplayWindow,   \* store.ActionReplayWindow, 23 hours
    Margin,         \* the minute dispatch keeps clear of the replay window
    KeyWindow,      \* how long the upstream remembers a key, 24 hours
    Transit,        \* how long a request may be under way
    MaxAttempts,    \* gameapi.maxAttempts
    MaxTime,        \* bound on the clock
    MaxTakeovers    \* bound on crashes, restarts and takeovers

ASSUME JournalAssumption ==
    /\ {MaxSeq, ReplayWindow, Margin, KeyWindow, Transit, MaxAttempts, MaxTime, MaxTakeovers} \subseteq Nat
    /\ None \notin Proc
    /\ ReplayWindow - Margin + Transit <= KeyWindow

Seqs == 1..MaxSeq

VARIABLES
    now,
    owner,      \* the process whose writes commit
    takeovers,
    \* the database
    seq,        \* missionData.Sequence
    staged,     \* missionData.Action # nil
    row,        \* the journal row of each action
    created,    \* its CreatedAt
    \* each process
    pc,         \* where dispatch stands
    cur,        \* the action being dispatched
    first,      \* firstSend: the lookup found no journal row
    tries,      \* transport attempts of this dispatch
    ans,        \* the answer in hand
    \* the network and the upstream
    net,        \* requests under way
    key,        \* what the upstream remembers of each key
    keyUntil,
    job,        \* the request being carried out under each key
    effects,    \* how often the mutation was carried out
    attempted   \* history: actions some request of which was sent

procVars == <<pc, cur, first, tries, ans>>
dbVars   == <<seq, staged, row, created>>
upVars   == <<net, key, keyUntil, job, effects>>
vars     == <<now, owner, takeovers, dbVars, procVars, upVars, attempted>>

RowState == {"absent", "pending", "ok", "unreadable", "rejected", "observed", "neversent"}
Decided  == {"ok", "unreadable", "rejected"}
Place    == {"down", "idle", "looked", "ready", "waiting", "answered", "completed", "vetoed"}
Request  == [id : Seqs, from : Proc, sent : 0..MaxTime]

DbTypes ==
    /\ now \in 0..MaxTime
    /\ owner \in Proc \cup {None}
    /\ takeovers \in 0..MaxTakeovers
    /\ seq \in 1..(MaxSeq + 1)
    /\ staged \in BOOLEAN
    /\ row \in [Seqs -> RowState]
    /\ created \in [Seqs -> 0..MaxTime]

ProcTypes ==
    /\ pc \in [Proc -> Place]
    /\ cur \in [Proc -> 0..MaxSeq]
    /\ first \in [Proc -> BOOLEAN]
    /\ tries \in [Proc -> 0..MaxAttempts]
    /\ ans \in [Proc -> Decided \cup {"none", "inflight"}]

UpTypes ==
    /\ net \subseteq Request
    /\ key \in [Seqs -> {"none", "busy", "ok", "rejected"}]
    /\ keyUntil \in [Seqs -> Nat]
    /\ job \in [Seqs -> Request \cup {None}]
    /\ effects \in [Seqs -> Nat]
    /\ attempted \subseteq Seqs

TypeOK == DbTypes /\ ProcTypes /\ UpTypes

Init ==
    /\ now = 0 /\ owner = None /\ takeovers = 0
    /\ seq = 1 /\ staged = FALSE
    /\ row = [s \in Seqs |-> "absent"] /\ created = [s \in Seqs |-> 0]
    /\ pc = [p \in Proc |-> "down"] /\ cur = [p \in Proc |-> 0] /\ first = [p \in Proc |-> FALSE]
    /\ tries = [p \in Proc |-> 0] /\ ans = [p \in Proc |-> "none"]
    /\ net = {} /\ key = [s \in Seqs |-> "none"] /\ keyUntil = [s \in Seqs |-> 0]
    /\ job = [s \in Seqs |-> None] /\ effects = [s \in Seqs |-> 0] /\ attempted = {}

-----------------------------------------------------------------------------
(* Ownership *)

At(p, where) ==
    /\ pc' = [pc EXCEPT ![p] = where]
    /\ cur' = [cur EXCEPT ![p] = 0]
    /\ first' = [first EXCEPT ![p] = FALSE]
    /\ tries' = [tries EXCEPT ![p] = 0]
    /\ ans' = [ans EXCEPT ![p] = "none"]

\* p starts, or starts again, and becomes the owner; what it remembered is
\* lost and what the previous owner was doing goes on.
TakeOver(p) ==
    /\ takeovers < MaxTakeovers
    /\ takeovers' = takeovers + 1
    /\ owner' = p
    /\ At(p, "idle")
    /\ UNCHANGED <<now, dbVars, upVars, attempted>>

\* A superseded process stops: its context is cancelled by the monitor or its
\* next write returns ErrOwnershipLost.
StopSuperseded(p) ==
    /\ p # owner /\ pc[p] # "down"
    /\ At(p, "down")
    /\ UNCHANGED <<now, owner, takeovers, dbVars, upVars, attempted>>

-----------------------------------------------------------------------------
(* Staging and looking up *)

\* stageAction saves the mission with its action: intent before journal row.
Stage(p) ==
    /\ pc[p] = "idle" /\ p = owner
    /\ ~staged /\ seq <= MaxSeq
    /\ staged' = TRUE
    /\ UNCHANGED <<now, owner, takeovers, seq, row, created, procVars, upVars, attempted>>

\* dispatch asks HasAction; the read is not fenced.
LookUp(p) ==
    /\ pc[p] = "idle" /\ staged
    /\ pc' = [pc EXCEPT ![p] = "looked"]
    /\ cur' = [cur EXCEPT ![p] = seq]
    /\ first' = [first EXCEPT ![p] = row[seq] = "absent"]
    /\ UNCHANGED <<now, owner, takeovers, dbVars, tries, ans, upVars, attempted>>

\* The mission moves on: Action = nil, Sequence++, PutMission.
Advance(p, where) ==
    /\ p = owner
    /\ seq' = cur[p] + 1
    /\ staged' = FALSE
    /\ At(p, where)
    /\ UNCHANGED <<now, owner, takeovers, row, created, upVars, attempted>>

\* An invalid stamp or a failed preflight before BeginAction: the intent has
\* no journal row and is dropped.
ReplanUnsentAction(p) ==
    /\ pc[p] = "looked" /\ first[p]
    /\ Advance(p, "idle")

\* The same veto for a bulletin, rename, loan bridge or futures intent keeps
\* the action and only restamps its epochs.
RestampUnsentAction(p) ==
    /\ pc[p] = "looked" /\ first[p] /\ p = owner
    /\ At(p, "idle")
    /\ UNCHANGED <<now, owner, takeovers, dbVars, upVars, attempted>>

-----------------------------------------------------------------------------
(* BeginAction and what the stored row asks for *)

\* Mutant: the window is measured from each attempt, not from the row.
BeforeCutoffAlways(s) == created[s] <= now

\* Time enough is left to send: dispatch stops Margin before the replay window.
BeforeCutoff(s) == now < created[s] + ReplayWindow - Margin

BeginAction(p) ==
    /\ pc[p] = "looked" /\ p = owner
    /\ row[cur[p]] = "absent"
    /\ row' = [row EXCEPT ![cur[p]] = "pending"]
    /\ created' = [created EXCEPT ![cur[p]] = now]
    /\ pc' = [pc EXCEPT ![p] = "ready"]
    /\ UNCHANGED <<now, owner, takeovers, seq, staged, cur, first, tries, ans, upVars, attempted>>

\* An earlier call left the row pending: the same request may be sent again.
ResumePending(p) ==
    /\ pc[p] = "looked" /\ p = owner /\ ~first[p]
    /\ row[cur[p]] = "pending" /\ BeforeCutoff(cur[p])
    /\ pc' = [pc EXCEPT ![p] = "ready"]
    /\ UNCHANGED <<now, owner, takeovers, dbVars, cur, first, tries, ans, upVars, attempted>>

\* ErrActionExpired or the cutoff: quarantined until evidence shows up.
Quarantine(p) ==
    /\ pc[p] = "looked" /\ p = owner /\ ~first[p]
    /\ row[cur[p]] = "pending" /\ ~BeforeCutoff(cur[p])
    /\ At(p, "idle")
    /\ UNCHANGED <<now, owner, takeovers, dbVars, upVars, attempted>>

\* reconcileObservedAction: a later capture shows the mutation was carried
\* out.  The evidence is journaled first; the mission follows.
ReconcileObserved(p) ==
    /\ pc[p] = "looked" /\ p = owner /\ ~first[p]
    /\ row[cur[p]] = "pending" /\ effects[cur[p]] > 0
    /\ row' = [row EXCEPT ![cur[p]] = "observed"]
    /\ pc' = [pc EXCEPT ![p] = "completed"]
    /\ UNCHANGED <<now, owner, takeovers, seq, staged, created, cur, first, tries, ans, upVars, attempted>>

\* Mutant: only the call that stored the outcome consumes it.
OutcomeInHand(p) == pc[p] \in {"completed", "vetoed"}

\* The outcome is in the journal: this call put it there, or an earlier one
\* did and died before it could change the mission.
Outcome(p) == pc[p] \in {"looked", "completed", "vetoed"}

\* consumeResult: a success whose receipt could be read.
ConsumeResult(p) ==
    /\ Outcome(p) /\ row[cur[p]] = "ok"
    /\ Advance(p, "idle")

\* consumeRejection: the mission is saved without the action; after HTTP 401
\* and 403 the runner then stops (ErrExecutionStopped).
ConsumeRejection(p) ==
    /\ Outcome(p) /\ row[cur[p]] = "rejected"
    /\ \E where \in {"idle", "down"} : Advance(p, where)

\* applyReconciliation: evidence stands in for the lost answer.
ApplyReconciliation(p) ==
    /\ Outcome(p) /\ row[cur[p]] = "observed"
    /\ Advance(p, "idle")

\* A stored never-sent proof releases the intent.
ReplanNeverSent(p) ==
    /\ Outcome(p) /\ row[cur[p]] = "neversent"
    /\ Advance(p, "idle")

\* reconcileCommitted: a 2xx answer that could not be read moves the mission
\* only once a capture shows the mutation.
ReconcileCommitted(p) ==
    /\ Outcome(p) /\ row[cur[p]] = "unreadable" /\ effects[cur[p]] > 0
    /\ Advance(p, "idle")

\* The unreadable success stays attached and blocks the mission.
HoldUnreadable(p) ==
    /\ pc[p] \in {"looked", "completed"} /\ p = owner
    /\ row[cur[p]] = "unreadable"
    /\ At(p, "idle")
    /\ UNCHANGED <<now, owner, takeovers, dbVars, upVars, attempted>>

-----------------------------------------------------------------------------
(* DoWithPreflight *)

\* The preflight of the first attempt of a first send says no: the journal
\* keeps the proof that nothing was sent.
VetoFirstSend(p) ==
    /\ pc[p] = "ready" /\ first[p] /\ tries[p] = 0 /\ p = owner
    /\ row' = [row EXCEPT ![cur[p]] = "neversent"]
    /\ pc' = [pc EXCEPT ![p] = "vetoed"]
    /\ UNCHANGED <<now, owner, takeovers, seq, staged, created, cur, first, tries, ans, upVars, attempted>>

\* One transport attempt.  The request context ends at the cutoff.
Send(p) ==
    /\ pc[p] \in {"ready", "waiting"} /\ tries[p] < MaxAttempts
    /\ BeforeCutoff(cur[p])
    /\ net' = net \cup {[id |-> cur[p], from |-> p, sent |-> now]}
    /\ attempted' = attempted \cup {cur[p]}
    /\ tries' = [tries EXCEPT ![p] = @ + 1]
    /\ pc' = [pc EXCEPT ![p] = "waiting"]
    /\ UNCHANGED <<now, owner, takeovers, dbVars, cur, first, ans, key, keyUntil, job, effects>>

\* Mutant: every 4xx answer is definitive.
DispositionOf4xx(a) == IF a = "inflight" THEN "rejected" ELSE a

\* disposition: what an answer settles.  An idempotency key whose first
\* request is still being carried out settles nothing.
Disposition(a) == IF a \in Decided THEN a ELSE "unresolved"

\* Attempts exhausted, deadline, cancelled wait, or an answer that settles
\* nothing: the cooldown is saved with the mission and the row stays pending.
StayUnresolved(p) ==
    /\ \/ pc[p] \in {"ready", "waiting"}
       \/ pc[p] = "answered" /\ Disposition(ans[p]) = "unresolved"
    /\ p = owner
    /\ At(p, "idle")
    /\ UNCHANGED <<now, owner, takeovers, dbVars, upVars, attempted>>

\* CompleteAction / finishAction: only a pending row takes an outcome; the
\* same outcome again is accepted, a different one is ErrActionConflict.
CompleteAction(p) ==
    /\ pc[p] = "answered" /\ p = owner
    /\ Disposition(ans[p]) # "unresolved"
    /\ row[cur[p]] = "pending"
    /\ row' = [row EXCEPT ![cur[p]] = Disposition(ans[p])]
    /\ pc' = [pc EXCEPT ![p] = "completed"]
    /\ UNCHANGED <<now, owner, takeovers, seq, staged, created, cur, first, tries, ans, upVars, attempted>>

-----------------------------------------------------------------------------
(* The network and the upstream (external) *)

\* The answer reaches a process that still waits for it, or is lost.
Answer(m, a) ==
    \/ UNCHANGED procVars
    \/ /\ pc[m.from] = "waiting" /\ cur[m.from] = m.id
       /\ pc' = [pc EXCEPT ![m.from] = "answered"]
       /\ ans' = [ans EXCEPT ![m.from] = a]
       /\ UNCHANGED <<cur, first, tries>>

Remembers(s) == key[s] = "busy" \/ (key[s] # "none" /\ now < keyUntil[s])

\* A request with an unknown key starts to be carried out.
Arrive(m) ==
    /\ ~Remembers(m.id)
    /\ net' = net \ {m}
    /\ key' = [key EXCEPT ![m.id] = "busy"]
    /\ keyUntil' = [keyUntil EXCEPT ![m.id] = now + KeyWindow]
    /\ job' = [job EXCEPT ![m.id] = m]
    /\ UNCHANGED <<now, owner, takeovers, dbVars, procVars, effects, attempted>>

\* A request with a known key gets the stored answer, or is told that the
\* first one is still under way (409 idempotency_request_in_flight).
Replay(m) ==
    /\ Remembers(m.id)
    /\ net' = net \ {m}
    /\ Answer(m, IF key[m.id] = "busy" THEN "inflight" ELSE key[m.id])
    /\ UNCHANGED <<now, owner, takeovers, dbVars, key, keyUntil, job, effects, attempted>>

\* The upstream carries the mutation out; its answer may be unreadable.
Finish(s) ==
    /\ key[s] = "busy"
    /\ key' = [key EXCEPT ![s] = "ok"]
    /\ effects' = [effects EXCEPT ![s] = @ + 1]
    /\ \E a \in {"ok", "unreadable"} : Answer(job[s], a)
    /\ job' = [job EXCEPT ![s] = None]
    /\ UNCHANGED <<now, owner, takeovers, dbVars, net, keyUntil, attempted>>

\* A definitive refusal (4xx, 429 included) is stored like a success.
Refuse(s) ==
    /\ key[s] = "busy"
    /\ key' = [key EXCEPT ![s] = "rejected"]
    /\ Answer(job[s], "rejected")
    /\ job' = [job EXCEPT ![s] = None]
    /\ UNCHANGED <<now, owner, takeovers, dbVars, net, keyUntil, effects, attempted>>

\* A 5xx that changed nothing forgets the key.
ServerError(s) ==
    /\ key[s] = "busy"
    /\ key' = [key EXCEPT ![s] = "none"]
    /\ job' = [job EXCEPT ![s] = None]
    /\ UNCHANGED <<now, owner, takeovers, dbVars, procVars, net, keyUntil, effects, attempted>>

Lose(m) ==
    /\ net' = net \ {m}
    /\ UNCHANGED <<now, owner, takeovers, dbVars, procVars, key, keyUntil, job, effects, attempted>>

\* Time passes; a request does not stay under way longer than Transit.
Tick ==
    /\ now < MaxTime
    /\ now' = now + 1
    /\ net' = {m \in net : now + 1 <= m.sent + Transit}
    /\ UNCHANGED <<owner, takeovers, dbVars, procVars, key, keyUntil, job, effects, attempted>>

-----------------------------------------------------------------------------
Work(p) ==
    \/ Stage(p) \/ LookUp(p) \/ ReplanUnsentAction(p) \/ RestampUnsentAction(p)
    \/ BeginAction(p) \/ ResumePending(p) \/ Quarantine(p) \/ ReconcileObserved(p)
    \/ ConsumeResult(p) \/ ConsumeRejection(p) \/ ApplyReconciliation(p) \/ ReplanNeverSent(p)
    \/ ReconcileCommitted(p) \/ HoldUnreadable(p)
    \/ VetoFirstSend(p) \/ Send(p) \/ StayUnresolved(p) \/ CompleteAction(p)

Upstream ==
    \/ \E m \in net : Arrive(m) \/ Replay(m) \/ Lose(m)
    \/ \E s \in Seqs : Finish(s) \/ Refuse(s) \/ ServerError(s)

Next ==
    \/ \E p \in Proc : TakeOver(p) \/ StopSuperseded(p) \/ Work(p)
    \/ Upstream
    \/ Tick

\* The supervisor restarts the runner that owns the account and the runner
\* keeps passing over its missions; nothing is assumed of the upstream, the
\* network, the clock or a process that has been superseded.
Fairness == \A p \in Proc : WF_vars(p = owner /\ Work(p))

Spec == Init /\ [][Next]_vars /\ Fairness

-----------------------------------------------------------------------------
(* Properties *)

\* Whatever is resent, by whom and how late: a mutation is carried out at most
\* once.  This is what the key, the replay window and the margin are for.
AtMostOneEffect == \A s \in Seqs : effects[s] <= 1

\* The mission's account of the past is true and stays true: an action it has
\* moved beyond was carried out exactly if the journal says so, and no late
\* duplicate of a refused or never-sent action can change that.
LedgerTrue ==
    \A s \in Seqs : s < seq => (effects[s] = 1 <=> row[s] \in {"ok", "unreadable", "observed"})

\* A request leaves only under a journal row, and a row that proves "never
\* sent" is never one some process, the previous owner included, has sent.
NeverSentProof == \A s \in Seqs : row[s] \in {"absent", "neversent"} => s \notin attempted

\* The mission keeps one action at a time: nothing beyond the current one has
\* been sent, and the current one only while it is attached to the mission.
OneOutstandingAction == \A s \in attempted : s < seq \/ (s = seq /\ staged)

\* An outcome that reached the journal reaches the mission, also when the
\* process dies between the two writes.
StoredOutcomeConsumed ==
    \A s \in Seqs : row[s] \in {"ok", "rejected", "observed", "neversent"} ~> seq > s
=============================================================================
