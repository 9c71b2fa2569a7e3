# go-tradewinds: specifications, model checks and proofs

go-tradewinds trades for companies in an online shipping game. One process runs
any number of accounts. For each account it keeps a PostgreSQL-backed record of
what it intends, what it sent and what came of it, and drives ships through
missions by sending HTTP mutations to a server it does not control. This
directory holds TLA+ models of the parts where a mistake costs money and a unit
test is unlikely to find it, the TLC configurations that check them on small
instances, and TLAPS proofs of the central properties for every instance.

`PROJECT.json` lists components, runs, mutants, the map from definitions to
source lines, findings, hazards and theorems.

## 1. The system

### Parts, their state and their operations

| part | source | state | operations | what is hard |
|---|---|---|---|---|
| account ownership | `store/locks.go` | two advisory locks on one pinned session, `accounts.owner_generation`, a lease per process | acquire, monitor, guard a write, release, close | a session dies while its owner goes on; a takeover between check and COMMIT; error paths that keep a lock |
| action journal | `engine/journal.go`, `engine/results.go`, `store/journal.go` | mission row with at most one staged action and a sequence number, one journal row per action | stage, begin, veto, send, resend, complete, consume, reconcile, replan | crash between any two writes, lost answers, late resends, a superseded process that still sends |
| event stream and runner loop | `engine/runner.go`, `gameapi/stream.go`, `store/telemetry.go` | channel of 256 messages, published/handled/captured epochs, durable cursor | deliver, enqueue, drain, capture, recheck, work, reconnect, reset cursor | events that overtake a capture, gaps, full queue, restarts |
| API client and limiter | `gameapi/client.go`, `gameapi/limiter.go` | token buckets per origin and per key, pauses, retry counters | take a token, send, learn from headers, back off, retry, cancel | answers out of order, cooldowns, cancellation after a definitive answer |
| registration | `cmd/tradewinds/register.go` | provisional account, credentials, bootstrap journal rows | register, underworld-key | four upstream effects, any of which may be lost or repeated |
| settlement | `engine/mission.go`, `engine/company_flows.go`, `store/settlements.go` | bills claimed in memory, in the snapshot and in mission rows; settlement rows; company flows | claim, put settlement, save phase, delete, backfill | four copies of one fact with a crash between any two |
| voyage missions | `engine/mission.go`, `engine/procurement.go`, `engine/freight.go` | phase, books, sealed freight | provision, buy, depart, arrive, sell, deliver, unwind, recover | the world changes between observation and send |
| passengers, loans, growth, insurance, marques, ship losses, bulletin | `engine/*.go` with their `store/*.go` | control missions over the same journal, each with its own durable intent | admit, readmit, observe, settle, retire | evidence that arrives late, twice or never |
| futures | `engine/futures*.go`, `store/futures.go` | permanent intents per leg, the "__futures" row, credit evidence | reserve, rent room, accept, settle, sell surplus, readmit | late listings, lost acceptances, old keys |
| snapshot and replay | `engine/snapshot*.go`, `store/store.go`, `engine/replay_recorder.go`, `store/replay.go` | JSON datasets with freshness, a route digest cache, frames that name payloads | capture, save, shed, load, record, prune | cache against rollback and takeover, pruning against inserts |
| planning, sourcing, simulator | `engine/planner.go`, `engine/sourcing.go`, `internal/sim` | none of their own | value candidates | numeric, sequential |
| dashboard, history, warnings | `internal/httpapi`, `store/read.go`, `web` | none of their own | read | not concurrent with trading decisions |

### How they interact

`cmd/tradewinds` acquires the lease of an account and starts a Runner under
`superviseAccount`, which starts a fresh Runner whenever one fails. The Runner
owns the loop: it drains stream messages, captures REST state, saves the
snapshot, and then works on missions. Work never calls the game directly: it
stages an action in a mission row, and `dispatch` writes a journal row, checks
every fence once more immediately before the first send, and hands the request
to the client. All database writes of a running account go through `writeOwned`,
so ownership fences them; network sends are not fenced by it, which is why the
journal must be correct even while a superseded process is still sending.

## 2. The modules

| module | models | composed with |
|---|---|---|
| `FencedWrites` | what ownership promises: a register that accepts writes of the newest generation only | implemented by `AccountLease` |
| `AccountLease` | `store/locks.go`, `Store.Close`, `Store.SaveAccount` | `INSTANCE FencedWrites` with generations as the refinement mapping |
| `ActionJournal` | the life of one mission's actions against an upstream with an idempotency cache | uses the promise of `AccountLease`: a database write is a step of the newest owner |
| `EventStream` | stream goroutine, queue, cursor and the fences of a first send | its intent is one action of `ActionJournal` |
| `ApiClient` | the client and limiter shared by concurrent calls | its outcome classes are the answers `ActionJournal` receives |
| `Registration` | the operator commands over the journal | same journal rows, with the lease held |
| `BillClaims` | settlement of finished missions and publication of company costs | the mission rows `ActionJournal` advances |
| `VoyageMission` | one ship's mission from plan or recovery to deletion, against a world that changes under it | its requests are actions of `ActionJournal`, its settlement is frozen as in `BillClaims` |
| `FleetWork` | the pass over all ships and the money each mission commits | the missions it drives are `VoyageMission`s |
| `LoanService`, `LoanRefinance` | the `__loans` control: arrears, bridges, prepayment; and refinancing through a player's offer | `LoanRefinance` extends `LoanService` |
| `Growth` | the `__growth` control from candidate to the handoff of a new hull | its last step creates the mission that `VoyageMission` starts from |
| `Futures` | the `__futures` control: listings, cohorts, lease of warehouse room, settlement and credit | a request under a new journal key is `ActionJournal`'s next action |
| `Passengers` | offers, boarding, departure, fares, archive and quarantine of parties on one ship | fare events arrive as in `EventStream` |
| `SnapshotStore` | the routes table behind a digest cache, under two processes and failing saves | ownership as in `AccountLease` |
| `ReplayRecorder`, `ReplayTape` | the bounded recorder; frames that name payloads by digest, and pruning | `ReplayTape` is the table `ReplayRecorder` writes |
| `ShipLosses` | missing, lost and recovered hulls and the event that explains them | event rows and the cursor of `EventStream` |
| `BulletinPost` | one post from intent to count | journal rows |
| `Underwriting`, `VoyageInsurance`, `Marque` | cover written, cover bought, letters of marque | journal rows and `VoyageMission`'s books |
| `*Proofs` | theorems; `ContractsProofs` is about `BillClaims` and `Growth`, `StoreProofs` about `AccountLease`, `SnapshotStore`, `ReplayRecorder`, `ReplayTape` and `Futures`, `DealingsProofs` about `ActionJournal`, `Registration`, `Marque`, `VoyageInsurance`, `Underwriting` and `FleetWork`, `UpstreamProofs` about `ApiClient`, `BulletinPost` and `EventStream`, `VoyageProofs` and `LoanProofs` about the mission and `LoanService`, `PassengersProofs` about `Passengers`; `SumLemmas` has the lemmas about sums that three of them share | |
| `MC*` | model values and constant definitions for TLC; four of them carry several modules | |

`MCStore`, `MCContracts`, `MCRequests` and `MCUpstream` check several components
in one run. A variable `part`, chosen at the start and never changed, says which
of them takes steps; the others stay in one of their initial states. The states
of such a run are therefore the sum of its parts' states, never their product:
the parts share a run, not a behaviour, and each property is about one of them.
`MCRequests` and `MCUpstream` extend their parts, so that a run evaluates the
parts' assumptions and checks the very definitions the theorems are about.

### AccountLease

An `Owner` is one Store with its lease. `ReadIdentity`, `LockAccount`,
`LockCompany`, `FenceOwner` and `FenceWithoutOwner` are the stages of
`AcquireAccountContext`, `AccountLocked` and `AcquireFails` its error paths.
`SessionDies` is the server dropping the pinned session and with it the advisory
locks. `BeginWrite`, `GuardSession`, `GuardGeneration`, `Commit` and `Rollback`
are the stages of `writeOwned`; `GuardGeneration` takes the row lock of
`SELECT ... FOR SHARE`, which `FenceOwner`'s UPDATE has to wait for. A
transaction runs on another connection than the lease and may outlive it.
`CommitSaveAccount` creates the account row and may bind the company.

### ActionJournal

Action *n* of the mission stands for its derived ID. `row[n]` is its journal row
(absent, pending, never sent, ok, rejected, throttled, unreadable, observed).
`Stage` to `Finish` follow `stageAction`, `dispatchWithOutcomeContext`,
`BeginAction`, the client's attempts, `finishAction` and `consumeResult` in the
order of the code, one database write per step. Requests travel for up to
`Transit` time units, may be lost or duplicated by resends of any process, and
the upstream remembers a key for `KeyWindow`. `TakeOver` is a crash with restart
or another process becoming owner; the old process keeps sending until
`StopSuperseded`. What makes dispatch veto a first send is left open: it may
always veto.

### EventStream

`spc` is the stream goroutine, `rpc` the loop of `Run`. `Deliver`, `DeliverGap`
and `Break` publish the epoch of a message before queueing it, as the callback
does. `Capture`, `RefreshDone` and `BeginWork` are the refresh, the drain before
the published and the captured epochs are compared, and the work of a pass; the intent carries the
stamps of `stageAction`, and a first send repeats the comparison as
`stagedFundsValid` and `stagedControlValid` do. An empty cursor opens the stream
at its live end and cursor "0" at the oldest retained event; both are
assumptions about the server.

### ApiClient

A call moves through `Client.do`: wait for tokens of the origin's and the key's
bucket, veto before the first attempt only, send, read headers, read the body,
settle, back off, retry. Time is in ticks. The classes "write" (per origin and
key) and "auth" (per origin) stand for the five bucket classes, which differ in
their numbers only. The release feed's limiter, one isolated bucket whose pauses
are capped at an hour, is left out. The model does not claim that the server never answers 429:
other clients share its limits.

### Registration

`Steps` are the four bootstrap actions in the order `register` sends them and
each mint of an observer key is an action of its own. Commands die or fail
anywhere and are run again. Names are generated deterministically, so a repeated
request has the same body.

### BillClaims

The upstream posts bills, each naming a ship. A pass is `Refresh`,
`RecordFlows` or `SkipFlows`, one step of one mission, `EndPass`. `stored` is the
saved copy of `expenseOwners`, `mission[s].ids` the claim in the mission row,
`settled[g].ids` the one in the settlement, `flows` the published company costs.
Left out: amounts, the retention window of the ledger (an open mission extends
it back to its own start), missions of passengers, which settle by a path of
their own, and passes without a fresh ledger, which do no ship work.

### VoyageMission

`w` is the world: the ship, its hold and stores, one freight contract of one ton
for `Away`, one charter there. `Capture` is the start of a pass and also every
process death: whatever was not written is forgotten, `work` adopts active
freight that the mission row does not name, and the pass goes on from the new
capture `seen`. `Drive*`, `SailingArrived`, `Maintain`, `Unwind`, `Close` and
`FinishMission` are the branches of `driveMission` in its order of precedence;
each ends the pass with the one durable write the code makes. `Send` is
`dispatch`: evidence is looked for before a request is sent again, and the
answer is a receipt, an unreadable success, a refusal, a throttle or none. The
journal itself is `ActionJournal`'s: here a key takes effect at most once.
`ConsumeReceipt`, `ConsumeRejection` and `ReconcileObservedAction` are what the
three kinds of outcome do to the row. `moved` records what the mission's
requests really cost and earned, at one penny a ton; `known` is `CostsKnown`.

What the planner, the market or the reserve rules decide is left open: a
purchase may be unwound, a freight candidate dropped, a first send vetoed at any
time. A hold is a step that is not taken; cooldowns are not timed. Stores are
sufficient or not, and are used up at sea only. Left out: return legs and growth
lanes (a new voyage ends at its destination), relocations, refits, voyage
insurance, convoys, the turnaround lock, and overhead bills, which `BillClaims`
models.

### FleetWork

One pass: from a capture of the cash (`seen`), first the requests of the durable
missions, then loans, then the controls and the ships in `ShipOrder`; the first
change ends it. `task` is each mission's step, `wire` the server's view of its
request. A mission may start only on what is left of `seen` after what the
others have promised. `CommitmentsFunded` asks that what they promised can be
paid when it falls due. Whether an alternative is worth its money is left open.

### LoanService and LoanRefinance

One amortised loan, amounts in installments. `w` is the server, `seen` the
capture, `dates` and `retry` what the snapshot keeps of each due date, `lm` the
"__loans" row; `whole = FALSE` is a death between the two writes of an
operation. `funded` and `prepaid` record what the requests really did. The
houses lend no less than 100,000 pence and in steps of 10,000, so a bridge may
bring in up to `Rounding` more than is missing, and less where the hull or the
houses do not cover it (`Lent`).
`LoanRefinance` adds the controller (`rf`, `rdue`, `cool`, `off`) and its row
`rm`: request, quote, acceptance, payoff of the old loan, or backing off.

### Growth

The "__growth" row `gm` goes from a candidate hull through savings, player loans
and liens, build, refit and provisioning to the handoff, which creates the
hull's first voyage (`voy`) in the transaction that retires the row. `gw` is the
server, `gseen` the capture, `sav`, `fb`, `off` the snapshot. Economics are
verdicts left open, so a candidate may be given up at any time: what
`UnusedDebtRepaid` is about. `Reserve` stands for everything the company keeps
back (`fullLoanReserves`), taken as constant. Unused debt is repaid only from
what is above it, when the repayment is staged and again when it is first sent
(`Repayable`, `GrowthReady`), and `UnusedDebtRepaid` excepts a vault that cannot
pay a loan still owed and keep the reserve.

### Futures

Two cohorts at one port: a purchase and a sale accepted by one request, and a
sale covered by stock. `fw` is the server, `rows` the permanent intents, `fj`
the journal row under the cohort's current key, `fm` the "__futures" row, `fcap`
the capture with the settlement events recorded by then, `cred` the read of the
own credit. `FirstSend` to `GracePasses` are the request, `Readmit` the only way
to another key. Prices, the edge and the counterparty's credit are verdicts.

### Passengers

A ship goes from port 1 to 2 to 3; groups wait at the first two. `pw` is the
server with its offers, `evs` the fare events as recorded, `pm` the mission row,
`acc` settlements, receipts and quarantine archives, `snap` the hints, the wait
and the refusals of the snapshot. A party is told by its hint, its receipt or
the manifest; what none of them can tell is quarantined. A write that fails or a
process that dies between two writes is a fault.

### SnapshotStore, ReplayRecorder, ReplayTape

`db.routes` is the table, `cache` the digests and the fingerprint each Store
keeps of it; a save writes what they say has changed. `SaveFails` is a rollback
and also a commit whose acknowledgement is lost. `ReplayRecorder` keeps three
bounded queues between the runner and its writer and counts what it drops.
`ReplayTape` inserts payloads by digest (`ON CONFLICT DO UPDATE` marks them as
seen and locks them), and prunes frames, then payloads, below a cutoff.

### ShipLosses, BulletinPost, Underwriting, VoyageInsurance, Marque

`ShipLosses`: a hull goes missing and is lost, paid for or found again (`sea`,
`happened`), while its `row` and the snapshot `live`, with the search for the
event that explains it, are committed apart; `disk` is the committed snapshot.
The ghost `overlaid` says that a loss was written over another one which the row
still held (section 7 tells how). `BulletinPost`: an immutable intent
with one key, the pages read to find out whether it was posted, and the schedule
that counts it. `Underwriting`: slices of policies whose collateral is bound by
a budget fixed once, on a board that is read with a lag. `VoyageInsurance`:
cover offered once for each leg of one mission, its end, and the books.
`Marque`: one letter at a time, on a list that lags and leaves letters out. A
lost request may be sent again or applied late for `LastSend`, and is given up
on with a list taken `Window` after it was made. A list may leave out a letter
younger than `ListLag`, or one that the snapshot has recorded.

## 3. Runs

| run | question | bounds and why they suffice |
|---|---|---|
| `account_lease` | is every committed write one of the newest owner, and does a lost owner stop? | two owners, one account, one company, three generations: takeover, return and a third start, each overlapping a write in flight |
| `store` | do error paths leak a lock; does the routes table hold what was saved; is every event recorded or counted and every frame whole; is a contract forgotten or asked for twice? | locks: two owners, two accounts of one company, one generation each; routes: two Stores, three owners, one route in two phases; recorder: queues of one and two, two lost writes; tape: two writers, two payloads, two ticks beyond a slack of one; futures: a cross pair offered, a covered sale beside a standing pair, or a standing pair over a lot that may spoil, and two keys per cohort. A second of each is what it takes to meet a stale one |
| `requests` | is a mutation carried out twice, is the record of it true, is every outcome consumed; is each kind of purchase paid for once, within budget, and booked? | journal: one action, two processes, two attempts, two takeovers, replay window 3 with margin 1, key lifetime 3 and transit 1, a clock of five that runs past all of them; registration: two mints, three troubles, a slow upstream; two letters of marque on a clock of five, three upsets; a voyage out and back with up to four policies and two misses; two ships, three missions started, two lost answers; two policies of two versions each under a budget that one unit more would let both bind, one fault |
| `event` | is anything sent on an outdated capture or past a control event, is every retained event recorded, does work resume? | queue of one, so that both sides block; two events of which one moves money and one ends authorization, one broken or refused connection, two sessions |
| `voyage` | does a mission keep its seals, account for what moved, leave nothing aboard, and end? | one mission, planned or recovered from any state of the ship; lots of one ton in a hold of two; one loss at sea or sinking, one change of charter terms, one unreadable success; answers lost any number of times |
| `upstream` | do tokens and pauses survive any order of answers; is each post counted; is each cause found? | three calls on two keys, buckets of one token, two ticks; two topics, a day of two hours, a clock of four, two lost answers; one lost hull, its hazard and its claim in either order, two failures or crashes, a clock of two: a crash or a failed read, write or load on each side of the commit, with and without an overlaid row; more of either is left to the theorem |
| `credit` | do the books tell what was borrowed, is a prepayment decided on a fresh capture, does a refinancing end? | a debt of two installments, a vault of three, a rounding of one installment, one due date, two borrower requests, two payoffs tried, with hulls to pledge or lenders but not both |
| `contracts` | is each bill claimed once and accounted for; does financing lose sight of debt or create a voyage twice? | two ships compete for one bill over two missions and three deaths, as many as lose an owner (see `republish`); a hull of price one, a reserve of one in a vault of up to a reserve more than both, two loans, one admission, one refit, a deadline two days off |
| `passengers` | do fares and costs go to their own voyage once, is nobody left aboard, does each passage settle? | two groups at the first port, or one at each of the first two; fare events tagged, stamped or neither; two offers, two voyages, costs up to two, one fault, a damaged request counting as its loss |
| `register_resumes` | finding: does running register again finish it? | three troubles |
| `republish` | finding: can a settled bill be published? | one ship, one bill, three deaths |
| `freight_adopted_twice` | finding: is a contract held once? | the mission of `voyage` without losses |

Every property has a mutant: a plausible bug in one mapped definition that makes
TLC find the property violated. Type correctness is not spent a run on: the
theorems of section 5 have it as a part of their invariants, checked for every
instance.

`CHECK_DEADLOCK FALSE` is used where the bounded behaviour ends: when actions,
calls, keys or the clock are used up, when the runner has stopped for good on
revoked authorization, when a mission, a loan or a passage is over.

### Fairness

- `AccountLease`: the monitor goroutine and the release path of a running
  process take their steps.
- `ActionJournal`: the owner keeps working; a pass follows every pass. Nothing
  is assumed of superseded processes, the network or the upstream.
- `EventStream`: goroutines are scheduled (weak fairness). Strong fairness of a
  capture that reconnects and of beginning work says that the pauses between
  events are long enough for a REST capture now and then; a stream that
  invalidates every capture for ever does starve the runner, and the code
  accepts that.
- `Registration`: the operator runs the command again, the upstream answers, and
  a throttled or lost request is not throttled or lost every time.
- `BillClaims`: the loop runs and a settling mission is driven again in later
  passes although each pass changes one mission only.
- `VoyageMission`: passes never stop, ships arrive, deadlines pass, and a key
  that was used gets its stored answer. Strong fairness of `Filled` and `Denied`:
  a request that is made again and again is not lost, throttled or filled with
  nothing every time, and an impossible one is refused. Nothing is assumed of a
  charter but that it is answered; it may be refused every time.
- `LoanRefinance`, `Growth`, `Passengers`: the loop captures and works in turn, a
  request that is sent again and again is answered and carried out at some time,
  and what the server does by itself (a party leaves, a build ends) it does.
  `PassengersDelivered` and `PassageSettles` also assume of a passage that is
  ready to sail that it departs or is cancelled in the end: the checks of the
  departure that the model leaves out (safety of the route, provisions, freight
  and promises that match, `passageDepartureReady`) do not fail for ever.

## 4. Findings

- `register_resumes`: a lost answer to the creation of the company leaves a
  journal row that no later run completes, so binding the account fails on every
  rerun, although `docs/runbook.md` tells operators to run it again.
- `republish`: `finishMission` deletes the settled mission without saving the
  snapshot first, as the passenger path does. Three deaths in the right places
  lose the owner of a settled bill, and the backfill publishes it.
- `freight_adopted_twice`: a death between the stored receipt of a freight
  acceptance and the mission's write lets the next pass adopt the contract from
  the account and then append it again from the receipt. With two obligations
  for one cargo the tender is held as short until the contract defaults. Looking
  for the obligation first, as `applyReconciliation` does, would prevent it.

## 5. Proofs

All theorems are about the specification that TLC checks, for every value of the
constants that satisfies the `ASSUME`s of the module.

- `StoreProofs`, ownership. The inductive invariant adds to the types that a lease's
  generation never exceeds the row's, that a lease on a registered account with
  the row's generation is unique, and that a transaction past
  `GuardGeneration` shares the row. `GuardedIsCurrent`, `GenerationUnique`,
  `CommitsFollowOwnership` and the refinement of `FencedWrites` follow; a second
  invariant about the keys of held locks gives `NoOrphanLock` and
  `LiveLeaseExclusive`.
- `DealingsProofs`, actions. `AtMostOneEffect` needs that every request under way
  and every process about to send is young enough for the upstream to know its
  key: `ReplayWindow - Margin + Transit <= KeyWindow`, the inequality that 23
  hours, one minute and 24 hours satisfy. The invariant relates each journal row
  to what was sent, to the state of the key and to the answers in flight; from
  it also `LedgerTrue`, `NeverSentProof` and `OneOutstandingAction`.
- `DealingsProofs`, registration. `IntentInv`: what was carried out has its
  answer kept upstream or is so old that its row is never begun again, and a
  request is at the upstream only for the pending, young row the command is at:
  `EachIntentOnce`, for any observer keys, losses and restarts.
- `DealingsProofs`, marques. `MarqueInv`: a letter in force is recorded in the
  snapshot, awaited, or its request is unresolved (`AllKnown`); a request is
  taken up only with every earlier letter over, buys one letter at most, and
  none once a list could have shown it (`IssueOK`, `FlightOK`, `ListOK`). It
  gives `OneMarque` for any term, lag and window with
  `LastSend + ListLag <= Window + 1`. The proof needed that inequality, and that
  a list omits only what is young or *recorded*: with "shown before" instead, a
  list lost in a crash would have allowed the next one to hide the letter, and
  with a request that may be applied until `Window` a list taken at that moment
  could miss it. The bounds of the run met neither; the model now says what the
  dispatcher ensures, which stops sending ahead of the window.
- `UpstreamProofs`, limiter. Each bucket's tokens and what it granted never
  exceed what it was given, and its pause covers every used answer:
  `BurstBounded`, `CooldownHonoured`.
- `UpstreamProofs`, bulletin. `BulletinInv`: our posts differ by key, a request
  that may still be applied is the open mission's or was applied already
  (`WireOK`), the mission tells its post from every earlier one (`PostOK`), and
  the schedule counts all posts but that one, which it counts when its outcome
  is recorded (`CountOK`). Hence `PostsCounted`, for any topics, delays and
  losses, and with a death between the schedule's write and the mission's.
- `UpstreamProofs`, event stream. Three invariants, one per question. `ControlInv`: a
  control message that was published is in the queue, being drained or handled,
  so equal epochs mean that none is ahead of the work. `FundsInv`: an intent
  carries the stamp of the capture it was staged on, and a message that moves
  money raises the published epoch before it is queued. They give
  `NoSendPastControl` and `FirstSendOnCurrentFunds` for any queue, any number of
  events, breaks and sessions. `CursorInv`: the stored cursor is never ahead of
  what is recorded, and the position a session opens at is the stored one or the
  live end, which gives `CursorBehindRecorded`.
- `UpstreamProofs`, ship losses. `CauseInv` says of the loss a process judges by
  that every event up to the cursor which belongs to it is told in it, unless all
  events are still to be read (`Heeded`), and that its dates are in order
  (`Sound`). Before the row exists only the pending row tells of the loss, in
  memory and in the committed snapshot alike, so a crash loses both or neither.
  Afterwards a process that loaded the row agrees with it while it is open
  (`MemoryAsRow`), or has a row to write that is not behind it (`AheadOfRow`);
  one that restarted reads all events again. Hence `NoCauseForgotten` for any
  delays, fates, clock and number of failures, with two exceptions that are in
  its statement: a claim recorded before its own hazard (`Early`), and the row of
  a hull once it was `overlaid`.
- `ContractsProofs`, bills. `BillsClaimedOnce` is not inductive: the owners in
  memory and in the snapshot may both have been lost. It holds because a mission
  knows when it starts every bill ever settled for its ship (`StartedAfter`),
  because what was claimed stays visible in the ledger (`ClaimsVisible`), and
  because generations are never reused (`FreshGens`).
- `ContractsProofs`, growth. `GrowthInv` says of every loan the lender has on
  its books that the row, the request on its way or the debt list names it, and
  of the voyage of a new hull that it exists from the handoff on, once: hence
  `NoOrphanDebt` and `HandoffOnce`, for any number of loans, hulls and refits.
  `GrowthNone` says that the value for "none" is not a request.
- `LoanProofs`. A due date is under way or closed (`UnderWay`, `Closed`), and in
  each case the bridge in the snapshot, in the mission row and at the lender
  relate in one way, deaths between the two writes included: `BridgeBooksTrue`.
  All bridges of a date together exceed its need by one rounding at most: each
  asks for what is still missing, and none starts once the need is met.
  `MarkerHasMission` is a part of it. `FreshInv` says that a capture on which a
  prepayment may be decided was taken after the last one left the row:
  `PrepaidFromFresh`.
- `VoyageProofs`. `BooksInv` relates `moved`, what is booked and what the action
  on its way has moved and not booked, or a default that is pending; `SealInv`
  says that sealed tons are the ship's to deliver or the row does not know them
  and does not touch them; `CaptureHolds` says what a capture proves of the
  world it was taken of; `SettledInv` that a settled mission's books are final.
  They give `AccountingTrue`, `SealsKept` and, with what the world may still do
  to the hold (`Kept`, `Emptied`), `NothingLeftAboard`, for any lot size and any
  number of missions, losses and changes of terms.
- `StoreProofs`, routes. `RoutesInv`: each belief in the cache of the Store that
  runs the newest owner is what the table holds, or is forgotten. Nobody else
  writes after `AcquireLease` emptied it, an error empties it, and so skipping
  what it calls unchanged loses nothing: `RoutesStored`, for any routes, Stores
  and owners.
- `StoreProofs`, recorder. `EventsAccounted` adds the sizes of the frames of a
  queue up. The sum is a fold over a sequence; what it is for a longer and for a
  shorter queue follows from a least counterexample (`SizesIs`, `SizesAppend`,
  `SizesHead`). `RecorderInv` adds to the types that the writer holds one frame
  from taking it until its write ended (`InHand`): then each step moves events
  from one place to the next, and a frame is lost only with an error counted.
- `StoreProofs`, tape. `TapeInv`: a payload that a readable frame names was seen
  at most `Slack` before the frame, a transaction holds a lock on each payload it
  found, nobody else names one it is inserting, and a pass deletes only what was
  seen before its cutoff less the slack: `TapeWhole`.
- `StoreProofs`, futures. `FuturesInv`: a cohort is accepted whole or not at all
  and, while its request is under way, exactly if that was carried out
  (`AcceptedWhole`); a request not sent or refused did nothing (`RequestShape`);
  a capture after the grace shows what was done (`ProofAfterGrace`). It gives
  `NoForgottenContract`, and that a step to another key finds every leg unsold
  and the wire empty, `NewKeyOnlyWhenDead`. `FuturesAssumption` says that a
  listing is not open and standing at once and that a pair stands whole.

- `PassengersProofs`, fares. Which voyage an event is of is nowhere written in it; the
  code infers it from times, and `FareInv` says why it may. What the server
  knows: its clock counts the voyages, a group is aboard on its own voyage, and
  a ship that sailed has no open offer (`ShipTrue`); an event is of the groups
  and the number that identify it, and its stamp is the end of their voyage
  (`EventsTrue`). What the mission does: an offer is asked for only by a mission
  without groups, and departure only with groups and no open offer
  (`RequestTrue`); so a mission that was not set apart waits where it began or
  has carried its groups one voyage (`AtHome`, `Away`), and an event after their
  boarding is of their voyage. Receipts in hand and archived batches are of that
  voyage (`ReceiptsTrue`, `UnknownTrue`), and no two settlements share an event
  (`RowsTrue`). A passage that was quarantined books nothing with events. Hence
  `FareToItsVoyage`, for any ways the server words its events. `PassengersNil`
  says that the value for "none" is no number, archived batch or mission row.
- `PassengersProofs`, costs. `PassageCostedOnce` adds up what four kinds of
  settlements carry. `CostInv` says of each passage that its settlements carry no
  more than it spent, that what it carried when it was set apart is its archive,
  up to its marker, and that one recovery may add to it (`GenOK`, for all
  passages `Books`); of the mission, that it knows what its passage spent and
  which part is booked: nothing before its receipts, which carry all of it, the
  completion without fares, or, set apart, all of it (`MissionBooked`); and of
  the rest, that a passage without a mission has booked what it spent, and that a
  completion without fares is booked unless its mission is still at it
  (`GenTrue`). That the shares of a batch come to the costs of the passage needs
  that it has one or two events, as its groups have; that a passage found later
  swaps one unknown completion for fares of the same costs is `SettledSwap`.

- `SumLemmas`. Models add amounts up over the settlements of a passage, the
  policies of a mission, the slices of a board and the payers of a fleet. A sum
  recurses over
  subsets, and the library's induction rules take an operator that no installed
  prover can instantiate; but that a nonempty set of finite sets has a minimal
  member (`WFMin`) is first-order. The lemmas follow from a minimal
  counterexample: the recursion has a solution, all solutions agree, any element
  may be the last one added, and hence `SumChange`, `SumMonotone` and `SumSplit`.
  They ask that what is summed over is finite, which `UnderwritingAssumption`
  says of `Policies` and `WorkAssumption` of the fleet (`ShipOrder` is a sequence).
- `DealingsProofs`, cover bought. `CoverBooked` says of a settled mission what its
  premiums and refunds come to, and is not inductive. `CoverInv` adds that at
  most one request is under way, for the leg in port, and that a leg has the
  policy that is booked for it and no other (`OneRequest`); that the board lags
  but never shows an open policy as ended (`BoardTrue`); that the ledger of the
  books is read after the ends are observed (`EndsSeen`); and that until then
  the books hold the premiums (`BooksOpen`), and afterwards everything, with
  every policy ended (`BooksClosed`). Hence `CoverBooked` for any refunds,
  claims, lags of the board and misses.
- `DealingsProofs`, cover written. `BudgetRespected` bounds what all slices may lose
  together by a budget fixed once. `UnderwritingInv` adds that every slice has
  its receipt or is the one being asked for (`SlicesKnown`), that a slice from
  before this database keeps it from writing any (`ForeignBlocks`), and that a
  request whose answer was lost counts as collateral already locked
  (`WithinBudget`): an admission then overlooks nothing, whatever version of the
  board it sees. `EndsTrue` says that on the frozen terms what was shown or
  recorded of an end is the end; `SliceReceipted` and `ClosedAsEnded` follow too.
- `DealingsProofs`, commitments. `CommitmentsFunded` compares one vault with the
  missions of all ships. `WorkInv` adds that only a request whose outcome is
  unknown may still be applied (`OnTheWire`), that such an outcome keeps the pass
  from the work behind the gate (`HoldsBack`), and that past the gate only the
  marque can have taken cash since the capture (`SeenTrue`). A step then moves
  the debt of one mission (`SumChange`) and the vault by no more than it, and a
  new mission fits into what is left: for any fleet, order of its ships and
  prices.

Only model-checked: the liveness properties (`LostOwnershipCancelled`,
`StoredOutcomeConsumed`, `WorkResumes`, `MissionEnds`, `RefinanceEnds`,
`BillsAccounted`, `UnusedDebtRepaid`, `PassengersDelivered`, `PassageSettles`),
as fairness is out of the prover's reach. Every safety property of the passing
runs is a theorem.

## 6. Assumptions about the outside

- PostgreSQL drops advisory locks with their session, and row locks as
  documented; a COMMIT that was sent may take effect after its client is gone.
- The game server keeps the outcome of a key, refusals included, for `KeyWindow`
  and answers a repeated key with it, or with a conflict while it is busy.
- A request is under way for at most `Transit`.
- Before its account row exists an owner has generation 0 and is not fenced; the
  properties about writes are stated for registered accounts.

## 7. Corners of the code met while modelling

But for one case of an overlaid row, which is said below, they contradict no
text of the repository, and so are not findings; the models show them as holds,
except them by name or leave them out, as said.

- Release of a quarantined passage whose mission is recovery-only deletes the
  hint before the hull; if the last write fails there is never a fresh capture
  aboard again. When the wait is deleted and `DeleteMission` then fails, the
  party is quarantined for a "lost clock observation".
- A mission with a prepared, unknown settlement whose ship goes missing, and the
  recovery mission of a lost ship, do not end; `MissionEnds` is about ships that
  arrive or are declared lost with their settlement known.
- Two offers that match one lost offer request hold the passage for ever, and so
  does a request for voyage insurance that was lost and never applied; a post
  whose key expired unresolved is quarantined for good.
- `recoverShip` holds a ship that is under way without route legs, and ends the
  pass with it: later ships and the tail of the pass get no turn.
- A claim event that is read while the hull is only missing is passed over, and
  found again after a restart. Events arrive in either order in the model, and
  `NoCauseForgotten` excepts a claim recorded before its hazard.
- The row of a lost hull may come to stand for two losses (`overlaid`), and
  nothing more is said of its events then. (a) A process dies between the row of
  a loss and its snapshot and after the restart the row cannot be loaded: the
  hull is observed again with a later date, events are judged by that date while
  the row keeps the earlier one, and a claim in between is passed over until the
  next restart: two failures. (b) A pending row from an older snapshot is
  written over a newer row. (c) The write of a recovery fails and the hull is
  lost again before the retry: the new loss replaces the recovery that was
  pending, and the row stays open: one failure, in a time of four.
  `docs/architecture.md:59` says "A subsequent real loss or new absence starts a
  fresh episode instead of reusing the resolved absence", and line 63 that "the
  pending row and its original evidence stay in protected `_pending_ship_losses`
  snapshot state until an idempotent save succeeds"; (c) is a disagreement with
  both. It is known from tracing the code and lies beyond the clock of
  `upstream`; no run is kept for it.
- A recovery may itself be set apart: its own request is damaged, or an earlier
  recovery of the passage left a marker, with which the new one conflicts.
  `quarantinePassage` treats it as an ordinary passage, so that its release
  leaves no recovery marker, and what the recovery had spent since the archive is
  booked nowhere. And a recovery whose release wrote its marker but not the rest
  may find groups of a player's offer aboard and sail with them: its marker is
  written and does not follow. Each takes more than one fault;
  `PassageCostedOnce` then still says that nothing is booked twice, and excepts
  these passages (the ghost `again`) from having booked everything.
- A position on a policy that was cancelled is never closed.
- A frame older than the cutoff of a pruning pass that commits between its two
  DELETEs may name a pruned payload until the next pass; `TapeWhole` is about
  frames at or above the cutoff.

## 8. Not modelled, and the plan

Not to be modelled: valuation of voyages, sourcing and scouting (numeric, no
state of its own: its choices are inputs that the models leave open), the
simulator, encryption and redaction, SQL read models, the HTTP handlers and the
web client, the mirror of the bulletin board, return legs and relocations.

Proofs still to be written: `RowClaimsUnpublished` of `BillClaims`; `PrizeTrue`
of `Marque` and `CadenceKept` of `BulletinPost`; the client's vetoes and pauses.
