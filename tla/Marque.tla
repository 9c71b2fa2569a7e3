------------------------------- MODULE Marque -------------------------------
(***************************************************************************)
(* Letters of marque: internal/engine/marque.go, with the marque cases of  *)
(* the dispatcher and of consumeActionResult.                              *)
(*                                                                         *)
(* A letter is bought for one sea zone, earns prizes during its term and   *)
(* is judged by its final prize.  The list of letters is requested at one  *)
(* moment and processed at a later one; it may miss a letter for ListLag   *)
(* ticks after its issue and may leave out one it has recorded before.  The *)
(* answer to an issue may be lost and the request applied until its replay *)
(* window ends.  There is one zone; exposure of the fleet, traffic, the    *)
(* quote's price and the funds are left open, so that an admission may be  *)
(* refused at any time for a reason outside the model.                     *)
(***************************************************************************)
EXTENDS Integers, FiniteSets, FiniteSetsExt

CONSTANTS
    NoMarque,           \* no mission, no request, no list
    Cost,               \* pence for one letter
    Prizes,             \* what a letter may earn in its term
    UnrecoveredLimit,   \* marqueUnrecoveredLimitPence
    Term,               \* duration of a letter
    Window,             \* ActionReplayWindow
    LastSend,           \* how long its request may be sent again
    ZoneBackoff,        \* seven game days
    ReturnsNeeded,      \* outcomes before a zone's returns are judged
    ListLag,            \* ticks a new letter may be missing from the list
    MaxIssues, MaxClock, MaxUpsets

\* The __marque mission and its request.
Issues == [step : {"admitted", "staged", "sent", "done"}, before : SUBSET Nat,
           notBefore : Nat, created : Nat, issued : Nat]

ASSUME MarqueAssumption ==
    /\ {Cost, UnrecoveredLimit, Window, ZoneBackoff, ReturnsNeeded, ListLag, MaxIssues, MaxClock, MaxUpsets} \subseteq Nat
    /\ {Term, LastSend} \subseteq Nat \ {0} /\ Prizes \subseteq Nat /\ 0 \in Prizes
    /\ LastSend <= Window /\ LastSend + ListLag <= Window + 1    \* a list taken after the window has what was issued
    /\ NoMarque \notin Issues

VARIABLES
    clock,          \* server time
    letters,        \* the server's letters by number: when issued, prize so far
    flight,         \* the issue request at the server: not yet applied, until when it may be
    listing,        \* the list being fetched: its request start and content
    marques,        \* the fresh captured list, NoMarque when there is none
    outcomes,       \* _marque_outcomes: final prizes by letter
    active,         \* _marque_active: letters seen in force, with the prize seen
    pending,        \* _marque_pending: 0 none, -1 an unresolved request, otherwise the issued letter
    backoff,        \* _marque_backoffs and _marque_backoff_basis of the zone
    issue,          \* the __marque mission
    upsets          \* lost answers, crashes and omissions so far

mqvars == <<clock, letters, flight, listing, marques, outcomes, active, pending, backoff, issue, upsets>>

Upset == upsets < MaxUpsets /\ upsets' = upsets + 1
Letters == DOMAIN letters
Expiry(l) == letters[l].issued + Term
\* A mission before it has a request: BeforeIDs, NotBefore and IssuedID empty.
FreshIssue == [step |-> "admitted", before |-> {}, notBefore |-> 0, created |-> 0, issued |-> 0]

MarqueInit ==
    /\ clock = 0 /\ letters = <<>> /\ flight = NoMarque /\ listing = NoMarque /\ marques = NoMarque
    /\ outcomes = <<>> /\ active = <<>> /\ pending = 0
    /\ backoff = [until |-> 0, basis |-> NoMarque, by |-> 0] /\ issue = NoMarque /\ upsets = 0

-----------------------------------------------------------------------------
\* The server.
TickMarque ==
    /\ clock < MaxClock /\ clock' = clock + 1
    /\ flight' = IF flight # NoMarque /\ clock + 1 >= flight.until THEN NoMarque ELSE flight
    /\ UNCHANGED <<letters, listing, marques, outcomes, active, pending, backoff, issue, upsets>>
\* A ship in the zone is taken while the letter is in force.
PrizePaid(l) ==
    /\ clock < Expiry(l) /\ letters[l].prize = 0
    /\ \E prize \in Prizes \ {0} : letters' = [letters EXCEPT ![l].prize = prize]
    /\ UNCHANGED <<clock, flight, listing, marques, outcomes, active, pending, backoff, issue, upsets>>
Granted == [l \in 1..(Cardinality(Letters) + 1) |->
              IF l \in Letters THEN letters[l] ELSE [issued |-> clock, prize |-> 0]]
MayGrant == Cardinality(Letters) < MaxIssues
LateApplied ==
    /\ flight # NoMarque /\ MayGrant /\ letters' = Granted /\ flight' = NoMarque
    /\ UNCHANGED <<clock, listing, marques, outcomes, active, pending, backoff, issue, upsets>>

-----------------------------------------------------------------------------
\* A capture: the list is requested ...
Remembered == DOMAIN active \cup DOMAIN outcomes
Omittable == {l \in Letters : l \in Remembered \/ clock - letters[l].issued < ListLag}
RequestMarques ==
    /\ listing = NoMarque
    /\ \E gone \in SUBSET Omittable :
         /\ IF gone = {} THEN UNCHANGED upsets ELSE Upset
         /\ listing' = [at |-> clock, prize |-> [l \in Letters \ gone |-> letters[l].prize]]
    /\ marques' = NoMarque
    /\ UNCHANGED <<clock, letters, flight, outcomes, active, pending, backoff, issue>>

\* ... and processed.  Only a list requested after the expiry has the final prize.
Over(list, l, at) == l \in DOMAIN list.prize /\ at >= Expiry(l)
ObservedAtProcessing(list) == clock
ObservedAt(list) == list.at
\* mergeMarqueOutcomes
MergedOutcomes(list) ==
    [l \in DOMAIN outcomes \cup {x \in Letters : Over(list, x, ObservedAt(list))} |->
       IF Over(list, l, ObservedAt(list)) THEN list.prize[l] ELSE outcomes[l]]
\* An omission releases nothing; a letter leaves with its outcome.
RetainedActive(list) ==
    [l \in {x \in DOMAIN active \cup DOMAIN list.prize : ~Over(list, x, ObservedAt(list))} |->
       IF l \in DOMAIN list.prize THEN list.prize[l] ELSE active[l]]

\* rollingMarqueReturns: number, prizes and last expiry of the letters known to be over.
Returns(known) ==
    [count |-> Cardinality(DOMAIN known), prize |-> MapThenSumSet(LAMBDA l : known[l], DOMAIN known),
     latest |-> IF DOMAIN known = {} THEN 0 ELSE Max({Expiry(l) : l \in DOMAIN known})]
Losing(r) == r.prize < Cost * r.count
\* A losing zone rests once for each set of outcomes it is judged on.
NewBackoff(known) ==
    LET r == Returns(known)
        judged == r.count >= ReturnsNeeded /\ Losing(r)
        rest == clock + ZoneBackoff
    IN  IF judged /\ backoff.basis # r
        THEN [until |-> Max({backoff.until, rest}), basis |-> r, by |-> rest]
        ELSE IF judged \/ backoff.basis = NoMarque THEN backoff
        ELSE [until |-> IF backoff.until = backoff.by THEN 0 ELSE backoff.until, basis |-> NoMarque, by |-> 0]

\* What the request may still cost, or the letter whose record is awaited.
Awaited ==
    IF issue # NoMarque
    THEN IF issue.step = "done" THEN issue.issued ELSE -1
    ELSE IF pending > 0 THEN pending ELSE 0
NextPending(list) == IF Awaited > 0 /\ Awaited \in DOMAIN list.prize THEN 0 ELSE Awaited

RecordMarques ==
    /\ listing # NoMarque
    /\ listing # NoMarque =>
         \E known \in {MergedOutcomes(listing)} :
           /\ outcomes' = known /\ active' = RetainedActive(listing) /\ backoff' = NewBackoff(known)
           /\ pending' = NextPending(listing) /\ marques' = listing
    /\ listing' = NoMarque
    /\ UNCHANGED <<clock, letters, flight, issue, upsets>>

-----------------------------------------------------------------------------
\* marqueEvidence: letters in force as retained or listed; one that is over
\* and has no outcome yet is an error.
InForce == DOMAIN active \cup {l \in DOMAIN marques.prize : clock < Expiry(l)}
Evidence == marques # NoMarque /\ (marques # NoMarque => \A l \in InForce : clock < Expiry(l))
\* EvaluateMarque, the conditions that depend on our own history.
Unrecovered(known) == Cost * Cardinality(DOMAIN known) - Returns(known).prize
WithinLimitBefore == Unrecovered(outcomes) <= UnrecoveredLimit
WithinLimit == Unrecovered(outcomes) + Cost <= UnrecoveredLimit
EvaluateMarque ==
    LET r == Returns(outcomes)
    IN  /\ InForce = {} /\ clock >= backoff.until
        /\ ~(r.count >= ReturnsNeeded /\ Losing(r) /\ backoff.basis # r)
        /\ WithinLimit
Admissible == Evidence /\ (marques # NoMarque => EvaluateMarque)

\* considerMarque
Consider ==
    /\ issue = NoMarque /\ pending <= 0 /\ Admissible
    /\ issue' = FreshIssue /\ marques' = NoMarque
    /\ UNCHANGED <<clock, letters, flight, listing, outcomes, active, pending, backoff, upsets>>

\* driveMarque: a finished mission is deleted, an admission that changed is
\* dropped, any other request is staged with the letters it must not be taken for.
Retire ==
    /\ issue # NoMarque
    /\ issue.step \in {"done", "admitted"} /\ marques # NoMarque
    /\ issue' = NoMarque /\ marques' = NoMarque
    /\ UNCHANGED <<clock, letters, flight, listing, outcomes, active, pending, backoff, upsets>>
StageIssue ==
    /\ issue # NoMarque /\ issue.step = "admitted" /\ Admissible
    /\ issue' = [issue EXCEPT !.step = "staged", !.before = DOMAIN marques.prize, !.notBefore = clock]
    /\ marques' = NoMarque
    /\ UNCHANGED <<clock, letters, flight, listing, outcomes, active, pending, backoff, upsets>>

\* recordMarqueRefusal
Refusal == [backoff EXCEPT !.until = Max({@, clock + ZoneBackoff})]
\* The next work dispatches it after a capture of its own: marquePreflight again.
Done(letter) == [issue EXCEPT !.step = "done", !.issued = letter]
SendIssue ==
    /\ issue # NoMarque /\ issue.step = "staged" /\ marques # NoMarque
    /\ \/ /\ Admissible /\ MayGrant                          \* answered
          /\ letters' = Granted /\ issue' = Done(Cardinality(Letters) + 1) /\ UNCHANGED <<flight, backoff, upsets>>
       \/ /\ Admissible                                      \* refused
          /\ issue' = Done(0) /\ backoff' = Refusal
          /\ UNCHANGED <<letters, flight, upsets>>
       \/ /\ Admissible /\ Upset                             \* no answer
          /\ issue' = [issue EXCEPT !.step = "sent", !.created = clock]
          /\ \/ MayGrant /\ letters' = Granted /\ UNCHANGED flight
             \/ flight' = [until |-> clock + LastSend] /\ UNCHANGED letters
          /\ UNCHANGED backoff
       \/ /\ issue' = FreshIssue                             \* vetoed, never sent
          /\ UNCHANGED <<letters, flight, backoff, upsets>>
    /\ marques' = NoMarque
    /\ UNCHANGED <<clock, listing, outcomes, active, pending>>

\* A retry inside the window gets the answer of the one application.
Own == {l \in Letters : letters[l].issued >= issue.notBefore /\ l \notin issue.before}
ResendIssue ==
    /\ issue # NoMarque /\ issue.step = "sent" /\ marques # NoMarque /\ clock < issue.created + LastSend
    /\ \/ /\ flight # NoMarque /\ MayGrant
          /\ letters' = Granted /\ flight' = NoMarque /\ issue' = Done(Cardinality(Letters) + 1)
       \/ /\ flight = NoMarque /\ Own # {}
          /\ issue' = Done(Max(Own)) /\ UNCHANGED <<letters, flight>>
    /\ marques' = NoMarque
    /\ UNCHANGED <<clock, listing, outcomes, active, pending, backoff, upsets>>

\* reconcileMarque: the one new letter of the list, or a list captured after
\* the window that has none.
Matches == {l \in DOMAIN marques.prize : l \notin issue.before /\ letters[l].issued >= issue.notBefore}
AbsentAtOnce == marques.at >= issue.created
ProvenAbsent == marques.at >= issue.created + Window
ReconcileMarque ==
    /\ issue # NoMarque /\ issue.step = "sent" /\ marques # NoMarque
    /\ \/ \E l \in Matches : Matches = {l} /\ issue' = Done(l)
       \/ Matches = {} /\ ProvenAbsent /\ issue' = Done(0)
    /\ marques' = NoMarque
    /\ UNCHANGED <<clock, letters, flight, listing, outcomes, active, pending, backoff, upsets>>

\* A process stops: the snapshot and the mission are durable, the list is fetched again.
RestartMarques ==
    /\ Upset /\ listing' = NoMarque /\ marques' = NoMarque
    /\ UNCHANGED <<clock, letters, flight, outcomes, active, pending, backoff, issue>>

MarqueNext ==
    \/ TickMarque \/ (\E l \in Letters : PrizePaid(l)) \/ LateApplied
    \/ RequestMarques \/ RecordMarques \/ Consider \/ Retire \/ StageIssue
    \/ SendIssue \/ ResendIssue \/ ReconcileMarque \/ RestartMarques
MarqueSpec == MarqueInit /\ [][MarqueNext]_mqvars

-----------------------------------------------------------------------------
\* Never two of our letters in force at once, whatever answer was lost and
\* whatever the list left out.
OneMarque == Cardinality({l \in Letters : clock < Expiry(l)}) <= 1

\* The prize a letter is judged by is the prize it ended with.
PrizeTrue == \A l \in DOMAIN outcomes : outcomes[l] = letters[l].prize

\* What the letters cost beyond what they have earned never passes the limit.
LossBounded ==
    Cost * Cardinality(Letters) - MapThenSumSet(LAMBDA l : letters[l].prize, Letters) <= UnrecoveredLimit
=============================================================================
