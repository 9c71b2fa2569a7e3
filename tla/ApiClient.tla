------------------------------ MODULE ApiClient ------------------------------
(***************************************************************************)
(* The game API client and its shared rate limiter                         *)
(* (internal/gameapi/client.go and limiter.go).  Concurrent calls of       *)
(* several accounts take tokens from one bucket per origin ("IP") and one  *)
(* per API key, send, learn limits from the headers of answers that arrive *)
(* in any order, and retry, pause or give up.                              *)
(*                                                                         *)
(* Two of the five bucket classes stand for all: "write" exists per origin *)
(* and per key, "auth" only per origin.  Time is counted in ticks.         *)
(***************************************************************************)
EXTENDS Integers, FiniteSets

CONSTANTS
    Calls,          \* invocations of Client.do
    Keys,           \* API keys
    IP,             \* the owner of the origin-wide buckets
    KeyOf,          \* the key each call uses
    Kind,           \* "trade", "auth", "bulletin" or "borrow", for each call
    Capacity,       \* of a key's bucket
    Refill,         \* tokens a key's bucket gains per tick
    Factor,         \* the origin-wide bucket is this many times larger
    MaxAttempts,    \* attempts of an ordinary call
    Replies,        \* the answers the server may give
    None,           \* a header that is absent or does not parse
    MaxClock

Ids   == {"write", "auth"}
Kinds == {"trade", "auth", "bulletin", "borrow"}

Statuses == {"ok", "rejected", "throttled", "unavailable"}

\* What the client reads in an answer: its HTTP status, whether its problem
\* code is the company's own bulletin limit or mute, and its rate headers.
Reply == [status : Statuses, company : BOOLEAN, id : Ids,
          remaining : Nat \cup {None}, retry : Nat \cup {None}, reset : Nat \cup {None}]

ASSUME ApiClientAssumption ==
    /\ IP \notin Keys /\ KeyOf \in [Calls -> Keys] /\ Kind \in [Calls -> Kinds]
    /\ Capacity \in Nat \ {0} /\ Refill \in Nat /\ Factor \in Nat \ {0} /\ MaxAttempts \in Nat \ {0}
    /\ MaxClock \in Nat /\ None \notin Nat /\ Replies \subseteq Reply

VARIABLES
    clock,
    tokens,     \* tokenBucket.tokens of every owner and bucket
    pause,      \* tokenBucket.pauseUntil
    pc,         \* where each call stands in do
    attempt,    \* its loop counter
    cancelled,  \* its context is done
    got,        \* the answer it is reading, with its time
    outcome,    \* lastOutcome
    result,     \* what it returned
    \* history
    sent,       \* tokens taken from every bucket
    transmitted, \* attempts handed to the transport
    answers     \* every answer a call received and used, with its time

buckets == <<tokens, pause>>
control == <<pc, attempt, cancelled, got, outcome, result>>
history == <<sent, transmitted, answers>>
vars    == <<clock, buckets, control, history>>

Owners == {IP} \cup Keys

\* requestBucket
Bucket(c) == IF Kind[c] = "auth" THEN "auth" ELSE "write"

\* The buckets a call draws on: "auth" is shared by all accounts.
Draws(c, id) == IF id = "auth" THEN {IP} ELSE {IP, KeyOf[c]}

Multiple(o, id) == IF o = IP /\ id # "auth" THEN Factor ELSE 1

\* mutationAttempts
AttemptLimit(c) == IF Kind[c] \in {"bulletin", "borrow"} THEN 1 ELSE MaxAttempts

Answers == [reply : Replies, at : 0..MaxClock]

Phases == {"wait", "ready", "flight", "body", "pause", "backoff", "done"}

Outcomes == Statuses \cup {"none", "lost", "cancelled", "veto"}

TypeOK ==
    /\ clock \in 0..MaxClock
    /\ tokens \in [Owners -> [Ids -> Nat]]
    /\ pause \in [Owners -> [Ids -> Nat]]
    /\ pc \in [Calls -> Phases]
    /\ attempt \in [Calls -> 0..(MaxAttempts - 1)]
    /\ cancelled \in [Calls -> BOOLEAN]
    /\ outcome \in [Calls -> Outcomes] /\ result \in [Calls -> Outcomes]
    /\ sent \in [Owners -> [Ids -> Nat]]
    /\ transmitted \in [Calls -> Nat]
    /\ got \in [Calls -> Answers \cup {None}] /\ answers \in [Calls -> SUBSET Answers]

Init ==
    /\ clock = 0
    /\ tokens = [o \in Owners |-> [id \in Ids |-> Multiple(o, id) * Capacity]]
    /\ pause = [o \in Owners |-> [id \in Ids |-> 0]]
    /\ pc = [c \in Calls |-> "wait"] /\ attempt = [c \in Calls |-> 0]
    /\ cancelled = [c \in Calls |-> FALSE] /\ got = [c \in Calls |-> None]
    /\ outcome = [c \in Calls |-> "none"] /\ result = [c \in Calls |-> "none"]
    /\ sent = [o \in Owners |-> [id \in Ids |-> 0]]
    /\ transmitted = [c \in Calls |-> 0] /\ answers = [c \in Calls |-> {}]

-----------------------------------------------------------------------------
(* The limiter *)

MinOf(a, b) == IF a <= b THEN a ELSE b

\* Time passes and every bucket refills up to its capacity.
Tick ==
    /\ clock < MaxClock
    /\ clock' = clock + 1
    /\ tokens' = [o \in Owners |-> [id \in Ids |->
                    MinOf(Multiple(o, id) * Capacity, tokens[o][id] + Multiple(o, id) * Refill)]]
    /\ UNCHANGED <<pause, control, history>>

\* wait: one token from every bucket of the call, all or none, once no bucket
\* is empty or paused.
Take(c) ==
    /\ pc[c] = "wait" /\ ~cancelled[c]
    /\ \A o \in Draws(c, Bucket(c)) : tokens[o][Bucket(c)] >= 1 /\ clock >= pause[o][Bucket(c)]
    /\ tokens' = [o \in Owners |-> IF o \in Draws(c, Bucket(c)) THEN [tokens[o] EXCEPT ![Bucket(c)] = @ - 1] ELSE tokens[o]]
    /\ sent' = [o \in Owners |-> IF o \in Draws(c, Bucket(c)) THEN [sent[o] EXCEPT ![Bucket(c)] = @ + 1] ELSE sent[o]]
    /\ pc' = [pc EXCEPT ![c] = "ready"]
    /\ UNCHANGED <<clock, pause, attempt, cancelled, got, outcome, result, transmitted, answers>>

Exhausted(r) == r.remaining = 0 \/ r.status = "throttled"

\* The deadline the headers name: Retry-After first, then the reset header when
\* the bucket is exhausted; a 429 always pauses.
Until(a) ==
    LET r     == a.reply
        named == CASE r.retry # None                                    -> a.at + r.retry
                   [] r.retry = None /\ r.reset # None /\ Exhausted(r) -> a.at + r.reset
                   [] OTHER                                             -> 0
    IN IF r.status = "throttled" /\ named <= a.at THEN a.at + 1 ELSE named

\* Mutant: the server's count replaces the local one.
LowerToRemaining(have, remaining) == IF remaining = None THEN have ELSE remaining

\* What is left after a header: never more than before.
Lower(have, remaining) == IF remaining = None THEN have ELSE MinOf(have, remaining)

\* Mutant: the deadline of the last answer replaces the one before.
LastPause(have, until) == until

\* The deadline that is kept: the later one.
LongerPause(have, until) == IF until > have THEN until ELSE have

\* update
Update(c, a) ==
    LET id == a.reply.id IN
    /\ tokens' = [o \in Owners |-> IF o \in Draws(c, id) THEN [tokens[o] EXCEPT ![id] = Lower(@, a.reply.remaining)] ELSE tokens[o]]
    /\ pause' = [o \in Owners |-> IF o \in Draws(c, id) THEN [pause[o] EXCEPT ![id] = LongerPause(@, Until(a))] ELSE pause[o]]
    /\ answers' = [answers EXCEPT ![c] = @ \cup {a}]

-----------------------------------------------------------------------------
(* Client.do *)

\* beforeFirstSend runs after the rate wait of the first attempt only.
MayVeto(c) == pc[c] = "ready" /\ attempt[c] = 0

Veto(c) ==
    /\ MayVeto(c)
    /\ pc' = [pc EXCEPT ![c] = "done"] /\ result' = [result EXCEPT ![c] = "veto"]
    /\ UNCHANGED <<clock, buckets, attempt, cancelled, got, outcome, history>>

Send(c) ==
    /\ pc[c] = "ready"
    /\ pc' = [pc EXCEPT ![c] = "flight"]
    /\ transmitted' = [transmitted EXCEPT ![c] = @ + 1]
    /\ UNCHANGED <<clock, buckets, attempt, cancelled, got, outcome, result, sent, answers>>

\* Bulletin 429s and 403s wait for their body before they are classified.
Classified(c, r) == Kind[c] = "bulletin" /\ r.status \in {"throttled", "rejected"}

\* The headers arrive: other answers lower the shared buckets at once.
Headers(c, r) ==
    LET a == [reply |-> r, at |-> clock] IN
    /\ pc[c] = "flight"
    /\ r.company => Classified(c, r)
    /\ pc' = [pc EXCEPT ![c] = "body"]
    /\ got' = [got EXCEPT ![c] = a]
    /\ IF Classified(c, r) THEN UNCHANGED <<buckets, answers>> ELSE Update(c, a)
    /\ UNCHANGED <<clock, attempt, cancelled, outcome, result, sent, transmitted>>

\* interruptedOutcome: an HTTP outcome survives a cancelled wait.
InterruptedOutcome(last) == IF last \in Statuses THEN last ELSE "cancelled"

\* What do makes of the outcome of one attempt.
Settle(c, last) ==
    CASE last = "throttled" /\ Kind[c] # "bulletin" ->
            pc' = [pc EXCEPT ![c] = "pause"] /\ UNCHANGED result
      [] last \in {"lost", "unavailable"} /\ cancelled[c] ->
            pc' = [pc EXCEPT ![c] = "done"] /\ result' = [result EXCEPT ![c] = InterruptedOutcome(last)]
      [] last \in {"lost", "unavailable"} /\ ~cancelled[c] /\ attempt[c] + 1 < AttemptLimit(c) ->
            pc' = [pc EXCEPT ![c] = "backoff"] /\ UNCHANGED result
      [] OTHER ->
            pc' = [pc EXCEPT ![c] = "done"] /\ result' = [result EXCEPT ![c] = last]

\* The company's own limit, which the engine keeps as a schedule.
IsCompanyLimit(c, r) == Classified(c, r) /\ r.company

\* The body is read, or cannot be read: the status stands.
Body(c) ==
    LET a == got[c] IN
    /\ pc[c] = "body"
    /\ outcome' = [outcome EXCEPT ![c] = a.reply.status]
    /\ IF Classified(c, a.reply) /\ ~IsCompanyLimit(c, a.reply)
       THEN Update(c, a)
       ELSE answers' = [answers EXCEPT ![c] = @ \cup {a}] /\ UNCHANGED buckets
    /\ got' = [got EXCEPT ![c] = None]
    /\ Settle(c, a.reply.status)
    /\ UNCHANGED <<clock, attempt, cancelled, sent, transmitted>>

\* The transport fails, times out or is cancelled.
Lost(c) ==
    /\ pc[c] = "flight"
    /\ outcome' = [outcome EXCEPT ![c] = "lost"]
    /\ Settle(c, "lost")
    /\ UNCHANGED <<clock, buckets, attempt, cancelled, got, history>>

Backoff(c) ==
    /\ pc[c] = "backoff" /\ ~cancelled[c]
    /\ pc' = [pc EXCEPT ![c] = "wait"] /\ attempt' = [attempt EXCEPT ![c] = @ + 1]
    /\ UNCHANGED <<clock, buckets, cancelled, got, outcome, result, history>>

\* waitPause: the cooldown of a 429 is waited out before it is returned.
Resume(c) ==
    /\ pc[c] = "pause"
    /\ \A o \in Draws(c, Bucket(c)) : clock >= pause[o][Bucket(c)]
    /\ pc' = [pc EXCEPT ![c] = "done"] /\ result' = [result EXCEPT ![c] = outcome[c]]
    /\ UNCHANGED <<clock, buckets, attempt, cancelled, got, outcome, history>>

Cancel(c) ==
    /\ pc[c] # "done" /\ ~cancelled[c]
    /\ cancelled' = [cancelled EXCEPT ![c] = TRUE]
    /\ UNCHANGED <<clock, buckets, pc, attempt, got, outcome, result, history>>

\* A cancelled wait, backoff or pause returns.
Interrupt(c) ==
    /\ pc[c] \in {"wait", "backoff", "pause"} /\ cancelled[c]
    /\ pc' = [pc EXCEPT ![c] = "done"] /\ result' = [result EXCEPT ![c] = InterruptedOutcome(outcome[c])]
    /\ UNCHANGED <<clock, buckets, attempt, cancelled, got, outcome, history>>

-----------------------------------------------------------------------------
Next ==
    \/ Tick
    \/ \E c \in Calls :
        \/ Take(c) \/ Veto(c) \/ Send(c) \/ Body(c) \/ Lost(c)
        \/ Backoff(c) \/ Resume(c) \/ Cancel(c) \/ Interrupt(c)
        \/ \E r \in Replies : Headers(c, r)

Spec == Init /\ [][Next]_vars

-----------------------------------------------------------------------------
(* Properties *)

\* However answers interleave, no bucket grants more than its capacity and
\* what it earned since: an answer that overtakes another gives back no token.
BurstBounded ==
    \A o \in Owners, id \in Ids :
        sent[o][id] <= Multiple(o, id) * Capacity + Multiple(o, id) * Refill * clock

\* An answer that binds the shared buckets: not a company's own limit.
Binds(c, a, o, id) == ~a.reply.company /\ a.reply.id = id /\ o \in Draws(c, id)

\* Nothing is granted while a cooldown that some answer named still runs, even
\* when a later answer named a shorter one or none.
CooldownHonoured ==
    [][\A o \in Owners, id \in Ids : sent'[o][id] # sent[o][id] =>
        \A c \in Calls : \A a \in answers[c] : Binds(c, a, o, id) => clock >= Until(a)]_vars

\* A pause of a shared bucket comes from an answer that binds it: a company's
\* bulletin limit or mute delays no trading.
PauseExplained ==
    \A o \in Owners, id \in Ids : pause[o][id] # 0 =>
        \E c \in Calls : \E a \in answers[c] : Binds(c, a, o, id) /\ Until(a) = pause[o][id]

\* A definitive answer that was received is what the call returns, also when
\* its context ends during the cooldown.
DefinitiveReported ==
    \A c \in Calls : pc[c] = "done" =>
        \A a \in answers[c] : a.reply.status # "unavailable" => result[c] = a.reply.status

\* A veto proves that nothing was sent.
VetoProvesUnsent == \A c \in Calls : result[c] = "veto" => transmitted[c] = 0
=============================================================================
