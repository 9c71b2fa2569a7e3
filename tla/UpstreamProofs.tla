--------------------------- MODULE UpstreamProofs ---------------------------
(***************************************************************************)
(* What the program may rely on towards the game service.                  *)
(* The shared limiter, for any number of calls and keys, any sizes of the  *)
(* buckets and any answers.  What is left in a bucket and what was taken   *)
(* from it never exceed together what it was given (Budget), because an    *)
(* answer only lowers what is left; its pause covers the deadline of every *)
(* answer that was used (PauseCovers), because a deadline is only ever     *)
(* replaced by a later one.                                                *)
(* The bulletin board, for any topics, delays and losses.  Only the post   *)
(* of the open mission may be on the board without being counted, and only *)
(* until its outcome is recorded (PostOK, CountOK); that it is counted     *)
(* once needs that it is told from every earlier post by its key, and that *)
(* a request applied late belongs to the open mission (BoardOK, WireOK).   *)
(* The event stream, for any number of events, sessions and lost           *)
(* connections and any capacity of the queue: the fences of the runner's   *)
(* loop hold and the cursor loses no event.                                *)
(* The loss of a hull, for any bounds on time and mishaps and any fates:   *)
(* the row, the pending row and the cursor are committed apart, and yet    *)
(* what the process knows of an open loss tells every event it has passed, *)
(* or the duty to read all events again is still set (CauseInv).           *)
(***************************************************************************)
EXTENDS ApiClient, BulletinPost, EventStream, ShipLosses, FiniteSetTheorems, SequenceTheorems, TLAPS

\* The part of the type invariant the argument needs.
LimiterTypes ==
    /\ clock \in Nat
    /\ tokens \in [Owners -> [Ids -> Nat]]
    /\ pause \in [Owners -> [Ids -> Nat]]
    /\ sent \in [Owners -> [Ids -> Nat]]
    /\ answers \in [Calls -> SUBSET [reply : Replies, at : Nat]]
    /\ got \in [Calls -> [reply : Replies, at : Nat] \cup {None}]
    /\ pc \in [Calls -> Phases]

Budget ==
    \A o \in Owners, id \in Ids :
        tokens[o][id] + sent[o][id] <= Multiple(o, id) * Capacity + Multiple(o, id) * Refill * clock

\* An answer whose body is being read has been used already, unless it waits
\* to be classified.
Reading ==
    \A c \in Calls : pc[c] = "body" =>
        /\ got[c] \in [reply : Replies, at : Nat]
        /\ Classified(c, got[c].reply) \/ got[c] \in answers[c]

PauseCovers ==
    \A c \in Calls : \A a \in answers[c] : \A o \in Owners, id \in Ids :
        Binds(c, a, o, id) => pause[o][id] >= Until(a)

\* The inductive invariant.
LimiterInv == LimiterTypes /\ Budget /\ Reading /\ PauseCovers

LEMMA MultipleType == \A o \in Owners, id \in Ids : Multiple(o, id) \in Nat
BY ApiClientAssumption DEF Multiple

\* A product grows by its other factor when one factor grows by one.
LEMMA OneMore == ASSUME NEW x \in Nat, NEW y \in Nat PROVE x * (y + 1) = x * y + x
OBVIOUS

\* What a bucket was given is a number.
LEMMA GivenType ==
    ASSUME NEW m \in Nat, NEW n \in Nat, NEW r \in Nat, NEW t \in Nat
    PROVE  m * n + m * r * t \in Nat
<1>1. m * n \in Nat /\ m * r \in Nat
  OBVIOUS
<1>2. (m * r) * t \in Nat
  BY <1>1
<1> QED
  BY <1>1, <1>2

\* Every answer sets a deadline that is a time.
LEMMA UntilType == ASSUME NEW a \in [reply : Replies, at : Nat] PROVE Until(a) \in Nat
<1>1. a.reply \in Reply /\ a.at \in Nat
  BY ApiClientAssumption
<1> QED
  BY <1>1, ApiClientAssumption DEF Until, Reply

\* A header lowers a bucket or leaves it.
LEMMA LowerLowers ==
    ASSUME NEW have \in Nat, NEW a \in [reply : Replies, at : Nat]
    PROVE  Lower(have, a.reply.remaining) \in 0..have
<1>1. a.reply \in Reply
  BY ApiClientAssumption
<1> QED
  BY <1>1, ApiClientAssumption DEF Lower, MinOf, Reply

LEMMA LimiterInit == Init => LimiterInv
<1> SUFFICES ASSUME Init PROVE LimiterInv
  OBVIOUS
<1>0. \A o \in Owners, id \in Ids : Multiple(o, id) * Capacity \in Nat /\ Multiple(o, id) * Refill * 0 = 0
  BY MultipleType, ApiClientAssumption
<1>1. LimiterTypes
  BY <1>0 DEF Init, LimiterTypes, Phases
<1>2. Budget
  BY <1>0 DEF Init, Budget
<1>3. Reading /\ PauseCovers
  BY DEF Init, Reading, PauseCovers
<1> QED
  BY <1>1, <1>2, <1>3 DEF LimiterInv

\* update keeps the budget, and its pause covers the answer it uses.
LEMMA UpdateKeeps ==
    ASSUME LimiterInv, NEW c \in Calls, NEW a \in [reply : Replies, at : Nat],
           Update(c, a), sent' = sent, clock' = clock
    PROVE  /\ tokens' \in [Owners -> [Ids -> Nat]] /\ pause' \in [Owners -> [Ids -> Nat]]
           /\ answers' \in [Calls -> SUBSET [reply : Replies, at : Nat]]
           /\ Budget' /\ PauseCovers'
           /\ a \in answers'[c] /\ \A d \in Calls : answers[d] \subseteq answers'[d]
<1> DEFINE id == a.reply.id
<1>0. LimiterTypes /\ Budget /\ PauseCovers
  BY DEF LimiterInv
<1>1. /\ tokens' = [o \in Owners |-> IF o \in Draws(c, id) THEN [tokens[o] EXCEPT ![id] = Lower(@, a.reply.remaining)] ELSE tokens[o]]
      /\ pause' = [o \in Owners |-> IF o \in Draws(c, id) THEN [pause[o] EXCEPT ![id] = LongerPause(@, Until(a))] ELSE pause[o]]
      /\ answers' = [answers EXCEPT ![c] = @ \cup {a}]
  BY DEF Update
<1>2. \A o \in Owners, i \in Ids : Lower(tokens[o][i], a.reply.remaining) \in 0..tokens[o][i]
  BY <1>0, LowerLowers DEF LimiterTypes
<1>3. \A o \in Owners, i \in Ids : /\ LongerPause(pause[o][i], Until(a)) \in Nat
                                   /\ LongerPause(pause[o][i], Until(a)) >= pause[o][i]
                                   /\ LongerPause(pause[o][i], Until(a)) >= Until(a)
  BY <1>0, UntilType DEF LimiterTypes, LongerPause
<1>id. id \in Ids
  <2>1. a.reply \in Reply
    BY ApiClientAssumption
  <2> QED
    BY <2>1 DEF Reply
<1>own. Draws(c, id) \subseteq Owners
  BY ApiClientAssumption DEF Draws, Owners
<1> HIDE DEF id
<1>4. /\ tokens' \in [Owners -> [Ids -> Nat]]
      /\ \A o \in Owners, i \in Ids : tokens'[o][i] <= tokens[o][i]
  <2>1. ASSUME NEW o \in Owners PROVE tokens'[o] \in [Ids -> Nat] /\ \A i \in Ids : tokens'[o][i] <= tokens[o][i]
    <3>1. tokens[o] \in [Ids -> Nat]
      BY <1>0 DEF LimiterTypes
    <3>2. CASE o \in Draws(c, id)
      BY <1>1, <1>2, <1>id, <3>1, <3>2
    <3>3. CASE o \notin Draws(c, id)
      BY <1>1, <3>1, <3>3
    <3> QED
      BY <3>2, <3>3
  <2> QED
    BY <1>1, <2>1
<1>5. /\ pause' \in [Owners -> [Ids -> Nat]]
      /\ \A o \in Owners, i \in Ids : pause'[o][i] >= pause[o][i]
      /\ \A o \in Draws(c, id) : pause'[o][id] >= Until(a)
  <2>1. ASSUME NEW o \in Owners
        PROVE  /\ pause'[o] \in [Ids -> Nat] /\ \A i \in Ids : pause'[o][i] >= pause[o][i]
               /\ o \in Draws(c, id) => pause'[o][id] >= Until(a)
    <3>1. pause[o] \in [Ids -> Nat]
      BY <1>0 DEF LimiterTypes
    <3>2. CASE o \in Draws(c, id)
      BY <1>1, <1>3, <1>id, <3>1, <3>2
    <3>3. CASE o \notin Draws(c, id)
      BY <1>1, <3>1, <3>3
    <3> QED
      BY <3>2, <3>3
  <2> QED
    BY <1>1, <1>own, <2>1
<1>6. /\ answers' \in [Calls -> SUBSET [reply : Replies, at : Nat]]
      /\ a \in answers'[c] /\ \A d \in Calls : answers[d] \subseteq answers'[d]
      /\ \A d \in Calls : \A b \in answers'[d] : b \in answers[d] \/ (d = c /\ b = a)
  BY <1>0, <1>1 DEF LimiterTypes
<1>7. Budget'
  <2> SUFFICES ASSUME NEW o \in Owners, NEW i \in Ids
               PROVE tokens'[o][i] + sent[o][i] <= Multiple(o, i) * Capacity + Multiple(o, i) * Refill * clock
    BY DEF Budget
  <2>1. tokens[o][i] + sent[o][i] <= Multiple(o, i) * Capacity + Multiple(o, i) * Refill * clock
    BY <1>0 DEF Budget
  <2>2. tokens'[o][i] \in Nat /\ tokens[o][i] \in Nat /\ sent[o][i] \in Nat /\ tokens'[o][i] <= tokens[o][i]
    BY <1>0, <1>4 DEF LimiterTypes
  <2>3. Multiple(o, i) * Capacity + Multiple(o, i) * Refill * clock \in Nat
    BY <1>0, MultipleType, GivenType, ApiClientAssumption, Zenon DEF LimiterTypes
  <2> QED
    BY <2>1, <2>2, <2>3
<1>8. PauseCovers'
  <2> SUFFICES ASSUME NEW d \in Calls, NEW b \in answers'[d], NEW o \in Owners, NEW i \in Ids, Binds(d, b, o, i)
               PROVE  pause'[o][i] >= Until(b)
    BY DEF PauseCovers, Binds, Draws, Until
  <2>1. CASE b \in answers[d]
    <3>1. Until(b) \in Nat /\ pause[o][i] >= Until(b)
      BY <1>0, <2>1, UntilType DEF PauseCovers, LimiterTypes
    <3>2. pause[o][i] \in Nat /\ pause'[o][i] \in Nat /\ pause'[o][i] >= pause[o][i]
      BY <1>0, <1>5 DEF LimiterTypes
    <3> QED
      BY <3>1, <3>2
  <2>2. CASE d = c /\ b = a
    BY <1>5, <2>2 DEF Binds, id
  <2> QED
    BY <1>6, <2>1, <2>2
<1> QED
  BY <1>4, <1>5, <1>6, <1>7, <1>8

\* A step that leaves the buckets and the answers alone.
LEMMA QuietKeeps ==
    ASSUME LimiterInv, UNCHANGED <<clock, buckets, sent, answers>>
    PROVE  Budget' /\ PauseCovers'
BY DEF LimiterInv, Budget, PauseCovers, Binds, Draws, Until, buckets

LEMMA TickKeeps == LimiterInv /\ Tick => LimiterInv'
<1> SUFFICES ASSUME LimiterInv, Tick PROVE LimiterInv'
  OBVIOUS
<1>0. LimiterTypes /\ Budget /\ Reading /\ PauseCovers
  BY DEF LimiterInv
<1>1. ASSUME NEW o \in Owners, NEW i \in Ids
      PROVE  /\ tokens'[o][i] \in Nat
             /\ tokens'[o][i] + sent[o][i] <= Multiple(o, i) * Capacity + Multiple(o, i) * Refill * (clock + 1)
  <2> DEFINE m == Multiple(o, i)
             e == m * Refill
  <2>1. m \in Nat /\ e \in Nat /\ m * Capacity \in Nat /\ e * clock \in Nat
    BY <1>0, MultipleType, ApiClientAssumption DEF LimiterTypes
  <2>2. e * (clock + 1) = e * clock + e
    BY <1>0, <2>1, OneMore DEF LimiterTypes
  <2>3. tokens[o][i] \in Nat /\ sent[o][i] \in Nat /\ tokens[o][i] + sent[o][i] <= m * Capacity + e * clock
    BY <1>0 DEF LimiterTypes, Budget
  <2>4. tokens'[o][i] = MinOf(m * Capacity, tokens[o][i] + e)
    BY DEF Tick
  <2> HIDE DEF m, e
  <2>5. tokens'[o][i] \in Nat /\ tokens'[o][i] <= tokens[o][i] + e
    BY <2>1, <2>3, <2>4 DEF MinOf
  <2>6. tokens'[o][i] + sent[o][i] <= m * Capacity + e * (clock + 1)
    BY <2>1, <2>2, <2>3, <2>5
  <2> QED
    BY <2>5, <2>6 DEF m, e
<1>2. tokens' \in [Owners -> [Ids -> Nat]]
  BY <1>1 DEF Tick
<1>3. LimiterTypes' /\ Reading'
  BY <1>0, <1>2 DEF Tick, LimiterTypes, Reading, Classified, control, history
<1>4. Budget'
  BY <1>1 DEF Budget, Tick, history
<1>5. PauseCovers'
  BY <1>0 DEF Tick, PauseCovers, Binds, Draws, Until, history
<1> QED
  BY <1>3, <1>4, <1>5 DEF LimiterInv

LEMMA TakeKeeps == ASSUME LimiterInv, NEW c \in Calls, Take(c) PROVE LimiterInv'
<1>0. LimiterTypes /\ Budget /\ Reading /\ PauseCovers
  BY DEF LimiterInv
<1>1. Bucket(c) \in Ids
  BY DEF Bucket, Ids
<1>2. ASSUME NEW o \in Owners
      PROVE  /\ tokens'[o] \in [Ids -> Nat] /\ sent'[o] \in [Ids -> Nat]
             /\ \A i \in Ids : tokens'[o][i] + sent'[o][i] = tokens[o][i] + sent[o][i]
  <2>1. tokens[o] \in [Ids -> Nat] /\ sent[o] \in [Ids -> Nat]
    BY <1>0 DEF LimiterTypes
  <2>2. CASE o \in Draws(c, Bucket(c))
    BY <1>1, <2>1, <2>2 DEF Take
  <2>3. CASE o \notin Draws(c, Bucket(c))
    BY <2>1, <2>3 DEF Take
  <2> QED
    BY <2>2, <2>3
<1>3. tokens' \in [Owners -> [Ids -> Nat]] /\ sent' \in [Owners -> [Ids -> Nat]]
  BY <1>2 DEF Take
<1>4. LimiterTypes' /\ Reading'
  BY <1>0, <1>3 DEF Take, LimiterTypes, Reading, Classified, Phases
<1>5. Budget'
  BY <1>0, <1>2 DEF Take, Budget
<1>6. PauseCovers'
  BY <1>0 DEF Take, PauseCovers, Binds, Draws, Until
<1> QED
  BY <1>4, <1>5, <1>6 DEF LimiterInv

LEMMA HeadersKeep == ASSUME LimiterInv, NEW c \in Calls, NEW r \in Replies, Headers(c, r) PROVE LimiterInv'
<1> DEFINE a == [reply |-> r, at |-> clock]
<1>0. LimiterTypes /\ Budget /\ Reading /\ PauseCovers
  BY DEF LimiterInv
<1>1. a \in [reply : Replies, at : Nat] /\ a.reply = r
  BY <1>0 DEF LimiterTypes
<1>2. /\ pc' = [pc EXCEPT ![c] = "body"] /\ got' = [got EXCEPT ![c] = a] /\ clock' = clock /\ sent' = sent
      /\ pc' \in [Calls -> Phases] /\ got' \in [Calls -> [reply : Replies, at : Nat] \cup {None}]
  BY <1>0, <1>1 DEF Headers, LimiterTypes, Phases
<1>3. CASE Classified(c, r)
  <2>1. UNCHANGED <<clock, buckets, sent, answers>>
    BY <1>3 DEF Headers
  <2>2. LimiterTypes' /\ Reading'
    BY <1>0, <1>1, <1>2, <1>3, <2>1 DEF LimiterTypes, Reading, Classified, buckets
  <2> QED
    BY <2>1, <2>2, QuietKeeps DEF LimiterInv
<1>4. CASE ~Classified(c, r)
  <2>1. Update(c, a)
    BY <1>4 DEF Headers
  <2>2. /\ tokens' \in [Owners -> [Ids -> Nat]] /\ pause' \in [Owners -> [Ids -> Nat]]
        /\ answers' \in [Calls -> SUBSET [reply : Replies, at : Nat]]
        /\ Budget' /\ PauseCovers'
        /\ a \in answers'[c] /\ \A d \in Calls : answers[d] \subseteq answers'[d]
    BY <1>1, <1>2, <2>1, UpdateKeeps
  <2>3. LimiterTypes'
    BY <1>0, <1>2, <2>2 DEF LimiterTypes
  <2>4. Reading'
    BY <1>0, <1>1, <1>2, <2>2 DEF LimiterTypes, Reading, Classified
  <2> QED
    BY <2>2, <2>3, <2>4 DEF LimiterInv
<1> QED
  BY <1>3, <1>4

\* Where an attempt ends, its call leaves "body" and its answers stay.
LEMMA SettleLeaves ==
    ASSUME LimiterInv, NEW c \in Calls, NEW last, Settle(c, last)
    PROVE  pc' \in [Calls -> Phases] /\ pc'[c] # "body" /\ \A d \in Calls \ {c} : pc'[d] = pc[d]
BY DEF LimiterInv, LimiterTypes, Settle, Phases

LEMMA BodyKeeps == ASSUME LimiterInv, NEW c \in Calls, Body(c) PROVE LimiterInv'
<1> DEFINE a == got[c]
<1>0. LimiterTypes /\ Budget /\ Reading /\ PauseCovers
  BY DEF LimiterInv
<1>1. a \in [reply : Replies, at : Nat] /\ (Classified(c, a.reply) \/ a \in answers[c])
  BY <1>0 DEF Body, Reading
<1>2. pc' \in [Calls -> Phases] /\ pc'[c] # "body" /\ \A d \in Calls \ {c} : pc'[d] = pc[d]
  BY SettleLeaves DEF Body
<1>3. /\ clock' = clock /\ sent' = sent /\ got' = [got EXCEPT ![c] = None]
      /\ got' \in [Calls -> [reply : Replies, at : Nat] \cup {None}]
  BY <1>0 DEF Body, LimiterTypes
<1>4. /\ tokens' \in [Owners -> [Ids -> Nat]] /\ pause' \in [Owners -> [Ids -> Nat]]
      /\ answers' \in [Calls -> SUBSET [reply : Replies, at : Nat]]
      /\ Budget' /\ PauseCovers' /\ \A d \in Calls : answers[d] \subseteq answers'[d]
  <2>1. CASE Classified(c, a.reply) /\ ~IsCompanyLimit(c, a.reply)
    <3>1. Update(c, a)
      BY <2>1 DEF Body
    <3> QED
      BY <1>1, <1>3, <3>1, UpdateKeeps
  <2>2. CASE ~(Classified(c, a.reply) /\ ~IsCompanyLimit(c, a.reply))
    <3>1. answers' = [answers EXCEPT ![c] = @ \cup {a}] /\ UNCHANGED <<tokens, pause>>
      BY <2>2 DEF Body, buckets
    <3>2. /\ answers' \in [Calls -> SUBSET [reply : Replies, at : Nat]]
          /\ \A d \in Calls : answers[d] \subseteq answers'[d]
          /\ \A d \in Calls : \A b \in answers'[d] : b \in answers[d] \/ (d = c /\ b = a)
      BY <1>0, <1>1, <3>1 DEF LimiterTypes
    <3>3. a.reply.company \/ a \in answers[c]
      BY <1>1, <2>2 DEF IsCompanyLimit
    <3>4. PauseCovers'
      BY <1>0, <3>1, <3>2, <3>3 DEF PauseCovers, Binds, Draws, Until
    <3>5. Budget'
      BY <1>0, <1>3, <3>1 DEF Budget
    <3> QED
      BY <1>0, <3>1, <3>2, <3>4, <3>5 DEF LimiterTypes
  <2> QED
    BY <2>1, <2>2
<1>5. LimiterTypes'
  BY <1>0, <1>2, <1>3, <1>4 DEF LimiterTypes
<1>6. Reading'
  BY <1>0, <1>2, <1>3, <1>4 DEF LimiterTypes, Reading, Classified
<1> QED
  BY <1>4, <1>5, <1>6 DEF LimiterInv

\* Every step preserves the invariant.
LEMMA LimiterNext == LimiterInv /\ [Next]_vars => LimiterInv'
<1> SUFFICES ASSUME LimiterInv, [Next]_vars PROVE LimiterInv'
  OBVIOUS
<1>0. LimiterTypes /\ Budget /\ Reading /\ PauseCovers
  BY DEF LimiterInv
<1>1. ASSUME NEW c \in Calls, Veto(c) \/ Send(c) \/ Backoff(c) \/ Resume(c) \/ Cancel(c) \/ Interrupt(c) PROVE LimiterInv'
  <2>1. UNCHANGED <<clock, buckets, sent, answers, got>>
    BY <1>1 DEF Veto, Send, Backoff, Resume, Cancel, Interrupt, history
  <2>2. pc' \in [Calls -> Phases] /\ \A d \in Calls : pc'[d] = "body" => pc[d] = "body"
    BY <1>0, <1>1 DEF Veto, MayVeto, Send, Backoff, Resume, Cancel, Interrupt, LimiterTypes, Phases
  <2>3. LimiterTypes' /\ Reading'
    BY <1>0, <2>1, <2>2 DEF LimiterTypes, Reading, Classified, buckets
  <2> QED
    BY <2>1, <2>3, QuietKeeps DEF LimiterInv
<1>2. ASSUME NEW c \in Calls, Lost(c) PROVE LimiterInv'
  <2>1. UNCHANGED <<clock, buckets, sent, answers, got>>
    BY <1>2 DEF Lost, history
  <2>2. pc' \in [Calls -> Phases] /\ pc'[c] # "body" /\ \A d \in Calls \ {c} : pc'[d] = pc[d]
    BY <1>2, SettleLeaves DEF Lost
  <2>3. LimiterTypes' /\ Reading'
    BY <1>0, <2>1, <2>2 DEF LimiterTypes, Reading, Classified, buckets
  <2> QED
    BY <2>1, <2>3, QuietKeeps DEF LimiterInv
<1>3. ASSUME UNCHANGED vars PROVE LimiterInv'
  <2>1. UNCHANGED <<clock, buckets, sent, answers, got, pc>>
    BY <1>3 DEF vars, control, history
  <2>2. LimiterTypes' /\ Reading'
    BY <1>0, <2>1 DEF LimiterTypes, Reading, Classified, buckets
  <2> QED
    BY <2>1, <2>2, QuietKeeps DEF LimiterInv
<1> QED
  BY <1>1, <1>2, <1>3, TickKeeps, TakeKeeps, HeadersKeep, BodyKeeps DEF Next

\* The limiter's inductive invariant holds in every reachable state of
\* limiter.go and client.go: balances, pauses and what each answer asked for.
THEOREM LimiterInvariant == Spec => []LimiterInv
BY LimiterInit, LimiterNext, PTL DEF Spec

\* No bucket of the limiter ever grants more than its capacity and what it
\* earned, whatever the answers say and in whatever order they come.
THEOREM BurstBoundedHolds == Spec => []BurstBounded
<1>1. LimiterInv => BurstBounded
  <2> SUFFICES ASSUME LimiterInv, NEW o \in Owners, NEW i \in Ids
               PROVE  sent[o][i] <= Multiple(o, i) * Capacity + Multiple(o, i) * Refill * clock
    BY DEF BurstBounded
  <2>1. /\ tokens[o][i] \in Nat /\ sent[o][i] \in Nat
        /\ tokens[o][i] + sent[o][i] <= Multiple(o, i) * Capacity + Multiple(o, i) * Refill * clock
    BY DEF LimiterInv, LimiterTypes, Budget
  <2>2. Multiple(o, i) * Capacity + Multiple(o, i) * Refill * clock \in Nat
    BY MultipleType, GivenType, ApiClientAssumption, Zenon DEF LimiterInv, LimiterTypes
  <2> QED
    BY <2>1, <2>2
<1> QED
  BY <1>1, LimiterInvariant, PTL

\* No token is granted while a deadline that a used answer named is ahead.
THEOREM CooldownHonouredHolds == Spec => CooldownHonoured
<1> DEFINE Honoured == \A o \in Owners, id \in Ids : sent'[o][id] # sent[o][id] =>
              \A c \in Calls : \A a \in answers[c] : Binds(c, a, o, id) => clock >= Until(a)
<1>1. LimiterInv /\ [Next]_vars => [Honoured]_vars
  <2> SUFFICES ASSUME LimiterInv, Next, NEW o \in Owners, NEW id \in Ids, sent'[o][id] # sent[o][id],
                      NEW c \in Calls, NEW a \in answers[c], Binds(c, a, o, id)
               PROVE  clock >= Until(a)
    BY DEF vars
  <2>1. PICK d \in Calls : Take(d)
    BY DEF Next, Tick, Veto, Send, Body, Lost, Backoff, Resume, Cancel, Interrupt, Headers, history
  <2>2. id = Bucket(d) /\ o \in Draws(d, Bucket(d))
    BY <2>1 DEF Take, LimiterInv, LimiterTypes
  <2>3. clock >= pause[o][id]
    BY <2>1, <2>2 DEF Take
  <2>4. pause[o][id] >= Until(a)
    BY DEF LimiterInv, PauseCovers
  <2>5. clock \in Nat /\ pause[o][id] \in Nat /\ Until(a) \in Nat
    BY UntilType DEF LimiterInv, LimiterTypes
  <2> QED
    BY <2>3, <2>4, <2>5
<1> QED
  BY <1>1, LimiterInvariant, PTL DEF Spec, CooldownHonoured

-----------------------------------------------------------------------------
(* Posts: the schedule knows each of ours once                               *)

Schedules ==
    [due : Nat, cool : Nat, replyCheck : Nat, outcome : Nat, keys : Nat,
     discussed : SUBSET Topics, replyTimes : SUBSET Nat, total : Nat]

\* Our posts have keys of their own, all of them issued by the schedule.
BoardOK ==
    /\ hour \in Nat /\ sched \in Schedules /\ sched.outcome <= sched.keys
    /\ DOMAIN board = {"own", "talk"} /\ board.own \subseteq Posts /\ IsFiniteSet(board.own)
    /\ \A p \in board.own : p.key <= sched.keys /\ (p.kind = "thread" => p.topic \in Topics)
    /\ \A p, q \in board.own : p.key = q.key => p = q

\* The posts of the mission that is open: at most one.
Mine(p) == post # NoPost /\ p.key = post.key
OnBoard == \E p \in board.own : Mine(p)

\* A request that may still be applied is on the board already, or the open
\* mission waits for it.
WireOK ==
    \/ wire = 0 \/ \E p \in board.own : p.key = wire
    \/ post # NoPost /\ ~post.done /\ wire = post.key /\ post.sent \in {"ambiguous", "again"}

\* The mission knows its post from the others, and its outcome is recorded
\* with the post on the board or after a refusal.
PostOK ==
    post # NoPost =>
      /\ post \in Missions /\ post.key = sched.keys
      /\ post.kind = "thread" => post.topic \in Topics
      /\ \A p \in board.own : IF Mine(p) THEN p.kind = post.kind /\ p.topic = post.topic ELSE p.key \in post.before
      /\ post.key \notin post.before
      /\ post.sent \in {"unsent", "refused"} => ~OnBoard
      /\ sched.outcome = post.key => post.sent = "refused" \/ OnBoard
      /\ post.done => sched.outcome = post.key
      /\ post.scan # NoPost => \A p \in post.scan.due \cup post.scan.found : p \in board.own /\ Mine(p)

\* Every post is in the schedule, but the open mission's before its outcome.
Counted == {p \in board.own : Mine(p) => sched.outcome = post.key}
CountOK ==
    /\ sched.total = Cardinality({p \in Counted : p.kind = "reply"})
    /\ \A p \in Counted : p.kind = "thread" => p.topic \in sched.discussed

BulletinInv == BoardOK /\ WireOK /\ PostOK /\ CountOK

\* A step that changes neither our posts nor what the schedule knows of them.
KeepsBoard ==
    /\ hour' \in Nat /\ board'.own = board.own /\ DOMAIN board' = {"own", "talk"}
    /\ sched' \in Schedules /\ sched'.outcome = sched.outcome /\ sched'.keys = sched.keys
    /\ sched'.discussed = sched.discussed /\ sched'.total = sched.total
KeepsMission ==
    /\ post' \in Missions /\ post'.key = post.key /\ post'.kind = post.kind /\ post'.topic = post.topic
    /\ post'.before = post.before /\ post'.done = post.done
    /\ post'.sent \in {"unsent", "refused"} => ~OnBoard
    /\ post.sent = "refused" => post'.sent = "refused"
    /\ post'.scan # NoPost => \A p \in post'.scan.due \cup post'.scan.found : p \in board.own /\ Mine(p)

\* Such a step preserves the invariant.
LEMMA QuietStep ==
    ASSUME BulletinInv, KeepsBoard, post' = post \/ (post # NoPost /\ KeepsMission), WireOK'
    PROVE  BulletinInv'
<1>1. BoardOK'
    BY DEF KeepsBoard, BulletinInv, BoardOK
<1>2. (post' # NoPost) = (post # NoPost) /\ (post # NoPost => post'.key = post.key)
    BY BulletinAssumption DEF KeepsMission
<1>3. \A p : Mine(p)' <=> Mine(p)
    BY <1>2 DEF Mine
<1>4. OnBoard' <=> OnBoard
    BY <1>3 DEF OnBoard, KeepsBoard
<1>5. Counted' = Counted
    BY <1>2, <1>3 DEF Counted, KeepsBoard, Mine
<1>6. CountOK'
    BY <1>5 DEF BulletinInv, CountOK, KeepsBoard
<1>7. PostOK'
    <2>1. CASE post' = post
        BY <1>3, <1>4, <2>1 DEF BulletinInv, PostOK, KeepsBoard
    <2>2. CASE post # NoPost /\ KeepsMission
        BY <1>2, <1>3, <1>4, <2>2 DEF BulletinInv, PostOK, KeepsBoard, KeepsMission
    <2> QED BY <2>1, <2>2
<1> QED BY <1>1, <1>6, <1>7 DEF BulletinInv

\* The mission's post is applied, or was applied before.
LEMMA GrowStep ==
    ASSUME BulletinInv, post # NoPost, NEW key, key = post.key \/ \E p \in board.own : p.key = key,
           key = post.key => post.sent # "refused" /\ post'.sent \notin {"unsent", "refused"},
           board' = [board EXCEPT !.own = Applied(@, key)],
           post' = post \/ KeepsMission, wire' = 0, UNCHANGED <<hour, sched>>
    PROVE  BulletinInv'
<1> USE DEF BulletinInv
<1>1. /\ DOMAIN board' = {"own", "talk"} /\ board'.own = Applied(board.own, key)
      /\ hour \in Nat /\ sched \in Schedules
    BY DEF BoardOK
<1>2. WireOK'
    BY DEF WireOK
<1>3. CASE \E p \in board.own : p.key = key
    <2>1. board'.own = board.own
        BY <1>1, <1>3 DEF Applied
    <2>2. KeepsBoard
        BY <1>1, <2>1 DEF KeepsBoard
    <2> QED BY <1>2, <2>2, QuietStep
<1>4. CASE ~(\E p \in board.own : p.key = key)
    <2> DEFINE new == [key |-> key, kind |-> post.kind, topic |-> post.topic, at |-> hour]
    <2>1. key = post.key /\ board'.own = board.own \cup {new}
        BY <1>1, <1>4 DEF Applied
    <2>2. post \in Missions /\ post.key = sched.keys /\ (post.kind = "thread" => post.topic \in Topics)
        BY DEF PostOK
    <2>3. new \in Posts /\ new.key = post.key /\ new.kind = post.kind /\ new.topic = post.topic
        BY <1>1, <2>1, <2>2 DEF Posts, Missions
    <2>4. ~OnBoard /\ \A p \in board.own : p.key # post.key
        BY <1>4, <2>1 DEF OnBoard, Mine
    <2> HIDE DEF new
    <2>5. IsFiniteSet(board'.own)
        BY <2>1, FS_AddElement DEF BoardOK
    <2>6. BoardOK'
        <3>1. board'.own \subseteq Posts
            BY <2>1, <2>3 DEF BoardOK
        <3>2. \A p \in board'.own : p.key <= sched.keys /\ (p.kind = "thread" => p.topic \in Topics)
            <4>1. sched.keys \in Nat
                BY <1>1 DEF Schedules
            <4> QED BY <2>1, <2>2, <2>3, <4>1 DEF BoardOK
        <3>3. \A p, q \in board'.own : p.key = q.key => p = q
            BY <2>1, <2>3, <2>4 DEF BoardOK
        <3> QED BY <1>1, <2>5, <3>1, <3>2, <3>3 DEF BoardOK
    <2>7. sched.outcome # post.key
        BY <2>1, <2>4 DEF PostOK
    <2>8. post' # NoPost /\ post'.key = post.key /\ \A p : Mine(p)' <=> Mine(p)
        BY BulletinAssumption DEF KeepsMission, Mine
    <2>9. Counted' = Counted
        BY <2>1, <2>3, <2>7, <2>8 DEF Counted, Mine
    <2>10. CountOK'
        BY <2>9 DEF CountOK
    <2>11. PostOK'
        <3>1. /\ post' \in Missions /\ post'.key = post.key /\ post'.kind = post.kind /\ post'.topic = post.topic
              /\ post'.before = post.before /\ post'.done = post.done
            BY <2>2 DEF KeepsMission
        <3>2. \A p \in board'.own : IF Mine(p)' THEN p.kind = post'.kind /\ p.topic = post'.topic ELSE p.key \in post'.before
            <4>1. Mine(new)
                BY <2>3 DEF Mine
            <4> QED BY <2>1, <2>3, <2>8, <3>1, <4>1 DEF PostOK
        <3>3. post'.scan # NoPost => \A p \in post'.scan.due \cup post'.scan.found : p \in board'.own /\ Mine(p)'
            <4>1. post'.scan # NoPost => \A p \in post'.scan.due \cup post'.scan.found : p \in board.own /\ Mine(p)
                BY DEF PostOK, KeepsMission
            <4> QED BY <2>1, <2>8, <4>1
        <3>4. post'.sent \notin {"unsent", "refused"}
            BY <2>1
        <3>5. post.key \notin post.before /\ (post.done => sched.outcome = post.key)
            BY DEF PostOK
        <3> QED BY <2>2, <2>7, <3>1, <3>2, <3>3, <3>4, <3>5 DEF PostOK
    <2> QED BY <1>2, <2>6, <2>10, <2>11
<1> QED BY <1>3, <1>4

\* A new mission has a key no post has.
LEMMA StageStep ==
    ASSUME BulletinInv, post = NoPost, NEW kind \in {"thread", "reply"}, NEW topic \in Topics \cup {NoPost},
           kind = "thread" => topic \in Topics, Stage(kind, topic)
    PROVE  BulletinInv'
<1> USE DEF BulletinInv
<1>1. /\ hour \in Nat /\ sched \in Schedules /\ sched.keys \in Nat /\ sched.outcome \in Nat /\ sched.outcome <= sched.keys
      /\ \A p \in board.own : p.key \in Nat /\ p.key <= sched.keys
    BY DEF BoardOK, Schedules, Posts
<1>2. UNCHANGED <<hour, board, wire>> /\ sched' = [sched EXCEPT !.keys = sched.keys + 1]
    BY DEF Stage
<1>3. /\ sched' \in Schedules /\ sched'.keys = sched.keys + 1 /\ sched'.outcome = sched.outcome
      /\ sched'.total = sched.total /\ sched'.discussed = sched.discussed
    BY <1>1, <1>2 DEF Schedules
<1> DEFINE first == [kind |-> kind, topic |-> topic, notBefore |-> hour, before |-> {p.key : p \in board.own},
                     key |-> sched.keys + 1, sent |-> "unsent", at |-> hour, cool |-> 0, pending |-> FALSE,
                     scan |-> NoPost, done |-> FALSE]
<1>4. post' = first
    BY DEF Stage
<1>5. first \in Missions
    <2>1. {p.key : p \in board.own} \subseteq Nat
        BY <1>1
    <2>2. sched.keys + 1 \in Nat \ {0}
        BY <1>1
    <2> QED BY <1>1, <2>1, <2>2 DEF Missions
<1>6. /\ first.key = sched.keys + 1 /\ first.kind = kind /\ first.topic = topic /\ first.sent = "unsent"
      /\ first.before = {p.key : p \in board.own} /\ first.scan = NoPost /\ first.done = FALSE
    OBVIOUS
<1> HIDE DEF first
<1>7. post' # NoPost
    BY <1>4, <1>5, BulletinAssumption
<1>8. \A p \in board.own : ~Mine(p) /\ ~Mine(p)'
    BY <1>1, <1>4, <1>6 DEF Mine
<1>9. BoardOK'
    BY <1>1, <1>2, <1>3 DEF BoardOK
<1>10. WireOK'
    BY <1>2 DEF WireOK
<1>11. Counted' = Counted
    BY <1>2, <1>8 DEF Counted
<1>12. CountOK'
    BY <1>3, <1>11 DEF CountOK
<1>13. PostOK'
    <2>1. sched'.outcome # post'.key /\ post'.key \notin post'.before
        BY <1>1, <1>3, <1>4, <1>6
    <2>2. ~OnBoard'
        BY <1>2, <1>8 DEF OnBoard
    <2> QED BY <1>2, <1>3, <1>4, <1>5, <1>6, <1>8, <2>1, <2>2 DEF PostOK
<1> QED BY <1>9, <1>10, <1>12, <1>13

\* What the other lemmas use of an open mission: every post made since it was
\* staged is its own.
LEMMA MissionFacts ==
    ASSUME BulletinInv, post # NoPost
    PROVE  /\ post \in Missions /\ post.key = sched.keys /\ post.key \notin post.before
           /\ hour \in Nat /\ sched \in Schedules
           /\ \A p \in board.own : p \in Posts /\ (p.key \notin post.before => Mine(p))
<1>1. \A p \in board.own : p.key \notin post.before => Mine(p)
    BY DEF BulletinInv, PostOK
<1> QED BY <1>1 DEF BulletinInv, PostOK, BoardOK

\* An outcome found on the board is recorded once.
LEMMA CompleteStep ==
    ASSUME BulletinInv, post # NoPost, NEW p \in board.own, Mine(p), Complete(p), UNCHANGED <<hour, board, wire>>
    PROVE  BulletinInv'
<1> USE DEF BulletinInv
<1>1. post \in Missions /\ post.key = sched.keys /\ hour \in Nat /\ sched \in Schedules /\ p \in Posts
    BY MissionFacts
<1>2. p.kind = post.kind /\ p.topic = post.topic /\ p.key = post.key
    BY DEF PostOK, Mine
<1>3. /\ post' \in Missions /\ post'.key = post.key /\ post'.kind = post.kind /\ post'.topic = post.topic
      /\ post'.before = post.before /\ post'.scan = post.scan
      /\ post'.sent \in {post.sent, "posted"}
    BY <1>1 DEF Complete, Finish, Missions
<1>4. post' # NoPost /\ (\A q : Mine(q)' <=> Mine(q)) /\ OnBoard /\ OnBoard'
    <2>1. post' # NoPost
        BY <1>3, BulletinAssumption
    <2>2. \A q : Mine(q)' <=> Mine(q)
        BY <1>3, <2>1 DEF Mine
    <2> QED BY <2>1, <2>2 DEF OnBoard
<1>5. WireOK'
    BY <1>2 DEF WireOK, Mine
<1>6. CASE sched.outcome = post.key
    <2>1. sched' = sched
        BY <1>6 DEF Complete, Record
    <2>2. Counted' = Counted
        BY <1>3, <1>4, <2>1 DEF Counted
    <2>3. BoardOK' /\ CountOK'
        BY <2>1, <2>2 DEF BoardOK, CountOK
    <2>4. PostOK'
        BY <1>3, <1>4, <1>6, <2>1 DEF PostOK
    <2> QED BY <1>5, <2>3, <2>4
<1>7. CASE sched.outcome # post.key
    <2>1. /\ sched' \in Schedules /\ sched'.outcome = post.key /\ sched'.keys = sched.keys
          /\ sched'.total = IF p.kind = "reply" THEN sched.total + 1 ELSE sched.total
          /\ sched'.discussed = IF p.kind = "thread" THEN sched.discussed \cup {p.topic} ELSE sched.discussed
        <3>1. p.at \in Nat /\ p.kind \in {"thread", "reply"} /\ (p.kind = "thread" => p.topic \in Topics) /\ post.key \in Nat
            BY <1>1 DEF Posts, BoardOK, Missions
        <3>2. CASE p.kind = "thread"
            <4>1. sched' = [sched EXCEPT !.outcome = post.key, !.cool = 0, !.due = Later(hour, p.at) + DayLength, !.discussed = @ \cup {p.topic}]
                BY <1>7, <3>2 DEF Complete, Record
            <4>2. Later(hour, p.at) + DayLength \in Nat
                BY <1>1, <3>1, BulletinAssumption DEF Later
            <4> QED BY <1>1, <3>1, <3>2, <4>1, <4>2 DEF Schedules
        <3>3. CASE p.kind = "reply"
            <4>1. sched' = [sched EXCEPT !.outcome = post.key, !.cool = 0, !.replyTimes = Recent \cup {p.at}, !.total = @ + 1, !.replyCheck = 0]
                BY <1>7, <3>3 DEF Complete, Record
            <4>2. Recent \cup {p.at} \in SUBSET Nat
                BY <1>1, <3>1 DEF Recent, Schedules
            <4>3. PICK times \in SUBSET Nat : times = Recent \cup {p.at}
                BY <4>2
            <4>4. sched.total \in Nat
                BY <1>1 DEF Schedules
            <4>5. PICK total \in Nat : total = sched.total + 1
                BY <4>4
            <4>6. PICK key \in Nat : key = post.key
                BY <3>1
            <4>7. sched' = [sched EXCEPT !.outcome = key, !.cool = 0, !.replyTimes = times, !.total = total, !.replyCheck = 0]
                BY <4>1, <4>3, <4>5, <4>6
            <4>8. /\ sched' \in Schedules /\ sched'.outcome = key /\ sched'.keys = sched.keys
                  /\ sched'.total = total /\ sched'.discussed = sched.discussed
                BY <1>1, <4>7 DEF Schedules
            <4> QED BY <3>3, <4>5, <4>6, <4>8
        <3> QED BY <3>1, <3>2, <3>3
    <2>2. Counted' = Counted \cup {p} /\ p \notin Counted
        <3>1. \A q \in board.own : Mine(q) => q = p
            BY <1>2 DEF BoardOK, Mine
        <3> QED BY <1>3, <1>4, <1>7, <2>1, <3>1 DEF Counted, Mine
    <2>3. BoardOK'
        BY <1>1, <2>1 DEF BoardOK, Schedules, Missions
    <2>4. PostOK'
        <3>1. post'.done => sched'.outcome = post'.key
            BY <1>3, <2>1
        <3>2. post'.sent \notin {"unsent", "refused"}
            <4>1. post.sent \notin {"unsent", "refused"}
                BY <1>4 DEF PostOK
            <4> QED BY <1>3, <4>1
        <3>3. post'.scan # NoPost => \A q \in post'.scan.due \cup post'.scan.found : q \in board'.own /\ Mine(q)'
            BY <1>3, <1>4 DEF PostOK
        <3>4. \A q \in board'.own : IF Mine(q)' THEN q.kind = post'.kind /\ q.topic = post'.topic ELSE q.key \in post'.before
            BY <1>3, <1>4 DEF PostOK
        <3>5. post'.key = sched'.keys /\ (post'.kind = "thread" => post'.topic \in Topics) /\ post'.key \notin post'.before
            BY <1>3, <2>1 DEF PostOK
        <3> QED BY <1>3, <1>4, <3>1, <3>2, <3>3, <3>4, <3>5 DEF PostOK
    <2>5. CountOK'
        <3> DEFINE old == {q \in Counted : q.kind = "reply"}
                   now == {q \in Counted' : q.kind = "reply"}
        <3>1. IsFiniteSet(old)
            BY FS_Subset DEF BoardOK, Counted
        <3>2. sched'.total = Cardinality(now)
            <4>1. CASE p.kind = "reply"
                <5>1. now = old \cup {p} /\ p \notin old
                    BY <2>2, <4>1
                <5>2. Cardinality(now) = Cardinality(old) + 1
                    <6> HIDE DEF old, now
                    <6> QED BY <3>1, <5>1, FS_AddElement
                <5> QED BY <2>1, <4>1, <5>2 DEF CountOK
            <4>2. CASE p.kind # "reply"
                <5>1. now = old
                    BY <2>2, <4>2
                <5> QED BY <2>1, <4>2, <5>1 DEF CountOK
            <4> QED BY <4>1, <4>2
        <3>3. \A q \in Counted' : q.kind = "thread" => q.topic \in sched'.discussed
            BY <2>1, <2>2 DEF CountOK
        <3> QED BY <3>2, <3>3 DEF CountOK
    <2> QED BY <1>5, <2>3, <2>4, <2>5
<1> QED BY <1>6, <1>7

\* A refusal is recorded, and nothing of ours is on the board.
LEMMA RefusedStep ==
    ASSUME BulletinInv, post # NoPost, post.sent = "refused", Finish, UNCHANGED <<hour, board, wire>>,
           sched' = IF sched.outcome = post.key THEN sched
                    ELSE [sched EXCEPT !.outcome = post.key,
                                       !.cool = IF post.kind = "thread" THEN Later(@, hour + 1) ELSE @]
    PROVE  BulletinInv'
<1> USE DEF BulletinInv
<1>1. post \in Missions /\ post.key = sched.keys /\ hour \in Nat /\ sched \in Schedules
    BY MissionFacts
<1>2. /\ post' \in Missions /\ post'.key = post.key /\ post'.kind = post.kind /\ post'.topic = post.topic
      /\ post'.before = post.before /\ post'.scan = post.scan /\ post'.sent = "refused"
    BY <1>1 DEF Finish, Missions
<1>3. ~OnBoard
    BY DEF PostOK
<1>4. post' # NoPost /\ (\A q : Mine(q)' <=> Mine(q)) /\ ~OnBoard'
    <2>1. post' # NoPost
        BY <1>2, BulletinAssumption
    <2>2. \A q : Mine(q)' <=> Mine(q)
        BY <1>2, <2>1 DEF Mine
    <2> QED BY <1>3, <2>1, <2>2 DEF OnBoard
<1>5. /\ sched' \in Schedules /\ sched'.outcome = post.key /\ sched'.keys = sched.keys
      /\ sched'.total = sched.total /\ sched'.discussed = sched.discussed
    <2>1. Later(sched.cool, hour + 1) \in Nat /\ post.key \in Nat
        BY <1>1 DEF Later, Schedules, Missions
    <2> QED BY <1>1, <2>1 DEF Schedules
<1>6. Counted' = Counted
    BY <1>3, <1>4 DEF Counted, OnBoard
<1>7. CountOK'
    BY <1>5, <1>6 DEF CountOK
<1>8. BoardOK'
    BY <1>1, <1>5 DEF BoardOK, Schedules, Missions
<1>9. WireOK'
    BY DEF WireOK
<1>10. PostOK'
    <2>1. post'.scan # NoPost => \A q \in post'.scan.due \cup post'.scan.found : q \in board'.own /\ Mine(q)'
        BY <1>2, <1>4 DEF PostOK
    <2>2. \A q \in board'.own : IF Mine(q)' THEN q.kind = post'.kind /\ q.topic = post'.topic ELSE q.key \in post'.before
        BY <1>2, <1>4 DEF PostOK
    <2>3. post'.key = sched'.keys /\ (post'.kind = "thread" => post'.topic \in Topics) /\ post'.key \notin post'.before
        BY <1>2, <1>5 DEF PostOK
    <2> QED BY <1>2, <1>4, <1>5, <2>1, <2>2, <2>3 DEF PostOK
<1> QED BY <1>7, <1>8, <1>9, <1>10

\* The mission's post is among the counted ones before the mission goes.
LEMMA DeleteDoneStep ==
    ASSUME BulletinInv, DeleteDone
    PROVE  BulletinInv'
<1> USE DEF BulletinInv
<1>1. post # NoPost /\ post.done /\ post' = NoPost /\ UNCHANGED <<hour, board, wire, sched>>
    BY DEF DeleteDone
<1>2. Counted = board.own /\ Counted' = board.own
    BY <1>1 DEF PostOK, Counted, Mine
<1> QED BY <1>1, <1>2 DEF BoardOK, WireOK, PostOK, CountOK


\* A scan finds only the mission's post, completes it, or leaves it for later.
LEMMA ScanStep ==
    ASSUME BulletinInv, ScanPage
    PROVE  BulletinInv'
<1> USE DEF BulletinInv
<1> DEFINE seen == {p \in board.own : Matches(p)}
           owed == IF post.scan = NoPost THEN seen ELSE post.scan.due
           had == IF post.scan = NoPost THEN {} ELSE post.scan.found
<1>1. /\ post # NoPost /\ ~post.done /\ post.sent \in {"ambiguous", "complete"} /\ UNCHANGED <<hour, board, wire>>
    BY DEF ScanPage, Reconcilable
<1>2. /\ post \in Missions /\ post.key = sched.keys /\ hour \in Nat /\ sched \in Schedules
      /\ \A p \in board.own : p \in Posts /\ (p.key \notin post.before => Mine(p))
    BY <1>1, MissionFacts
<1>3. \A p \in seen \cup owed \cup had : p \in board.own /\ Mine(p) /\ p \in Posts
    <2>1. \A p \in seen : p \in board.own /\ Mine(p)
        BY <1>2 DEF Matches
    <2>2. \A p \in owed \cup had : p \in board.own /\ Mine(p)
        BY <1>1, <2>1 DEF PostOK
    <2> QED BY <1>2, <2>1, <2>2
<1>4. PICK found \in {had \cup s : s \in SUBSET seen}, end \in BOOLEAN :
        \/ /\ ~end /\ post' = [post EXCEPT !.scan = [due |-> owed, found |-> found], !.cool = hour + 1]
           /\ sched' = [sched EXCEPT !.cool = Later(@, hour + 1)]
        \/ /\ end /\ found = {} /\ UNCHANGED sched
           /\ post' = [post EXCEPT !.scan = NoPost, !.cool = hour + 1,
                                   !.sent = IF @ = "ambiguous" THEN "again" ELSE @]
        \/ end /\ \E p \in found : Complete(p)
    BY DEF ScanPage
<1>5. \A p \in found : p \in board.own /\ Mine(p) /\ p \in Posts
    BY <1>3
<1>6. hour + 1 \in Nat /\ Later(sched.cool, hour + 1) \in Nat
    BY <1>2 DEF Later, Schedules
<1>7. CASE /\ post' = [post EXCEPT !.scan = [due |-> owed, found |-> found], !.cool = hour + 1]
           /\ sched' = [sched EXCEPT !.cool = Later(@, hour + 1)]
    <2>1. PICK one \in SUBSET Posts, two \in SUBSET Posts : one = owed /\ two = found
        BY <1>3, <1>5
    <2>2. PICK cool \in Nat, resume \in Nat : cool = hour + 1 /\ resume = Later(sched.cool, hour + 1)
        BY <1>6
    <2>3. PICK scan \in [due : SUBSET Posts, found : SUBSET Posts] : scan = [due |-> one, found |-> two]
        OBVIOUS
    <2>4. post' = [post EXCEPT !.scan = scan, !.cool = cool] /\ sched' = [sched EXCEPT !.cool = resume]
        BY <1>7, <2>1, <2>2, <2>3
    <2>5. /\ post' \in Missions /\ post'.key = post.key /\ post'.kind = post.kind /\ post'.topic = post.topic
          /\ post'.before = post.before /\ post'.sent = post.sent /\ post'.scan = scan
        BY <1>2, <2>4 DEF Missions
    <2>6. post'.done = post.done
        BY <1>2, <2>4 DEF Missions
    <2>7. scan.due = owed /\ scan.found = found
        BY <2>1, <2>3
    <2>8. KeepsMission
        <3>1. post'.scan # NoPost => \A p \in post'.scan.due \cup post'.scan.found : p \in board.own /\ Mine(p)
            BY <1>3, <1>5, <2>5, <2>7
        <3> QED BY <1>1, <2>5, <2>6, <3>1 DEF KeepsMission
    <2>9. KeepsBoard
        <3>1. /\ sched' \in Schedules /\ sched'.outcome = sched.outcome /\ sched'.keys = sched.keys
              /\ sched'.discussed = sched.discussed /\ sched'.total = sched.total
            BY <1>2, <2>4 DEF Schedules
        <3> QED BY <1>1, <1>2, <3>1 DEF KeepsBoard, BoardOK
    <2>10. WireOK'
        <3>1. post' # NoPost
            BY <2>5, BulletinAssumption
        <3> QED BY <1>1, <2>5, <2>6, <3>1 DEF WireOK
    <2> QED BY <1>1, <2>8, <2>9, <2>10, QuietStep
<1>8. CASE UNCHANGED sched /\ post' = [post EXCEPT !.scan = NoPost, !.cool = hour + 1,
                                                   !.sent = IF @ = "ambiguous" THEN "again" ELSE @]
    <2>1. PICK fate \in {"ambiguous", "again", "complete"} :
              fate = (IF post.sent = "ambiguous" THEN "again" ELSE post.sent)
        BY <1>1
    <2>2. PICK cool \in Nat : cool = hour + 1
        BY <1>6
    <2>3. post' = [post EXCEPT !.scan = NoPost, !.cool = cool, !.sent = fate]
        BY <1>8, <2>1, <2>2
    <2>4. /\ post' \in Missions /\ post'.key = post.key /\ post'.kind = post.kind /\ post'.topic = post.topic
          /\ post'.before = post.before /\ post'.sent = fate /\ post'.scan = NoPost
        BY <1>2, <2>3 DEF Missions
    <2>5. post'.done = post.done
        BY <1>2, <2>3 DEF Missions
    <2>6. KeepsMission
        BY <1>1, <2>4, <2>5 DEF KeepsMission
    <2>7. KeepsBoard
        BY <1>1, <1>2, <1>8 DEF KeepsBoard, BoardOK
    <2>8. WireOK'
        <3>1. post' # NoPost
            BY <2>4, BulletinAssumption
        <3> QED BY <1>1, <2>1, <2>4, <2>5, <3>1 DEF WireOK
    <2> QED BY <1>1, <2>6, <2>7, <2>8, QuietStep
<1>9. CASE \E p \in found : Complete(p)
    BY <1>1, <1>5, <1>9, CompleteStep
<1> QED BY <1>4, <1>7, <1>8, <1>9

\* The journalled outcome is consumed: a post, or a refusal.
LEMMA ConsumeStep ==
    ASSUME BulletinInv, Consume
    PROVE  BulletinInv'
<1>1. post # NoPost /\ UNCHANGED <<hour, board, wire>>
    BY DEF Consume
<1>2. CASE post.sent = "posted" /\ \E p \in board.own : Matches(p) /\ Complete(p)
    <2>1. PICK p \in board.own : Matches(p) /\ Complete(p)
        BY <1>2
    <2>2. Mine(p)
        BY <1>1, <2>1, MissionFacts DEF Matches
    <2> QED BY <1>1, <2>1, <2>2, CompleteStep
<1>3. CASE /\ post.sent = "refused" /\ Finish
           /\ sched' = IF sched.outcome = post.key THEN sched
                       ELSE [sched EXCEPT !.outcome = post.key,
                                          !.cool = IF post.kind = "thread" THEN Later(@, hour + 1) ELSE @]
    BY <1>1, <1>3, RefusedStep
<1> QED BY <1>2, <1>3 DEF Consume

\* What the answer to a request does to its mission.
LEMMA SentStep ==
    ASSUME BulletinInv, Sendable, NEW fate \in {"complete", "posted", "ambiguous", "refused"}, NEW cool \in Nat,
           NEW pending \in BOOLEAN, fate = "refused" => ~OnBoard,
           post' = [post EXCEPT !.sent = fate, !.cool = cool, !.pending = pending]
    PROVE  post # NoPost /\ ~post.done /\ post.sent \in {"unsent", "again"} /\ KeepsMission
           /\ post'.sent = fate /\ post' # NoPost
<1>1. post # NoPost /\ ~post.done /\ post.sent \in {"unsent", "again"}
    BY DEF Sendable
<1>2. post \in Missions
    BY <1>1, MissionFacts
<1>3. /\ post' \in Missions /\ post'.key = post.key /\ post'.kind = post.kind /\ post'.topic = post.topic
      /\ post'.before = post.before /\ post'.sent = fate /\ post'.scan = post.scan
    BY <1>2 DEF Missions
<1>4. post'.done = post.done
    BY <1>2 DEF Missions
<1>5. post'.scan # NoPost => \A p \in post'.scan.due \cup post'.scan.found : p \in board.own /\ Mine(p)
    BY <1>1, <1>3 DEF BulletinInv, PostOK
<1>6. post' # NoPost
    BY <1>3, BulletinAssumption
<1> QED BY <1>1, <1>3, <1>4, <1>5, <1>6 DEF KeepsMission


\* An answer means that the post is on the board.
LEMMA AnswerStep ==
    ASSUME BulletinInv, Answered \/ AnsweredOddly
    PROVE  BulletinInv'
<1>1. /\ Sendable /\ board' = [board EXCEPT !.own = Applied(@, post.key)] /\ wire' = 0 /\ UNCHANGED <<hour, sched>>
    BY DEF Answered, AnsweredOddly
<1>2. post # NoPost /\ post \in Missions /\ post.sent # "refused"
    BY <1>1, MissionFacts DEF Sendable
<1>3. KeepsMission /\ post'.sent \notin {"unsent", "refused"}
    <2>1. PICK cool \in Nat : cool = post.cool
        BY <1>2 DEF Missions
    <2>2. CASE Answered
        <3>1. PICK pending \in BOOLEAN : pending = post.pending
            BY <1>2 DEF Missions
        <3>2. post' = [post EXCEPT !.sent = "posted", !.cool = cool, !.pending = pending]
            BY <1>2, <2>1, <2>2, <3>1 DEF Missions, Answered
        <3>3. PICK fate \in {"complete", "posted", "ambiguous", "refused"} : fate = "posted"
            OBVIOUS
        <3>4. post' = [post EXCEPT !.sent = fate, !.cool = cool, !.pending = pending]
            BY <3>2, <3>3
        <3> QED BY <1>1, <3>3, <3>4, SentStep
    <2>3. CASE AnsweredOddly
        <3>1. PICK pending \in BOOLEAN : pending = TRUE
            OBVIOUS
        <3>2. post' = [post EXCEPT !.sent = "complete", !.cool = cool, !.pending = pending]
            BY <1>2, <2>1, <2>3, <3>1 DEF Missions, AnsweredOddly
        <3>3. PICK fate \in {"complete", "posted", "ambiguous", "refused"} : fate = "complete"
            OBVIOUS
        <3>4. post' = [post EXCEPT !.sent = fate, !.cool = cool, !.pending = pending]
            BY <3>2, <3>3
        <3> QED BY <1>1, <3>3, <3>4, SentStep
    <2> QED BY <2>2, <2>3
<1> QED BY <1>1, <1>2, <1>3, GrowStep

\* A request whose answer was lost may still be applied; a refused one is not.
LEMMA LostStep ==
    ASSUME BulletinInv, AnswerLost \/ Refused
    PROVE  BulletinInv'
<1> USE DEF BulletinInv
<1>1. Sendable /\ post # NoPost /\ UNCHANGED <<hour, board>>
    BY DEF AnswerLost, Refused, Sendable
<1>2. post \in Missions /\ hour \in Nat /\ sched \in Schedules /\ DOMAIN board = {"own", "talk"}
    BY <1>1, MissionFacts DEF BoardOK
<1>3. PICK pending \in BOOLEAN : pending = post.pending
    BY <1>2 DEF Missions
<1>4. CASE AnswerLost
    <2>1. PICK cool \in Nat : cool = hour + 1
        BY <1>2
    <2>2. post' = [post EXCEPT !.sent = "ambiguous", !.cool = cool, !.pending = pending]
        BY <1>2, <1>3, <1>4, <2>1 DEF Missions, AnswerLost
    <2>3. PICK fate \in {"complete", "posted", "ambiguous", "refused"} : fate = "ambiguous"
        OBVIOUS
    <2>4. post' = [post EXCEPT !.sent = fate, !.cool = cool, !.pending = pending]
        BY <2>2, <2>3
    <2>5. ~post.done /\ KeepsMission /\ post'.sent = "ambiguous" /\ post' # NoPost
        BY <1>1, <2>3, <2>4, SentStep
    <2>6. PICK resume \in Nat : resume = Later(sched.cool, hour + 1)
        BY <1>2 DEF Later, Schedules
    <2>7. sched' = [sched EXCEPT !.cool = resume]
        BY <1>4, <2>6 DEF AnswerLost
    <2>8. /\ sched' \in Schedules /\ sched'.outcome = sched.outcome /\ sched'.keys = sched.keys
          /\ sched'.discussed = sched.discussed /\ sched'.total = sched.total
        BY <1>2, <2>7 DEF Schedules
    <2>9. KeepsBoard
        BY <1>1, <1>2, <2>8 DEF KeepsBoard
    <2>10. WireOK'
        <3>1. wire' = post'.key
            BY <1>4, <2>5 DEF AnswerLost, KeepsMission
        <3>2. post'.done = post.done
            BY <2>5 DEF KeepsMission
        <3> QED BY <2>5, <3>1, <3>2 DEF WireOK
    <2> QED BY <1>1, <2>5, <2>9, <2>10, QuietStep
<1>5. CASE Refused
    <2>1. PICK cool \in Nat : cool = post.cool
        BY <1>2 DEF Missions
    <2>2. post' = [post EXCEPT !.sent = "refused", !.cool = cool, !.pending = pending]
        BY <1>2, <1>3, <1>5, <2>1 DEF Missions, Refused
    <2>3. PICK fate \in {"complete", "posted", "ambiguous", "refused"} : fate = "refused"
        OBVIOUS
    <2>4. post' = [post EXCEPT !.sent = fate, !.cool = cool, !.pending = pending]
        BY <2>2, <2>3
    <2>5. ~OnBoard
        BY <1>5 DEF Refused, OnBoard, Mine
    <2>6. KeepsMission
        BY <1>1, <2>4, <2>5, SentStep
    <2>7. KeepsBoard
        BY <1>1, <1>2, <1>5 DEF KeepsBoard, Refused
    <2>8. WireOK'
        BY <1>5 DEF WireOK, Refused
    <2> QED BY <1>1, <2>6, <2>7, <2>8, QuietStep
<1> QED BY <1>4, <1>5

\* A request that is applied late is the open mission's, or was applied before.
LEMMA LateStep ==
    ASSUME BulletinInv, LateApplied
    PROVE  BulletinInv'
<1>1. /\ wire # 0 /\ wire' = 0 /\ post # NoPost /\ post' = post /\ UNCHANGED <<hour, sched>>
      /\ board' = [board EXCEPT !.own = Applied(@, wire)]
    BY DEF LateApplied
<1>2. wire = post.key \/ \E p \in board.own : p.key = wire
    BY <1>1 DEF BulletinInv, WireOK
<1>3. wire = post.key => post.sent \notin {"unsent", "refused"}
    BY <1>1 DEF BulletinInv, WireOK, PostOK, OnBoard, Mine
<1>4. wire = post.key => post.sent # "refused" /\ post'.sent \notin {"unsent", "refused"}
    BY <1>1, <1>3
<1> QED BY <1>1, <1>2, <1>4, GrowStep

\* The world and the schedule move on, and no post of ours is concerned.
LEMMA CalmStep ==
    ASSUME BulletinInv, UNCHANGED <<wire, post>>, KeepsBoard
    PROVE  BulletinInv'
<1>1. WireOK'
    BY DEF BulletinInv, WireOK, KeepsBoard
<1> QED BY <1>1, QuietStep

\* A reply is staged, or the thread is left alone for a while.
LEMMA StageReplyStep ==
    ASSUME BulletinInv, StageReply
    PROVE  BulletinInv'
<1>1. post = NoPost
    BY DEF StageReply, Idle
<1>2. CASE Stage("reply", NoPost)
    BY <1>1, <1>2, StageStep
<1>3. CASE sched' = [sched EXCEPT !.replyCheck = hour + 1] /\ UNCHANGED <<hour, board, wire, post, lost>>
    <2>1. hour \in Nat /\ sched \in Schedules /\ DOMAIN board = {"own", "talk"}
        BY DEF BulletinInv, BoardOK
    <2>2. PICK check \in Nat : check = hour + 1
        BY <2>1
    <2>3. sched' = [sched EXCEPT !.replyCheck = check]
        BY <1>3, <2>2
    <2>4. KeepsBoard
        BY <1>3, <2>1, <2>3 DEF KeepsBoard, Schedules
    <2> QED BY <1>3, <2>4, CalmStep
<1> QED BY <1>2, <1>3 DEF StageReply

\* A failed read, the time and the other companies concern no post of ours.
LEMMA WorldStep ==
    ASSUME BulletinInv, ReadFails \/ HourPasses \/ OthersWrite
    PROVE  BulletinInv'
<1>1. hour \in Nat /\ sched \in Schedules /\ DOMAIN board = {"own", "talk"}
    BY DEF BulletinInv, BoardOK
<1>2. CASE ReadFails
    <2>1. PICK cool \in Nat : cool = hour + 1
        BY <1>1
    <2>2. sched' = [sched EXCEPT !.cool = cool] /\ UNCHANGED <<hour, board, wire, post>>
        BY <1>2, <2>1 DEF ReadFails
    <2>3. KeepsBoard
        BY <1>1, <2>2 DEF KeepsBoard, Schedules
    <2> QED BY <2>2, <2>3, CalmStep
<1>3. CASE HourPasses
    <2>1. hour' \in Nat /\ UNCHANGED <<board, wire, sched, post>>
        BY <1>1, <1>3 DEF HourPasses
    <2> QED BY <1>1, <2>1, CalmStep DEF KeepsBoard
<1>4. CASE OthersWrite
    <2>1. UNCHANGED <<hour, wire, sched, post>> /\ board' = [board EXCEPT !.talk = hour]
        BY <1>4 DEF OthersWrite
    <2>2. board'.own = board.own /\ DOMAIN board' = {"own", "talk"}
        BY <1>1, <2>1
    <2> QED BY <1>1, <2>1, <2>2, CalmStep DEF KeepsBoard
<1> QED BY <1>2, <1>3, <1>4

\* The posts on the board have keys of their own, a request that may still be
\* applied belongs to the open mission, and the schedule counts every post but
\* that mission's: recorded before the mission is finished, found again on the
\* board when its answer was lost (completeBulletinPost, reconcileBulletin).
THEOREM BulletinInvHolds == BulletinSpec => []BulletinInv
<1>1. BulletinInit => BulletinInv
    <2> SUFFICES ASSUME BulletinInit PROVE BulletinInv
        OBVIOUS
    <2>1. board.own = {} /\ DOMAIN board = {"own", "talk"} /\ IsFiniteSet(board.own)
        BY FS_EmptySet DEF BulletinInit
    <2>2. /\ hour \in Nat /\ sched \in Schedules /\ sched.outcome = 0 /\ sched.keys = 0 /\ sched.total = 0
          /\ wire = 0 /\ post = NoPost
        BY DEF BulletinInit, Schedules
    <2>3. BoardOK
        BY <2>1, <2>2 DEF BoardOK
    <2>4. {p \in Counted : p.kind = "reply"} = {} /\ Counted = {}
        BY <2>1 DEF Counted
    <2>5. CountOK
        BY <2>2, <2>4, FS_EmptySet DEF CountOK
    <2> QED BY <2>2, <2>3, <2>5 DEF BulletinInv, WireOK, PostOK
<1>2. BulletinInv /\ [BulletinNext]_btvars => BulletinInv'
    <2> SUFFICES ASSUME BulletinInv, [BulletinNext]_btvars PROVE BulletinInv'
        OBVIOUS
    <2>1. CASE StageThread
        <3>1. PICK topic \in NewTopics : Stage("thread", topic)
            BY <2>1 DEF StageThread
        <3>2. post = NoPost /\ topic \in Topics
            BY <2>1, <3>1 DEF StageThread, Idle, NewTopics
        <3> QED BY <3>1, <3>2, StageStep
    <2>2. CASE StageReply
        BY <2>2, StageReplyStep
    <2>3. CASE ReadFails \/ HourPasses \/ OthersWrite
        BY <2>3, WorldStep
    <2>4. CASE Answered \/ AnsweredOddly
        BY <2>4, AnswerStep
    <2>5. CASE AnswerLost \/ Refused
        BY <2>5, LostStep
    <2>6. CASE LateApplied
        BY <2>6, LateStep
    <2>7. CASE Consume
        BY <2>7, ConsumeStep
    <2>8. CASE DeleteDone
        BY <2>8, DeleteDoneStep
    <2>9. CASE ScanPage
        BY <2>9, ScanStep
    <2>10. CASE UNCHANGED btvars
        BY <2>10 DEF btvars, BulletinInv, BoardOK, WireOK, PostOK, CountOK, OnBoard, Counted, Mine
    <2> QED BY <2>1, <2>2, <2>3, <2>4, <2>5, <2>6, <2>7, <2>8, <2>9, <2>10 DEF BulletinNext
<1> QED BY <1>1, <1>2, PTL DEF BulletinSpec

\* When no request is open the schedule counts every reply on the board once
\* and knows the topic of every thread we opened, whatever was lost, applied
\* late, found again or interrupted between the schedule and the mission.
THEOREM PostsCountedHolds == BulletinSpec => []PostsCounted
<1>1. BulletinInv => PostsCounted
    <2> SUFFICES ASSUME BulletinInv, post = NoPost
                 PROVE  /\ sched.total = Cardinality(OwnReplies)
                        /\ {p.topic : p \in board.own \ OwnReplies} \subseteq sched.discussed
        BY DEF PostsCounted
    <2>1. Counted = board.own
        BY DEF Counted, Mine
    <2>2. {p \in Counted : p.kind = "reply"} = OwnReplies
        BY <2>1 DEF OwnReplies
    <2>3. \A p \in board.own \ OwnReplies : p.kind = "thread"
        BY DEF BulletinInv, BoardOK, OwnReplies, Posts
    <2> QED BY <2>1, <2>2, <2>3 DEF BulletinInv, CountOK
<1> QED BY <1>1, BulletinInvHolds, PTL

-----------------------------------------------------------------------------
(* The event stream *)

LEMMA Bounds ==
    /\ QueueCap \in Nat \ {0} /\ MaxEvents \in Nat /\ MaxBreaks \in Nat /\ MaxSessions \in Nat
    /\ EventKinds \subseteq {"plain", "cash", "auth"}
BY StreamAssumption

USE Bounds

-----------------------------------------------------------------------------
(* Types *)

LEMMA MessageTypes ==
    /\ NoMessage.id = 0 /\ NoMessage.c = 0 /\ NoMessage.f = 0
    /\ Unset \in Int
BY DEF NoMessage, Unset

\* The row a new event gets is a positive number.
LEMMA NewRow == Cardinality({x \in Event : rowId[x] # 0}) \in Nat
<1>1. IsFiniteSet(Event)
  <2>1. IsFiniteSet(1..MaxEvents)
      BY FS_Interval
  <2>2. QED
      BY <2>1 DEF Event
<1>2. QED
    BY <1>1, FS_Subset, FS_CardinalityType

LEMMA InitTypes == StreamInit => StreamTypeOK
<1>1. SUFFICES ASSUME StreamInit PROVE StreamTypeOK
    OBVIOUS
<1>2. log \in Seq(EventKinds) /\ Len(log) <= MaxEvents /\ kept \in 0..Len(log)
    BY <1>1 DEF StreamInit
<1>3. queue \in Seq(Message) /\ Len(queue) <= QueueCap /\ todo \in 0..Len(queue)
    BY <1>1 DEF StreamInit
<1>4. intent \in Intent
    BY <1>1 DEF StreamInit, NoIntent, Intent
<1>5. /\ pubC \in Nat /\ pubF \in Nat /\ hC \in Nat /\ hF \in Nat /\ capC \in Nat /\ capF \in Nat
      /\ rowId \in [Event -> Nat] /\ cashSeen \subseteq Event
    BY <1>1 DEF StreamInit
<1>6. /\ spos \in Unset..MaxEvents /\ hand \in Message /\ breaks \in 0..MaxBreaks
      /\ capAt \in 0..MaxEvents /\ session \in 0..MaxSessions
      /\ cursor \in Event \cup {0, Unset} /\ cursorSeq \in Nat /\ floor \in 0..MaxEvents
    BY <1>1 DEF StreamInit, Unset, NoMessage, Message
<1>7. due \in BOOLEAN
    BY <1>1 DEF StreamInit
<1>8. QED
    BY <1>1, <1>2, <1>3, <1>4, <1>5, <1>6, <1>7 DEF StreamInit, StreamTypeOK

LEMMA RecordTypes ==
    ASSUME StreamTypeOK, NEW e \in Event, RecordEvent(e)
    PROVE  cursor' \in Event \cup {0, Unset} /\ cursorSeq' \in Nat /\ rowId' \in [Event -> Nat]
<1> DEFINE seq == IF rowId[e] # 0 THEN rowId[e] ELSE 1 + Cardinality({x \in Event : rowId[x] # 0})
<1>1. rowId \in [Event -> Nat] /\ cursorSeq \in Nat /\ cursor \in Event \cup {0, Unset}
    BY DEF StreamTypeOK
<1>2. seq \in Nat
    BY <1>1, NewRow
<1>3. rowId' = [rowId EXCEPT ![e] = seq]
    BY DEF RecordEvent
<1>4. \/ cursor' = e /\ cursorSeq' = seq
      \/ cursor' = cursor /\ cursorSeq' = cursorSeq
    BY DEF RecordEvent
<1>5. QED
    BY <1>1, <1>2, <1>3, <1>4

\* An event message carries the number of an event.
LEMMA MessageEvent ==
    ASSUME NEW m \in Message, m.kind \in {"plain", "cash"}
    PROVE  m.id \in Event
BY DEF Message, Event

\* Taking the head of the queue.
LEMMA TakeHead ==
    ASSUME StreamTypeOK, todo > 0
    PROVE  /\ queue # << >> /\ Len(queue) \in Nat \ {0}
           /\ Head(queue) = queue[1] /\ Head(queue) \in Message
           /\ Tail(queue) \in Seq(Message) /\ Len(Tail(queue)) = Len(queue) - 1
           /\ \A i \in 1..(Len(queue) - 1) : Tail(queue)[i] = queue[i + 1]
           /\ todo - 1 \in 0..Len(Tail(queue)) /\ Len(Tail(queue)) <= QueueCap
BY HeadTailProperties DEF StreamTypeOK

\* Appending the message in hand.
LEMMA PutLast ==
    ASSUME StreamTypeOK, Len(queue) < QueueCap, hand \in Message
    PROVE  /\ Append(queue, hand) \in Seq(Message)
           /\ Len(Append(queue, hand)) = Len(queue) + 1
           /\ \A i \in 1..Len(queue) : Append(queue, hand)[i] = queue[i]
           /\ Append(queue, hand)[Len(queue) + 1] = hand
BY AppendProperties DEF StreamTypeOK

\* The steps of the upstream and of the stream goroutine keep the types.
LEMMA StreamStepTypes ==
    ASSUME StreamTypeOK, (\E k \in EventKinds : Emit(k)) \/ ForgetEvents \/ Break \/ Stream
    PROVE  StreamTypeOK'
<1>1. CASE \E k \in EventKinds : Emit(k)
  <2>1. PICK k \in EventKinds : Emit(k)
      BY <1>1
  <2>2. Append(log, k) \in Seq(EventKinds) /\ Len(Append(log, k)) = Len(log) + 1
      BY AppendProperties DEF StreamTypeOK
  <2>3. QED
      BY <2>1, <2>2 DEF Emit, StreamTypeOK, streamVars, loopVars, cursorVars
<1>2. CASE ForgetEvents
    BY <1>2 DEF ForgetEvents, StreamTypeOK, streamVars, loopVars, cursorVars
<1>3. CASE Break
  <2>1. hand' \in Message /\ breaks' \in 0..MaxBreaks
    <3>1. PICK k \in {"closed", "refused"} : hand' = [NoMessage EXCEPT !.kind = k]
        BY <1>3 DEF Break
    <3>2. hand' = [kind |-> k, id |-> 0, c |-> 0, f |-> 0]
        BY <3>1 DEF NoMessage
    <3>3. hand' \in Message
        BY <3>2 DEF Message
    <3>4. breaks' = breaks + 1 /\ breaks < MaxBreaks /\ breaks \in 0..MaxBreaks
        BY <1>3 DEF Break, StreamTypeOK
    <3>5. QED
        BY <3>3, <3>4
  <2>2. QED
      BY <1>3, <2>1 DEF Break, StreamTypeOK, loopVars, cursorVars
<1>4. CASE Handshake
  <2>1. /\ spos \in -1..MaxEvents /\ Len(log) \in 0..MaxEvents /\ kept \in 0..MaxEvents
        /\ floor \in 0..MaxEvents
      BY LenProperties DEF StreamTypeOK, Unset
  <2>2. spos' = (IF spos = -1 THEN Len(log) ELSE IF spos = 0 THEN kept ELSE spos)
      BY <1>4, <2>1 DEF Handshake, Unset
  <2>3. floor' = IF spos \in {0, -1} /\ floor < spos' THEN spos' ELSE floor
      BY <1>4 DEF Handshake, Unset
  <2>4. spos' \in 0..MaxEvents /\ floor' \in 0..MaxEvents
      BY <2>1, <2>2, <2>3
  <2>5. spos' \in Unset..MaxEvents
      BY <2>4 DEF Unset
  <2>6. QED
      BY <1>4, <2>4, <2>5 DEF Handshake, StreamTypeOK, loopVars, cursorVars
<1>5. CASE Deliver
  <2>0. spos + 1 \in 1..Len(log) /\ spos + 1 \in Event
      BY <1>5 DEF Deliver, StreamTypeOK, Event, Unset
  <2>1. spos + 1 \in Event /\ log[spos + 1] \in {"plain", "cash", "auth"}
      BY <2>0, ElementOfSeq DEF StreamTypeOK
  <2>2. pubC' \in Nat /\ pubF' \in Nat /\ spos' \in Event
      BY <1>5, <2>1 DEF Deliver, StreamTypeOK
  <2>3. hand' \in Message
      BY <1>5, <2>1, <2>2 DEF Deliver, Message, Event
  <2>4. cashSeen' \subseteq Event
      BY <1>5, <2>1 DEF Deliver, StreamTypeOK
  <2>5. spos' \in Unset..MaxEvents
      BY <2>2 DEF Event, Unset
  <2>6. QED
      BY <1>5, <2>2, <2>3, <2>4, <2>5 DEF Deliver, StreamTypeOK, loopVars, cursorVars
<1>6. CASE DeliverGap
  <2>1. pubC' \in Nat
      BY <1>6 DEF DeliverGap, StreamTypeOK
  <2>2. hand' \in Message
      BY <1>6, <2>1 DEF DeliverGap, Message
  <2>3. QED
      BY <1>6, <2>1, <2>2 DEF DeliverGap, StreamTypeOK, loopVars, cursorVars
<1>7. CASE PublishClosed
  <2>1. pubC' \in Nat
      BY <1>7 DEF PublishClosed, StreamTypeOK
  <2>2. hand' \in Message
      BY <1>7, <2>1 DEF PublishClosed, Message
  <2>3. QED
      BY <1>7, <2>1, <2>2 DEF PublishClosed, StreamTypeOK, loopVars, cursorVars
<1>8. CASE Enqueue
  <2>1. hand \in Message
      BY DEF StreamTypeOK
  <2>2. queue' \in Seq(Message) /\ Len(queue') = Len(queue) + 1
      BY <1>8, <2>1, PutLast DEF Enqueue
  <2>3. Len(queue') <= QueueCap /\ todo' \in 0..Len(queue')
      BY <1>8, <2>2, LenProperties DEF Enqueue, StreamTypeOK, loopVars
  <2>4. hand' \in Message
      BY <1>8 DEF Enqueue, NoMessage, Message
  <2>5. QED
      BY <1>8, <2>2, <2>3, <2>4 DEF Enqueue, StreamTypeOK, loopVars, cursorVars
<1>9. QED
    BY <1>1, <1>2, <1>3, <1>4, <1>5, <1>6, <1>7, <1>8 DEF Stream

\* So do the steps of the loop.
LEMMA LoopStepTypes ==
    ASSUME StreamTypeOK, Crash \/ Loop
    PROVE  StreamTypeOK'
<1>1. ASSUME NEW where \in {"down", "stopped"}, Halt(where), UNCHANGED <<log, kept, cursorVars, intent, floor, cashSeen>>
      PROVE  StreamTypeOK'
  <2>1. queue' \in Seq(Message) /\ Len(queue') = 0 /\ todo' \in 0..Len(queue')
      BY <1>1 DEF Halt
  <2>2. spos' \in Unset..MaxEvents /\ hand' \in Message /\ capAt' \in 0..MaxEvents
      BY <1>1 DEF Halt, ForgetEpochs, Unset, NoMessage, Message
  <2>3. /\ pubC' \in Nat /\ pubF' \in Nat /\ hC' \in Nat /\ hF' \in Nat /\ capC' \in Nat /\ capF' \in Nat
      BY <1>1 DEF Halt, ForgetEpochs
  <2>4. due' \in BOOLEAN
      BY <1>1 DEF Halt
  <2>5. spc' = "off" /\ rpc' \in {"down", "stopped"} /\ UNCHANGED <<breaks, session>>
      BY <1>1 DEF Halt
  <2>6. /\ log' = log /\ kept' = kept /\ cursor' = cursor /\ cursorSeq' = cursorSeq /\ rowId' = rowId
        /\ intent' = intent /\ floor' = floor /\ cashSeen' = cashSeen
      BY <1>1 DEF cursorVars
  <2>7. Len(queue') <= QueueCap
      BY <2>1
  <2>8. QED
      BY <2>1, <2>2, <2>3, <2>4, <2>5, <2>6, <2>7 DEF StreamTypeOK
<1>2. CASE Crash
    BY <1>1, <1>2 DEF Crash
<1>3. CASE HandleAuthorizationEnded
    BY <1>1, <1>3 DEF HandleAuthorizationEnded
<1>4. CASE Start
  <2>1. queue' \in Seq(Message) /\ Len(queue') = 0 /\ todo' \in 0..Len(queue')
      BY <1>4 DEF Start
  <2>2. spos' \in Unset..MaxEvents /\ hand' \in Message /\ capAt' \in 0..MaxEvents
      BY <1>4 DEF Start, StartStream, ForgetEpochs, Unset, NoMessage, Message, StreamTypeOK, Event
  <2>3. /\ pubC' \in Nat /\ pubF' \in Nat /\ hC' \in Nat /\ hF' \in Nat /\ capC' \in Nat /\ capF' \in Nat
      BY <1>4 DEF Start, ForgetEpochs
  <2>4. due' \in BOOLEAN
      BY <1>4 DEF Start
  <2>5. session' \in 0..MaxSessions
      BY <1>4 DEF Start, StreamTypeOK
  <2>6. spc' = "handshake" /\ rpc' = "wait" /\ UNCHANGED <<log, kept, breaks, cursorVars, intent, floor, cashSeen>>
      BY <1>4 DEF Start, StartStream
  <2>7. Len(queue') <= QueueCap
      BY <2>1
  <2>8. QED
      BY <2>1, <2>2, <2>3, <2>4, <2>5, <2>6, <2>7 DEF StreamTypeOK, cursorVars
<1>5. CASE HandleMessage
  <2>1. Head(queue) \in Message /\ queue' \in Seq(Message) /\ todo' \in 0..Len(queue') /\ Len(queue') <= QueueCap
      BY <1>5, TakeHead DEF HandleMessage
  <2>2. hC' \in Nat /\ hF' \in Nat
      BY <1>5, <2>1 DEF HandleMessage, StreamTypeOK, Message
  <2>3. due' \in BOOLEAN /\ cursor' \in Event \cup {0, Unset} /\ cursorSeq' \in Nat /\ rowId' \in [Event -> Nat]
    <3>1. CASE HandleClosed(Head(queue)) \/ HandleGap(Head(queue))
      <4>1. cursor' \in Event \cup {0, Unset} /\ cursorSeq' \in Nat /\ rowId' \in [Event -> Nat]
          BY <3>1 DEF HandleClosed, HandleGap, ResetCursor, StreamTypeOK, cursorVars
      <4>2. due' \in BOOLEAN
          BY <3>1 DEF HandleClosed, HandleGap, StreamTypeOK
      <4>3. QED
          BY <4>1, <4>2
    <3>2. CASE HandleEvent(Head(queue))
      <4>1. cursor' \in Event \cup {0, Unset} /\ cursorSeq' \in Nat /\ rowId' \in [Event -> Nat]
          BY <2>1, <3>2, MessageEvent, RecordTypes DEF HandleEvent
      <4>2. due' \in BOOLEAN
          BY <3>2 DEF HandleEvent, StreamTypeOK
      <4>3. QED
          BY <4>1, <4>2
    <3>3. QED
        BY <1>5, <3>1, <3>2 DEF HandleMessage
  <2>4. QED
      BY <1>5, <2>1, <2>2, <2>3 DEF HandleMessage, StreamTypeOK
<1>6. CASE Capture
  <2>1. spos' \in Unset..MaxEvents /\ hand' \in Message
      BY <1>6 DEF Capture, StartStream, Unset, NoMessage, Message, StreamTypeOK, Event
  <2>2. due' \in BOOLEAN
      BY <1>6 DEF Capture, StreamTypeOK
  <2>3. capAt' \in 0..MaxEvents
      BY <1>6, LenProperties DEF Capture, StreamTypeOK
  <2>4. capC' \in Nat /\ capF' \in Nat
      BY <1>6 DEF Capture, CaptureEpochs, StreamTypeOK
  <2>5. spc' \in {"off", "handshake", "open", "enqueue", "ending", "enqueueClosed"}
      BY <1>6 DEF Capture, StartStream, StreamTypeOK
  <2>6. QED
      BY <1>6, <2>1, <2>2, <2>3, <2>4, <2>5 DEF Capture, StreamTypeOK, cursorVars
<1>7. CASE Wake \/ RefreshDone
  <2>1. todo' \in 0..Len(queue')
      BY <1>7, LenProperties DEF Wake, RefreshDone, StreamTypeOK, streamVars
  <2>2. QED
      BY <1>7, <2>1 DEF Wake, RefreshDone, StreamTypeOK, streamVars, cursorVars
<1>8. CASE CaptureOvertaken \/ HoldWork \/ BeginWork \/ EndWork \/ SaveSnapshot
    BY <1>8 DEF CaptureOvertaken, HoldWork, BeginWork, EndWork, SaveSnapshot, StreamTypeOK, streamVars, cursorVars
<1>9. QED
    BY <1>2, <1>3, <1>4, <1>5, <1>6, <1>7, <1>8 DEF Loop

\* And the steps that stage and send.
LEMMA WorkStepTypes ==
    ASSUME StreamTypeOK, StageAction \/ ReplanUnsentAction \/ SendFirst \/ ResendAndResolve
    PROVE  StreamTypeOK'
<1>1. intent' \in Intent
  <2>1. NoIntent \in Intent
      BY DEF NoIntent, Intent
  <2>2. Stamp("staged") \in Intent
      BY DEF StreamTypeOK, Stamp, Intent
  <2>3. [intent EXCEPT !.state = "pending"] \in Intent
      BY DEF StreamTypeOK, Intent
  <2>4. QED
      BY <2>1, <2>2, <2>3 DEF StageAction, ReplanUnsentAction, SendFirst, ResendAndResolve
<1>2. QED
    BY <1>1 DEF StageAction, ReplanUnsentAction, SendFirst, ResendAndResolve, StreamTypeOK, streamVars, loopVars, cursorVars

LEMMA StepTypes ==
    ASSUME StreamTypeOK, [StreamNext]_esvars
    PROVE  StreamTypeOK'
<1>1. CASE UNCHANGED esvars
    BY <1>1 DEF esvars, StreamTypeOK, streamVars, loopVars, cursorVars
<1>2. QED
    BY <1>1, StreamStepTypes, LoopStepTypes, WorkStepTypes DEF StreamNext

-----------------------------------------------------------------------------
(* The control fence *)

\* A step that publishes, queues and handles nothing.
LEMMA QuietControls ==
    ASSUME ControlInv, UNCHANGED <<pubC, pubF, hC, hF, queue>>,
           capC' \in {capC, hC}, capF' \in {capF, hF}, Offered' => Offered /\ hand' = hand
    PROVE  EpochsPublished' /\ ControlsInOrder'
<1>1. pubC \in Nat /\ pubF \in Nat /\ hC \in Nat /\ hF \in Nat /\ capC \in Nat /\ capF \in Nat
    BY DEF ControlInv, StreamTypeOK
<1>2. capC' <= hC /\ capF' <= pubF
    BY <1>1 DEF ControlInv, EpochsPublished
<1>3. EpochsPublished'
    BY <1>2 DEF ControlInv, EpochsPublished
<1>4. ControlsInOrder'
    BY DEF ControlInv, ControlsInOrder
<1>5. QED
    BY <1>3, <1>4

\* A step that ends the run or starts one.
LEMMA FreshControls ==
    ASSUME queue' = << >>, ~Offered', pubC' = 0, pubF' = 0, hC' = 0, hF' = 0, capC' = 0, capF' = 0
    PROVE  EpochsPublished' /\ ControlsInOrder'
BY DEF EpochsPublished, ControlsInOrder

\* A step of the stream that publishes what it is about to queue.
LEMMA PublishControls ==
    ASSUME ControlInv, UNCHANGED <<hC, hF, capC, capF, queue>>,
           pubC' \in {pubC, pubC + 1}, pubF' \in {pubF, pubF + 1},
           hand'.c \in {0, pubC'}, hand'.c # 0 => pubC' = pubC + 1, hand'.f \in {0, pubF'}
    PROVE  EpochsPublished' /\ ControlsInOrder'
<1>1. pubC \in Nat /\ pubF \in Nat /\ hC \in Nat /\ hF \in Nat /\ capC \in Nat /\ capF \in Nat
    BY DEF ControlInv, StreamTypeOK
<1>2. \A n \in 1..Len(queue) : queue[n] \in Message
    BY ElementOfSeq DEF ControlInv, StreamTypeOK
<1>3. \A n \in 1..Len(queue) : queue[n].c \in Nat /\ queue[n].f \in Nat
    BY <1>2 DEF Message
<1>4. EpochsPublished'
    BY <1>1, <1>3 DEF ControlInv, EpochsPublished
<1>5. hand'.c # 0 => hC' < hand'.c /\ \A n \in 1..Len(queue) : queue[n].c < hand'.c
    BY <1>1, <1>3 DEF ControlInv, EpochsPublished
<1>6. ControlsInOrder'
    BY <1>5 DEF ControlInv, ControlsInOrder
<1>7. QED
    BY <1>4, <1>6

LEMMA EnqueueControls ==
    ASSUME ControlInv, Enqueue
    PROVE  EpochsPublished' /\ ControlsInOrder'
<1>1. /\ queue' = Append(queue, hand) /\ Len(queue') = Len(queue) + 1 /\ Len(queue) \in Nat
      /\ \A n \in 1..Len(queue) : queue'[n] = queue[n]
      /\ queue'[Len(queue) + 1] = hand
    BY PutLast, LenProperties DEF Enqueue, ControlInv, StreamTypeOK
<1>2. Offered /\ ~Offered' /\ UNCHANGED <<pubC, pubF, hC, hF, capC, capF>>
    BY DEF Enqueue, Offered, loopVars
<1>3. EpochsPublished'
    BY <1>1, <1>2 DEF ControlInv, EpochsPublished
<1>4. ControlsInOrder'
  <2>1. \A n \in 1..Len(queue') : queue'[n].c # 0 => hC' < queue'[n].c
      BY <1>1, <1>2 DEF ControlInv, ControlsInOrder
  <2>2. ASSUME NEW n \in 1..Len(queue'), NEW k \in 1..Len(queue'), n < k, queue'[n].c # 0, queue'[k].c # 0
        PROVE  queue'[n].c < queue'[k].c
    <3>1. CASE k = Len(queue) + 1
        BY <1>1, <1>2, <2>2, <3>1 DEF ControlInv, ControlsInOrder
    <3>2. CASE k \in 1..Len(queue)
        BY <1>1, <2>2, <3>2 DEF ControlInv, ControlsInOrder
    <3>3. QED
        BY <1>1, <3>1, <3>2
  <2>3. QED
      BY <1>2, <2>1, <2>2 DEF ControlsInOrder
<1>5. QED
    BY <1>3, <1>4

LEMMA HandleControls ==
    ASSUME ControlInv, HandleMessage
    PROVE  EpochsPublished' /\ ControlsInOrder'
<1>1. /\ Len(queue) \in Nat \ {0} /\ Head(queue) = queue[1]
      /\ queue' = Tail(queue) /\ Len(queue') = Len(queue) - 1
      /\ \A n \in 1..(Len(queue) - 1) : queue'[n] = queue[n + 1]
    BY TakeHead DEF HandleMessage, ControlInv
<1>2. /\ UNCHANGED <<pubC, pubF, capC, capF, spc, hand>>
      /\ hC' = IF queue[1].c # 0 THEN queue[1].c ELSE hC
      /\ hF' = IF queue[1].f # 0 THEN queue[1].f ELSE hF
    BY <1>1 DEF HandleMessage
<1>3. pubC \in Nat /\ pubF \in Nat /\ hC \in Nat /\ hF \in Nat /\ capC \in Nat /\ capF \in Nat
    BY DEF ControlInv, StreamTypeOK
<1>4. \A n \in 1..Len(queue) : queue[n].c \in Nat /\ queue[n].f \in Nat
  <2>1. \A n \in 1..Len(queue) : queue[n] \in Message
      BY ElementOfSeq DEF ControlInv, StreamTypeOK
  <2>2. QED
      BY <2>1 DEF Message
<1>5. hand.c \in Nat /\ hand.f \in Nat
    BY DEF ControlInv, StreamTypeOK, Message
<1>6. hC <= hC' /\ hC' <= pubC /\ hF' <= pubF /\ hC' \in Nat
    BY <1>1, <1>2, <1>3, <1>4 DEF ControlInv, EpochsPublished, ControlsInOrder
<1>7. \A n \in 1..Len(queue') : n + 1 \in 1..Len(queue) /\ n + 1 > 1 /\ queue'[n] = queue[n + 1]
    BY <1>1
<1>8. EpochsPublished'
    BY <1>2, <1>3, <1>6, <1>7 DEF ControlInv, EpochsPublished, Offered
<1>9. ControlsInOrder'
  <2>1. \A n \in 1..Len(queue) : n > 1 /\ queue[n].c # 0 => hC' < queue[n].c
      BY <1>1, <1>2, <1>3, <1>4 DEF ControlInv, ControlsInOrder
  <2>2. Offered /\ hand.c # 0 => hC' < hand.c
      BY <1>1, <1>2 DEF ControlInv, ControlsInOrder
  <2>3. \A n \in 1..Len(queue') : queue'[n].c # 0 => hC' < queue'[n].c
      BY <1>7, <2>1
  <2>4. \A n, k \in 1..Len(queue') : n < k /\ queue'[n].c # 0 /\ queue'[k].c # 0 => queue'[n].c < queue'[k].c
      BY <1>7 DEF ControlInv, ControlsInOrder
  <2>5. Offered' /\ hand'.c # 0 => hC' < hand'.c /\ \A n \in 1..Len(queue') : queue'[n].c < hand'.c
      BY <1>2, <1>7, <2>2 DEF ControlInv, ControlsInOrder, Offered
  <2>6. QED
      BY <2>3, <2>4, <2>5 DEF ControlsInOrder
<1>10. QED
    BY <1>8, <1>9

\* Every step keeps the epochs in order.
LEMMA ControlStep ==
    ASSUME ControlInv, [StreamNext]_esvars
    PROVE  ControlInv'
<1>1. SUFFICES EpochsPublished' /\ ControlsInOrder'
    BY StepTypes DEF ControlInv
<1>2. CASE (\E k \in EventKinds : Emit(k)) \/ ForgetEvents \/ UNCHANGED esvars
    BY <1>2, QuietControls DEF Emit, ForgetEvents, esvars, streamVars, loopVars, Offered
<1>3. CASE Break \/ Handshake
    BY <1>3, QuietControls DEF Break, Handshake, loopVars, Offered
<1>4. CASE Deliver
  <2>1. /\ UNCHANGED <<hC, hF, capC, capF, queue>>
        /\ pubC' \in {pubC, pubC + 1} /\ pubF' \in {pubF, pubF + 1}
        /\ hand'.c \in {0, pubC'} /\ hand'.f \in {0, pubF'}
        /\ hand'.c # 0 => pubC' = pubC + 1
      BY <1>4 DEF Deliver, loopVars
  <2>2. QED
      BY <2>1, PublishControls
<1>5. CASE DeliverGap \/ PublishClosed
  <2>1. /\ UNCHANGED <<hC, hF, capC, capF, queue>>
        /\ pubC' = pubC + 1 /\ pubF' = pubF
        /\ hand'.c = pubC' /\ hand'.f = 0
      BY <1>5 DEF DeliverGap, PublishClosed, loopVars
  <2>2. QED
      BY <2>1, PublishControls
<1>6. CASE Enqueue
    BY <1>6, EnqueueControls
<1>7. CASE Crash \/ HandleAuthorizationEnded \/ Start
    BY <1>7, FreshControls DEF Crash, HandleAuthorizationEnded, Halt, Start, StartStream, ForgetEpochs, Offered
<1>8. CASE HandleMessage
    BY <1>8, HandleControls
<1>9. CASE Capture
    BY <1>9, QuietControls DEF Capture, CaptureEpochs, StartStream, Offered
<1>10. CASE Wake \/ RefreshDone \/ CaptureOvertaken \/ HoldWork \/ BeginWork \/ EndWork \/ SaveSnapshot
    BY <1>10, QuietControls DEF Wake, RefreshDone, CaptureOvertaken, HoldWork, BeginWork, EndWork, SaveSnapshot, streamVars, Offered
<1>11. CASE StageAction \/ ReplanUnsentAction \/ SendFirst \/ ResendAndResolve
    BY <1>11, QuietControls DEF StageAction, ReplanUnsentAction, SendFirst, ResendAndResolve, streamVars, loopVars, Offered
<1>12. QED
    BY <1>2, <1>3, <1>4, <1>5, <1>6, <1>7, <1>8, <1>9, <1>10, <1>11 DEF StreamNext, Stream, Loop

LEMMA InitControls == StreamInit => ControlInv
<1>1. ASSUME StreamInit PROVE EpochsPublished /\ ControlsInOrder
    BY <1>1 DEF StreamInit, EpochsPublished, ControlsInOrder, Offered
<1>2. QED
    BY <1>1, InitTypes DEF ControlInv

\* A request leaves only when the captured control epoch is the published one,
\* and then no control waits.
LEMMA SendControls ==
    ASSUME ControlInv
    PROVE  SendAfterControl
<1>1. SUFFICES ASSUME SendFirst \/ ResendAndResolve
      PROVE  /\ \A i \in DOMAIN queue : queue[i].c = 0
             /\ spc \in {"enqueue", "enqueueClosed"} => hand.c = 0
    BY DEF SendAfterControl
<1>2. capC = pubC
    BY <1>1 DEF SendFirst, StagedControlValid, ResendAndResolve
<1>3. pubC \in Nat /\ hC \in Nat /\ capC \in Nat /\ hand.c \in Nat
    BY DEF ControlInv, StreamTypeOK, Message
<1>4. hC = pubC
    BY <1>2, <1>3 DEF ControlInv, EpochsPublished
<1>5. \A i \in 1..Len(queue) : queue[i].c \in Nat
  <2>1. \A i \in 1..Len(queue) : queue[i] \in Message
      BY ElementOfSeq DEF ControlInv, StreamTypeOK
  <2>2. QED
      BY <2>1 DEF Message
<1>6. \A i \in 1..Len(queue) : queue[i].c = 0
    BY <1>3, <1>4, <1>5 DEF ControlInv, EpochsPublished, ControlsInOrder
<1>7. DOMAIN queue = 1..Len(queue)
    BY LenProperties DEF ControlInv, StreamTypeOK
<1>8. Offered => hand.c = 0
    BY <1>3, <1>4 DEF ControlInv, EpochsPublished, ControlsInOrder
<1>9. QED
    BY <1>6, <1>7, <1>8 DEF Offered

\* Every reachable state satisfies the invariant of the control fence.
THEOREM ControlInvHolds == StreamSpec => []ControlInv
<1>1. ControlInv /\ [StreamNext]_esvars => ControlInv'
    BY ControlStep
<1>2. QED
    BY <1>1, InitControls, PTL DEF StreamSpec

\* A first send or a resend (internal/engine/journal.go dispatch) never leaves
\* while a gap, a lost connection or an end of authorization that the stream
\* has published is still waiting, however much is queued before it.
THEOREM NoSendPastControlHolds == StreamSpec => NoSendPastControl
<1>1. ControlInv => [SendAfterControl]_esvars
    BY SendControls
<1>2. QED
    BY <1>1, ControlInvHolds, PTL DEF NoSendPastControl

-----------------------------------------------------------------------------
(* The fence around the money *)

\* A step that neither reports cash, nor captures, nor touches the intent.
LEMMA QuietFunds ==
    ASSUME FundsInv, StreamTypeOK', UNCHANGED <<cashSeen, capF, capAt, pubF, session, intent>>,
           Len(log) <= Len(log'),
           rpc' \in {"refresh", "recheck", "work", "save"} => rpc \in {"refresh", "recheck", "work", "save"},
           rpc' \notin {"down", "stopped"} => rpc \notin {"down", "stopped"}
    PROVE  CaptureCoversCash' /\ IntentCoversCash'
<1>1. Len(log) \in Nat /\ Len(log') \in Nat
    BY LenProperties DEF FundsInv, StreamTypeOK
<1>2. CaptureCoversCash'
    BY <1>1 DEF FundsInv, CaptureCoversCash
<1>3. IntentCoversCash'
    BY DEF FundsInv, IntentCoversCash
<1>4. QED
    BY <1>2, <1>3

\* A cash event's epoch is beyond the one any capture or intent holds.
LEMMA DeliverFunds ==
    ASSUME FundsInv, Deliver
    PROVE  CaptureCoversCash' /\ IntentCoversCash'
<1>1. /\ pubF \in Nat /\ capF \in Nat /\ Len(log) \in Nat /\ spos + 1 \in 1..Len(log)
      /\ capF <= pubF /\ intent.f \in Nat
    BY LenProperties DEF FundsInv, StreamTypeOK, EpochsPublished, Deliver, Unset, Intent
<1>2. UNCHANGED <<log, capF, capAt, session, intent, rpc>>
    BY DEF Deliver, loopVars
<1>3. CASE log[spos + 1] = "cash"
  <2>1. pubF' = pubF + 1 /\ cashSeen' = cashSeen \cup {spos + 1}
      BY <1>3 DEF Deliver
  <2>2. CaptureCoversCash'
    <3>1. capF' # pubF'
        BY <1>1, <1>2, <2>1
    <3>2. cashSeen' \subseteq 1..Len(log')
        BY <1>1, <1>2, <2>1 DEF FundsInv, CaptureCoversCash
    <3>3. QED
        BY <3>1, <3>2 DEF CaptureCoversCash
  <2>3. IntentCoversCash'
      BY <1>1, <1>2, <2>1 DEF FundsInv, IntentCoversCash
  <2>4. QED
      BY <2>2, <2>3
<1>4. CASE log[spos + 1] # "cash"
  <2>1. pubF' = pubF /\ cashSeen' = cashSeen
      BY <1>4 DEF Deliver
  <2>2. QED
      BY <1>2, <2>1 DEF FundsInv, CaptureCoversCash, IntentCoversCash
<1>5. QED
    BY <1>3, <1>4

\* Every step keeps captures and intents honest about the cash they show.
LEMMA FundsStep ==
    ASSUME FundsInv, ControlInv, [StreamNext]_esvars
    PROVE  FundsInv'
<1>1. SUFFICES CaptureCoversCash' /\ IntentCoversCash'
    BY ControlStep DEF FundsInv, ControlInv
<1>2. StreamTypeOK /\ StreamTypeOK' /\ Len(log) \in Nat
    BY StepTypes, LenProperties DEF FundsInv, StreamTypeOK
<1>3. CASE (\E k \in EventKinds : Emit(k)) \/ ForgetEvents \/ UNCHANGED esvars
  <2>1. Len(log) <= Len(log')
    <3>1. CASE \E k \in EventKinds : Emit(k)
      <4>1. PICK k \in EventKinds : log' = Append(log, k)
          BY <3>1 DEF Emit
      <4>2. Len(log') = Len(log) + 1
          BY <1>2, <4>1, AppendProperties DEF StreamTypeOK
      <4>3. QED
          BY <1>2, <4>2
    <3>2. CASE ForgetEvents \/ UNCHANGED esvars
      <4>1. log' = log
          BY <3>2 DEF ForgetEvents, esvars
      <4>2. QED
          BY <1>2, <4>1
    <3>3. QED
        BY <1>3, <3>1, <3>2
  <2>2. UNCHANGED <<cashSeen, capF, capAt, pubF, session, intent, rpc>>
      BY <1>3 DEF Emit, ForgetEvents, esvars, streamVars, loopVars
  <2>3. QED
      BY <1>2, <2>1, <2>2, QuietFunds
<1>4. CASE Break \/ Handshake \/ DeliverGap \/ PublishClosed \/ Enqueue
  <2>1. UNCHANGED <<log, cashSeen, capF, capAt, pubF, session, intent, rpc>>
      BY <1>4 DEF Break, Handshake, DeliverGap, PublishClosed, Enqueue, loopVars
  <2>2. QED
      BY <1>2, <2>1, QuietFunds
<1>5. CASE Deliver
    BY <1>5, DeliverFunds
<1>6. CASE Crash \/ HandleAuthorizationEnded
  <2>1. rpc' \in {"down", "stopped"} /\ UNCHANGED <<log, cashSeen, session, intent>>
      BY <1>6 DEF Crash, HandleAuthorizationEnded, Halt
  <2>2. QED
      BY <2>1 DEF FundsInv, CaptureCoversCash, IntentCoversCash
<1>7. CASE Start
  <2>1. rpc' = "wait" /\ session' = session + 1 /\ UNCHANGED <<log, cashSeen, intent>>
      BY <1>7 DEF Start
  <2>2. session \in Nat /\ intent.session \in Nat
      BY <1>2 DEF StreamTypeOK, Intent
  <2>3. QED
      BY <2>1, <2>2 DEF FundsInv, CaptureCoversCash, IntentCoversCash
<1>8. CASE HandleMessage \/ Wake \/ RefreshDone \/ CaptureOvertaken \/ HoldWork \/ BeginWork \/ EndWork \/ SaveSnapshot
  <2>1. /\ UNCHANGED <<log, cashSeen, capF, capAt, pubF, session, intent>>
        /\ rpc' \in {"refresh", "recheck", "work", "save"} => rpc \in {"refresh", "recheck", "work", "save"}
        /\ rpc' \notin {"down", "stopped"} => rpc \notin {"down", "stopped"}
      BY <1>8 DEF HandleMessage, Wake, RefreshDone, CaptureOvertaken, HoldWork, BeginWork, EndWork, SaveSnapshot, streamVars
  <2>2. QED
      BY <1>2, <2>1, QuietFunds
<1>9. CASE Capture
  <2>1. /\ UNCHANGED <<log, cashSeen, pubF, session, intent>> /\ capAt' = Len(log)
        /\ rpc = "drain"
      BY <1>9 DEF Capture
  <2>2. CaptureCoversCash'
      BY <1>2, <2>1 DEF FundsInv, CaptureCoversCash
  <2>3. IntentCoversCash'
      BY <2>1 DEF FundsInv, IntentCoversCash
  <2>4. QED
      BY <2>2, <2>3
<1>10. CASE StageAction \/ ReplanUnsentAction \/ SendFirst \/ ResendAndResolve
  <2>1. /\ UNCHANGED <<log, cashSeen, capF, capAt, pubF, session, rpc>> /\ rpc = "work"
        /\ intent' \in {NoIntent, Stamp("staged"), [intent EXCEPT !.state = "pending"]}
      BY <1>10 DEF StageAction, ReplanUnsentAction, SendFirst, ResendAndResolve, streamVars, loopVars
  <2>2. CaptureCoversCash'
      BY <2>1 DEF FundsInv, CaptureCoversCash
  <2>3. session \in Nat /\ capF <= pubF
      BY <1>2 DEF StreamTypeOK, FundsInv, EpochsPublished
  <2>4. CASE intent' = NoIntent
      BY <2>1, <2>2, <2>3, <2>4 DEF NoIntent, IntentCoversCash
  <2>5. CASE intent' = Stamp("staged")
      BY <2>1, <2>2, <2>3, <2>5 DEF Stamp, FundsInv, CaptureCoversCash, IntentCoversCash
  <2>6. CASE intent' = [intent EXCEPT !.state = "pending"]
    <3>1. intent \in Intent
        BY <1>2 DEF StreamTypeOK
    <3>2. intent'.state = "pending" /\ intent'.session = intent.session
        BY <2>6, <3>1 DEF Intent
    <3>3. QED
        BY <2>1, <2>2, <3>2 DEF FundsInv, IntentCoversCash
  <2>7. QED
      BY <2>1, <2>2, <2>4, <2>5, <2>6
<1>11. QED
    BY <1>3, <1>4, <1>5, <1>6, <1>7, <1>8, <1>9, <1>10 DEF StreamNext, Stream, Loop

LEMMA InitFunds == StreamInit => FundsInv
<1>1. ASSUME StreamInit PROVE CaptureCoversCash /\ IntentCoversCash
    BY <1>1 DEF StreamInit, CaptureCoversCash, IntentCoversCash, NoIntent
<1>2. QED
    BY <1>1, InitControls DEF FundsInv, ControlInv

\* Every reachable state satisfies the invariant of the money fence.
THEOREM FundsInvHolds == StreamSpec => []FundsInv
<1>1. FundsInv /\ ControlInv /\ [StreamNext]_esvars => FundsInv'
    BY FundsStep
<1>2. QED
    BY <1>1, InitFunds, ControlInvHolds, PTL DEF StreamSpec

\* A mutation is first sent (internal/engine/journal.go dispatch) only on a
\* capture that shows every cash movement any stream had reported, in this run
\* or, through the session in the stamp, in an earlier one.
THEOREM FirstSendOnCurrentFundsHolds == StreamSpec => FirstSendOnCurrentFunds
<1>1. ASSUME FundsInv, SendFirst PROVE \A e \in cashSeen : e <= intent.at
    BY <1>1 DEF SendFirst, StagedFundsValid, FundsInv, IntentCoversCash
<1>2. FundsInv => [FirstSendIsCurrent]_esvars
    BY <1>1 DEF FirstSendIsCurrent
<1>3. QED
    BY <1>2, FundsInvHolds, PTL DEF FirstSendOnCurrentFunds

-----------------------------------------------------------------------------
(* The cursor *)

\* A step that reads and records no event.
LEMMA QuietCursor ==
    ASSUME CursorInv, StreamTypeOK', UNCHANGED <<cursor, rowId, queue>>, floor <= floor',
           StreamComplete'
    PROVE  CursorInv'
<1>1. floor \in Nat /\ floor' \in Nat
    BY DEF CursorInv, StreamTypeOK
<1>2. \A e \in Event : floor' < e => floor < e
    BY <1>1 DEF Event
<1>3. CursorBehindRecorded'
    BY <1>2 DEF CursorInv, CursorBehindRecorded
<1>4. QueueComplete'
    BY <1>2 DEF CursorInv, QueueComplete, Safe
<1>5. QED
    BY <1>3, <1>4 DEF CursorInv

\* A step that discards the queue and stops the stream, or starts it at the
\* stored cursor.
LEMMA FreshCursor ==
    ASSUME CursorInv, StreamTypeOK', UNCHANGED <<cursor, rowId, floor>>, queue' \in {queue, << >>},
           spc' = "off" \/ (spc' = "handshake" /\ spos' = cursor)
    PROVE  CursorInv'
<1>1. CursorBehindRecorded'
    BY DEF CursorInv, CursorBehindRecorded
<1>2. QueueComplete'
  <2>1. CASE queue' = queue
      BY <2>1 DEF CursorInv, QueueComplete, Safe
  <2>2. CASE queue' = << >>
      BY <2>2 DEF QueueComplete
  <2>3. QED
      BY <2>1, <2>2
<1>3. StreamComplete'
    BY DEF CursorInv, CursorBehindRecorded, StreamComplete
<1>4. QED
    BY <1>1, <1>2, <1>3 DEF CursorInv

LEMMA EventBounds == \A e \in Event : e \in Nat /\ e > 0
BY DEF Event

\* The connection opens where nothing is missing before it.
LEMMA HandshakeCursor ==
    ASSUME CursorInv, StreamTypeOK', Handshake
    PROVE  CursorInv'
<1>1. UNCHANGED <<cursor, rowId, queue>> /\ spc = "handshake" /\ spc' = "open"
    BY DEF Handshake, cursorVars
<1>2. floor \in Nat /\ floor' \in Nat /\ Len(queue) \in Nat /\ spos \in Int /\ spos' \in Int
    BY LenProperties DEF CursorInv, StreamTypeOK, Unset
<1>3. floor <= floor'
    BY <1>2 DEF Handshake
<1>4. ASSUME NEW e \in Event, floor' < e, e <= spos'
      PROVE  rowId[e] # 0
  <2>1. CASE spos \in {0, Unset}
    <3>1. spos' <= floor'
        BY <1>2, <2>1 DEF Handshake
    <3>2. QED
        BY <1>2, <1>4, <3>1, EventBounds
  <2>2. CASE spos \notin {0, Unset}
    <3>1. spos' = spos
        BY <2>2 DEF Handshake
    <3>2. floor < e
        BY <1>2, <1>3, <1>4, EventBounds
    <3>3. QED
        BY <1>1, <1>4, <3>1, <3>2 DEF CursorInv, StreamComplete
  <2>3. QED
      BY <2>1, <2>2
<1>5. StreamComplete'
    BY <1>1, <1>4 DEF StreamComplete, Safe
<1>6. QED
    BY <1>1, <1>3, <1>5, QuietCursor

\* A message goes behind everything that came before its event.
LEMMA EnqueueCursor ==
    ASSUME CursorInv, StreamTypeOK', Enqueue
    PROVE  CursorInv'
<1>1. /\ Len(queue) \in Nat /\ Len(queue') = Len(queue) + 1
      /\ \A n \in 1..Len(queue) : queue'[n] = queue[n]
      /\ queue'[Len(queue) + 1] = hand
    BY PutLast, LenProperties DEF Enqueue, CursorInv, StreamTypeOK
<1>2. UNCHANGED <<cursor, rowId, floor, spos>> /\ spc \in {"enqueue", "enqueueClosed"}
    BY DEF Enqueue, cursorVars
<1>3. \A e \in Event, n \in 1..(Len(queue) + 1) : Safe(e, n) => Safe(e, n)'
  <2>1. SUFFICES ASSUME NEW e \in Event, NEW n \in 1..(Len(queue) + 1), Safe(e, n)
                 PROVE  Safe(e, n)'
      OBVIOUS
  <2>2. CASE rowId[e] # 0
      BY <1>2, <2>2 DEF Safe
  <2>3. CASE \E j \in 1..(n - 1) : queue[j].id = e
      BY <1>1, <2>3 DEF Safe
  <2>4. QED
      BY <2>1, <2>2, <2>3 DEF Safe
<1>4. CursorBehindRecorded'
    BY <1>2 DEF CursorInv, CursorBehindRecorded
<1>5. \A e \in Event : floor < e /\ e < hand.id => Safe(e, Len(queue) + 1)
  <2>1. CASE spc = "enqueue"
    <3>1. spos \in Int /\ hand.id \in {0, spos}
        BY <2>1 DEF CursorInv, StreamComplete, StreamTypeOK, Unset
    <3>2. \A e \in Event : e < hand.id => e <= spos /\ e # hand.id
        BY <3>1, EventBounds
    <3>3. QED
        BY <2>1, <3>2 DEF CursorInv, StreamComplete
  <2>2. CASE spc = "enqueueClosed"
      BY <2>2, EventBounds DEF CursorInv, StreamComplete
  <2>3. QED
      BY <1>2, <2>1, <2>2
<1>6. QueueComplete'
  <2>1. ASSUME NEW n \in 1..Len(queue'), NEW e \in Event, floor' < e, e < queue'[n].id
        PROVE  Safe(e, n)'
    <3>1. CASE n = Len(queue) + 1
        BY <1>1, <1>2, <1>3, <1>5, <2>1, <3>1
    <3>2. CASE n \in 1..Len(queue)
      <4>1. Safe(e, n)
          BY <1>1, <1>2, <2>1, <3>2 DEF CursorInv, QueueComplete
      <4>2. QED
          BY <1>1, <1>3, <3>2, <4>1
    <3>3. QED
        BY <1>1, <2>1, <3>1, <3>2
  <2>2. QED
      BY <2>1 DEF QueueComplete
<1>7. StreamComplete'
  <2>1. CASE spc' = "open"
    <3>1. spc = "enqueue"
        BY <1>2, <2>1 DEF Enqueue
    <3>2. ASSUME NEW e \in Event, floor' < e, e <= spos'
          PROVE  rowId'[e] # 0 \/ \E j \in 1..Len(queue') : queue'[j].id = e
      <4>1. CASE e = hand.id
          BY <1>1, <4>1
      <4>2. CASE e # hand.id
        <5>1. Safe(e, Len(queue) + 1)
            BY <1>2, <3>1, <3>2, <4>2 DEF CursorInv, StreamComplete
        <5>2. CASE rowId[e] # 0
            BY <1>2, <5>2
        <5>3. CASE \E j \in 1..Len(queue) : queue[j].id = e
          <6>1. PICK j \in 1..Len(queue) : queue[j].id = e
              BY <5>3
          <6>2. queue'[j].id = e /\ j \in 1..Len(queue')
              BY <1>1, <6>1
          <6>3. QED
              BY <6>2
        <5>4. QED
            BY <1>1, <5>1, <5>2, <5>3 DEF Safe
      <4>3. QED
          BY <4>1, <4>2
    <3>3. \A e \in Event : floor' < e /\ e <= spos' => Safe(e, Len(queue) + 1)'
        BY <1>1, <3>2 DEF Safe
    <3>4. QED
        BY <2>1, <3>3 DEF StreamComplete
  <2>2. CASE spc' # "open"
    <3>1. spc' \in {"off", "ending"}
        BY <2>2 DEF Enqueue
    <3>2. QED
        BY <3>1 DEF StreamComplete
  <2>3. QED
      BY <2>1, <2>2
<1>8. QED
    BY <1>4, <1>6, <1>7 DEF CursorInv

\* Recording an event forgets none and records this one.
LEMMA RecordGrows ==
    ASSUME StreamTypeOK, NEW x \in Event, RecordEvent(x)
    PROVE  /\ \A e \in Event : rowId[e] # 0 => rowId'[e] # 0
           /\ rowId'[x] # 0
           /\ cursor' \in {cursor, x}
<1> DEFINE seq == IF rowId[x] # 0 THEN rowId[x] ELSE 1 + Cardinality({y \in Event : rowId[y] # 0})
<1>1. rowId \in [Event -> Nat]
    BY DEF StreamTypeOK
<1>2. seq # 0
    BY <1>1, NewRow
<1>3. rowId' = [rowId EXCEPT ![x] = seq]
    BY DEF RecordEvent
<1>4. cursor' \in {cursor, x}
    BY DEF RecordEvent
<1>5. QED
    BY <1>1, <1>2, <1>3, <1>4

\* What the head of the queue told is recorded when it is handled.
LEMMA HandleCursor ==
    ASSUME CursorInv, StreamTypeOK', HandleMessage
    PROVE  CursorInv'
<1>1. /\ Len(queue) \in Nat \ {0} /\ Head(queue) = queue[1] /\ Head(queue) \in Message
      /\ queue' = Tail(queue) /\ Len(queue') = Len(queue) - 1
      /\ \A n \in 1..(Len(queue) - 1) : queue'[n] = queue[n + 1]
    BY TakeHead DEF HandleMessage, CursorInv
<1>2. UNCHANGED <<floor, spc, spos, hand>>
    BY DEF HandleMessage
<1>3. /\ \A e \in Event : rowId[e] # 0 => rowId'[e] # 0
      /\ Head(queue).id \in Event => rowId'[Head(queue).id] # 0
      /\ cursor' \in {cursor, 0, Head(queue).id}
  <2>1. CASE HandleClosed(Head(queue)) \/ HandleGap(Head(queue))
    <3>1. rowId' = rowId /\ cursor' \in {cursor, 0}
        BY <2>1 DEF HandleClosed, HandleGap, ResetCursor, cursorVars
    <3>2. Head(queue).kind \in {"closed", "gap"}
        BY <2>1 DEF HandleClosed, HandleGap
    <3>3. Head(queue).id = 0
        BY <1>1, <3>2 DEF Message
    <3>4. QED
        BY <3>1, <3>3, EventBounds
  <2>2. CASE HandleEvent(Head(queue))
    <3>1. Head(queue).id \in Event
        BY <1>1, <2>2, MessageEvent DEF HandleEvent
    <3>2. RecordEvent(Head(queue).id) /\ StreamTypeOK
        BY <2>2 DEF HandleEvent, CursorInv
    <3>3. QED
        BY <3>1, <3>2, RecordGrows
  <2>3. QED
      BY <2>1, <2>2 DEF HandleMessage
<1>4. ASSUME NEW e \in Event, NEW n \in Nat, Safe(e, n + 1)
      PROVE  Safe(e, n)' \/ n > Len(queue)
  <2>1. CASE rowId[e] # 0
      BY <1>3, <2>1 DEF Safe
  <2>2. CASE n <= Len(queue) /\ \E j \in 1..n : queue[j].id = e
    <3>1. PICK j \in 1..n : queue[j].id = e
        BY <2>2
    <3>2. CASE j = 1
        BY <1>1, <1>3, <3>1, <3>2 DEF Safe
    <3>3. CASE j > 1
      <4>1. j - 1 \in 1..(n - 1) /\ j - 1 \in 1..(Len(queue) - 1)
          BY <1>1, <2>2, <3>3
      <4>2. queue'[j - 1].id = e
          BY <1>1, <3>1, <4>1
      <4>3. QED
          BY <4>1, <4>2 DEF Safe
    <3>4. QED
        BY <3>2, <3>3
  <2>3. QED
      BY <1>1, <1>4, <2>1, <2>2 DEF Safe
<1>5. CursorBehindRecorded'
  <2>1. ASSUME NEW e \in Event, floor < e, e <= cursor'
        PROVE  rowId'[e] # 0
    <3>1. CASE cursor' = cursor
        BY <1>3, <2>1, <3>1 DEF CursorInv, CursorBehindRecorded
    <3>2. CASE cursor' = 0
        BY <2>1, <3>2, EventBounds
    <3>3. CASE cursor' = Head(queue).id
      <4>1. CASE e = Head(queue).id
          BY <1>3, <4>1
      <4>2. CASE e < Head(queue).id
        <5>1. Safe(e, 1)
            BY <1>1, <2>1, <4>2 DEF CursorInv, QueueComplete
        <5>2. rowId[e] # 0
            BY <5>1 DEF Safe
        <5>3. QED
            BY <1>3, <5>2
      <4>3. Head(queue).id \in Int
          BY <1>1 DEF Message
      <4>4. QED
          BY <2>1, <3>3, <4>1, <4>2, <4>3, EventBounds
    <3>4. QED
        BY <1>3, <3>1, <3>2, <3>3
  <2>2. QED
      BY <1>2, <2>1 DEF CursorBehindRecorded
<1>6. QueueComplete'
  <2>1. ASSUME NEW n \in 1..Len(queue'), NEW e \in Event, floor < e, e < queue'[n].id
        PROVE  Safe(e, n)'
    <3>1. n + 1 \in 1..Len(queue) /\ queue'[n] = queue[n + 1] /\ n \in Nat /\ ~(n > Len(queue))
        BY <1>1
    <3>2. Safe(e, n + 1)
        BY <2>1, <3>1 DEF CursorInv, QueueComplete
    <3>3. QED
        BY <1>4, <3>1, <3>2
  <2>2. QED
      BY <1>2, <2>1 DEF QueueComplete
<1>7. StreamComplete'
  <2>1. ASSUME NEW e \in Event, Safe(e, Len(queue) + 1)
        PROVE  Safe(e, Len(queue) + 1)'
    <3>1. PICK n \in Nat : n = Len(queue)
        BY <1>1
    <3>2. Safe(e, n)'
        BY <1>1, <1>4, <2>1, <3>1
    <3>3. n = Len(queue') + 1
        BY <1>1, <3>1
    <3>4. QED
        BY <3>2, <3>3 DEF Safe
  <2>2. spc = "handshake" => \A e \in Event : floor < e /\ e <= spos => rowId'[e] # 0
      BY <1>3 DEF CursorInv, StreamComplete
  <2>3. spc = "open" => \A e \in Event : floor < e /\ e <= spos => Safe(e, Len(queue) + 1)'
      BY <2>1 DEF CursorInv, StreamComplete
  <2>4. spc = "enqueue" =>
          /\ hand.id \in {0, spos}
          /\ \A e \in Event : floor < e /\ e <= spos /\ e # hand.id => Safe(e, Len(queue) + 1)'
      BY <2>1 DEF CursorInv, StreamComplete
  <2>5. spc = "enqueueClosed" => hand.id = 0
      BY DEF CursorInv, StreamComplete
  <2>6. QED
      BY <1>2, <2>2, <2>3, <2>4, <2>5 DEF StreamComplete
<1>8. QED
    BY <1>5, <1>6, <1>7 DEF CursorInv

\* Every step keeps the cursor behind what is recorded.
LEMMA CursorStep ==
    ASSUME CursorInv, [StreamNext]_esvars
    PROVE  CursorInv'
<1>1. StreamTypeOK /\ StreamTypeOK' /\ floor \in Nat
  <2>1. StreamTypeOK
      BY DEF CursorInv
  <2>2. StreamTypeOK'
      BY <2>1, StepTypes
  <2>3. floor \in Nat
      BY <2>1 DEF StreamTypeOK
  <2>4. QED
      BY <2>1, <2>2, <2>3
<1>2. ASSUME UNCHANGED <<cursor, rowId, queue, floor, spc, spos, hand>>
      PROVE  CursorInv'
  <2>1. StreamComplete'
      BY <1>2 DEF CursorInv, StreamComplete, Safe
  <2>2. QED
      BY <1>1, <1>2, <2>1, QuietCursor
<1>3. CASE (\E k \in EventKinds : Emit(k)) \/ ForgetEvents \/ UNCHANGED esvars
    BY <1>2, <1>3 DEF Emit, ForgetEvents, esvars, streamVars, cursorVars
<1>4. CASE Break \/ DeliverGap \/ PublishClosed
  <2>1. UNCHANGED <<cursor, rowId, queue, floor, spos>>
      BY <1>4 DEF Break, DeliverGap, PublishClosed, cursorVars
  <2>2. CASE spc' = "ending"
      BY <1>1, <2>1, <2>2, QuietCursor DEF StreamComplete
  <2>3. CASE spc' = "enqueue"
    <3>1. spc = "open" /\ hand'.id = 0
        BY <1>4, <2>3 DEF Break, DeliverGap, PublishClosed
    <3>2. StreamComplete'
        BY <2>1, <2>3, <3>1 DEF CursorInv, StreamComplete, Safe
    <3>3. QED
        BY <1>1, <2>1, <3>2, QuietCursor
  <2>4. CASE spc' = "enqueueClosed"
    <3>1. hand'.id = 0
        BY <1>4, <2>4 DEF Break, DeliverGap, PublishClosed
    <3>2. StreamComplete'
        BY <2>4, <3>1 DEF StreamComplete
    <3>3. QED
        BY <1>1, <2>1, <3>2, QuietCursor
  <2>5. QED
      BY <1>4, <2>2, <2>3, <2>4 DEF Break, DeliverGap, PublishClosed
<1>5. CASE Deliver
  <2>1. /\ UNCHANGED <<cursor, rowId, queue, floor>> /\ spc = "open" /\ spc' = "enqueue"
        /\ spos' = spos + 1 /\ hand'.id = spos' /\ spos \in Int
      BY <1>1, <1>5 DEF Deliver, cursorVars, StreamTypeOK, Unset
  <2>2. \A e \in Event : e <= spos' /\ e # hand'.id => e <= spos
      BY <2>1, EventBounds
  <2>3. StreamComplete'
      BY <2>1, <2>2 DEF CursorInv, StreamComplete, Safe
  <2>4. QED
      BY <1>1, <2>1, <2>3, QuietCursor
<1>6. CASE Handshake
    BY <1>1, <1>6, HandshakeCursor
<1>7. CASE Enqueue
    BY <1>1, <1>7, EnqueueCursor
<1>8. CASE Crash \/ HandleAuthorizationEnded \/ Start
    BY <1>1, <1>8, FreshCursor DEF Crash, HandleAuthorizationEnded, Halt, Start, StartStream, cursorVars
<1>9. CASE HandleMessage
    BY <1>1, <1>9, HandleCursor
<1>10. CASE Capture
  <2>1. CASE StartStream
      BY <1>1, <1>10, <2>1, FreshCursor DEF Capture, StartStream, cursorVars
  <2>2. CASE UNCHANGED <<spc, spos, hand>>
      BY <1>2, <1>10, <2>2 DEF Capture, cursorVars
  <2>3. QED
      BY <1>10, <2>1, <2>2 DEF Capture
<1>11. CASE Wake \/ RefreshDone \/ CaptureOvertaken \/ HoldWork \/ BeginWork \/ EndWork \/ SaveSnapshot
    BY <1>2, <1>11 DEF Wake, RefreshDone, CaptureOvertaken, HoldWork, BeginWork, EndWork, SaveSnapshot, streamVars, cursorVars
<1>12. CASE StageAction \/ ReplanUnsentAction \/ SendFirst \/ ResendAndResolve
    BY <1>2, <1>12 DEF StageAction, ReplanUnsentAction, SendFirst, ResendAndResolve, streamVars, cursorVars
<1>13. QED
    BY <1>3, <1>4, <1>5, <1>6, <1>7, <1>8, <1>9, <1>10, <1>11, <1>12 DEF StreamNext, Stream, Loop

LEMMA InitCursor == StreamInit => CursorInv
<1>1. ASSUME StreamInit PROVE CursorBehindRecorded /\ QueueComplete /\ StreamComplete
    BY <1>1, EventBounds DEF StreamInit, CursorBehindRecorded, QueueComplete, StreamComplete, Unset
<1>2. QED
    BY <1>1, InitTypes DEF CursorInv

\* The stored cursor (internal/store/telemetry.go RecordEvent) never passes an
\* event that is not recorded, unless the upstream no longer offered it: what a
\* crash, a full queue or a reconnect interrupts is read again.
THEOREM CursorBehindRecordedHolds == StreamSpec => []CursorBehindRecorded
<1>1. CursorInv /\ [StreamNext]_esvars => CursorInv'
    BY CursorStep
<1>2. CursorInv => CursorBehindRecorded
    BY DEF CursorInv
<1>3. QED
    BY <1>1, <1>2, InitCursor, PTL DEF StreamSpec

-----------------------------------------------------------------------------
\* The history of a lost hull: types.
MaybeLoss == ShipLoss \cup {NoLoss}
Sighting == [at : Nat, voyage : Nat] \cup {NoLoss}
LossSnapshot ==
    [verified : Sighting, missing : Nat, pending : MaybeLoss, retry : Nat,
     cursor : Nat, backfill : BOOLEAN, eventRetry : Nat, loadRetry : Nat]
HullEvent == [kind : {"hazard", "claim"}, at : Nat, voyage : Nat]
Waters ==
    [hull : {"afloat", "hidden", "sunk"}, fate : ServerFates \cup {"unknown"}, voyage : Nat,
     now : Nat, struck : BOOLEAN, paid : BOOLEAN, others : BOOLEAN]
LossTypes ==
    /\ sea \in Waters
    /\ happened \in Seq(HullEvent)
    /\ row \in MaybeLoss
    /\ ram \in [losses : MaybeLoss, durable : MaybeLoss, held : BOOLEAN, loaded : BOOLEAN]
    /\ live \in LossSnapshot /\ disk \in LossSnapshot
    /\ overlaid \in BOOLEAN

\* The loss the process judges by.
Known == IF live.pending # NoLoss THEN live.pending ELSE ram.losses
\* Every event up to the cursor that belongs to the loss is told in it, unless all
\* events are still to be read.
Heeded(loss, upto, backfill) ==
    loss # NoLoss /\ ~backfill =>
      \A i \in DOMAIN happened : i <= upto /\ ~Early(i) /\ Fits(happened[i], loss) => Told(loss, i)
\* A loss is dated after the last observation afloat and before its recovery.
Sound(loss) ==
    loss # NoLoss => /\ loss.at <= sea.now /\ loss.last <= sea.now /\ loss.recovered <= sea.now
                     /\ IF loss.recovered = 0 THEN loss.last <= loss.at ELSE loss.at < loss.recovered
\* The same loss, and other tells all that loss does.
Alike(loss, other) ==
    /\ loss # NoLoss
    /\ loss.at = other.at /\ loss.recovered = other.recovered /\ loss.last = other.last
    /\ loss.voyage = other.voyage /\ loss.fate = other.fate
    /\ (loss.hazard => other.hazard) /\ (loss.claim => other.claim)
\* With nothing to be written memory agrees with an open row; with a row to be
\* written the row and what was last saved are not ahead of it.
MemoryAsRow(losses, durable) == durable = losses /\ (Open(row) => Alike(losses, row))
AheadOfRow(pending, durable) ==
    ~Outlived(pending, durable) /\ (Open(row) => row.last <= pending.at)
Seen(snap) == snap.verified # NoLoss => snap.verified.at <= sea.now

\* The inductive invariant.  Before the row exists only a pending row tells of
\* the loss, in memory and in the committed snapshot; afterwards a process that
\* loaded the row has either read every event for it or still owes that.
CauseInv ==
    /\ LossTypes
    /\ live.cursor <= Len(happened) /\ disk.cursor <= Len(happened)
    /\ Seen(live) /\ Seen(disk)
    /\ overlaid => row # NoLoss
    /\ row = NoLoss => /\ Heeded(live.pending, live.cursor, live.backfill)
                       /\ Heeded(disk.pending, disk.cursor, disk.backfill)
                       /\ ram.durable = NoLoss
                       /\ live.pending = NoLoss => ram.losses = NoLoss
    /\ ~overlaid => /\ Sound(row) /\ Sound(ram.losses) /\ Sound(ram.durable)
                    /\ Sound(live.pending) /\ Sound(disk.pending)
    /\ ram.loaded /\ ~overlaid =>
         /\ Heeded(Known, live.cursor, live.backfill)
         /\ IF live.pending = NoLoss THEN MemoryAsRow(ram.losses, ram.durable)
            ELSE AheadOfRow(live.pending, ram.durable)

\* What a write leaves in the row.
LEMMA UpsertTypes ==
    ASSUME NEW old \in MaybeLoss, NEW new \in ShipLoss
    PROVE  Upsert(old, new) \in ShipLoss
<1>1. CASE old = NoLoss
    BY <1>1 DEF Upsert
<1>2. CASE old \in ShipLoss
  <2>1. OneOf(old.last, new.last) \in Nat /\ OneOf(old.voyage, new.voyage) \in Nat
        /\ OneOf(old.recovered, IF new.recovered > old.at THEN new.recovered ELSE 0) \in Nat
    BY <1>2 DEF ShipLoss, OneOf
  <2> HIDE DEF OneOf
  <2> QED
    BY <1>2, <2>1, LossAssumption DEF Upsert, ShipLoss
<1> QED
    BY <1>1, <1>2 DEF MaybeLoss

\* A row that opens holds what was written.
LEMMA UpsertFresh ==
    ASSUME NEW old \in MaybeLoss, NEW new \in ShipLoss, ~Open(old), Open(Upsert(old, new))
    PROVE  Upsert(old, new) = new
BY LossAssumption DEF Upsert, MaybeLoss, ShipLoss, OneOf, Open

\* A row that stays open without being overlaid holds what was written.
LEMMA UpsertSame ==
    ASSUME row \in ShipLoss, NEW new \in ShipLoss, Open(row), Open(Upsert(row, new)), ~Overlays(new)
    PROVE  Alike(new, Upsert(row, new)) /\ Open(new) /\ new.at = row.at /\ new.last = row.last
<1>1. Open(new) /\ new.fate = Upsert(row, new).fate /\ new.at = row.at /\ new.last = row.last /\ new.voyage = row.voyage
    BY DEF Overlays
<1>2. new # NoLoss /\ row # NoLoss
    BY LossAssumption
<1> QED
    BY <1>1, <1>2 DEF Upsert, ShipLoss, OneOf, Open, Alike

LEMMA UpsertSound ==
    ASSUME sea.now \in Nat, row \in MaybeLoss, NEW new \in ShipLoss, Sound(row), Sound(new), ~Overlays(new)
    PROVE  Sound(Upsert(row, new))
<1> DEFINE res == Upsert(row, new)
<1>1. new # NoLoss /\ res \in ShipLoss /\ res # NoLoss
    BY UpsertTypes, LossAssumption
<1>2. CASE row = NoLoss
    BY <1>2 DEF Upsert
<1>3. CASE row # NoLoss /\ ~Open(res)
  <2>1. res.recovered # 0
    BY <1>1, <1>3 DEF Open
  <2> QED
    BY <1>1, <1>3, <2>1 DEF Upsert, MaybeLoss, ShipLoss, OneOf, Sound
<1>4. CASE row # NoLoss /\ Open(res) /\ Open(row)
  <2>1. Alike(new, res) /\ Open(new)
    BY <1>4, UpsertSame DEF MaybeLoss
  <2> QED
    BY <2>1, <1>1 DEF Sound, Alike, Open
<1>5. CASE row # NoLoss /\ Open(res) /\ ~Open(row)
    BY <1>5, UpsertFresh
<1> QED
    BY <1>2, <1>3, <1>4, <1>5

\* What a capture makes of a loss.
LEMMA JudgeTypes ==
    ASSUME LossTypes, NEW report, NEW loss \in MaybeLoss
    PROVE  /\ NewShipLoss("missing", live.verified) \in ShipLoss
           /\ NewShipLoss(sea.fate, live.verified) \in ShipLoss
           /\ JudgePresent(report, loss).loss \in MaybeLoss
           /\ JudgePresent(report, loss).changed \in BOOLEAN /\ JudgePresent(report, loss).backfill \in BOOLEAN
<1>1. sea.now \in Nat /\ sea.fate \in ServerFates \cup VoyageFates \cup Vague
    BY DEF LossTypes, Waters, Vague
<1>2. live.verified \in [at : Nat, voyage : Nat] \cup {NoLoss}
    BY DEF LossTypes, Waters, LossSnapshot, Sighting
<1>3. NewShipLoss("missing", live.verified) \in ShipLoss /\ NewShipLoss(sea.fate, live.verified) \in ShipLoss
    BY <1>1, <1>2 DEF NewShipLoss, ShipLoss, Vague
<1>4. loss # NoLoss => [loss EXCEPT !.recovered = sea.now] \in ShipLoss /\ [loss EXCEPT !.fate = sea.fate] \in ShipLoss
    BY <1>1 DEF MaybeLoss, ShipLoss
<1> QED
    BY <1>3, <1>4 DEF JudgePresent, MaybeLoss

\* A changed loss is one that began now, after the one known before, or the
\* same loss with a better fate, or the same loss recovered; what is still
\* open brings the duty to read the older events.
Began(known, loss) ==
    /\ loss.at = sea.now /\ loss.recovered = 0 /\ loss.last <= sea.now
    /\ known = NoLoss \/ (known.recovered # 0 /\ sea.now > known.recovered)
Same(known, loss) ==
    /\ Open(known) /\ loss.at = known.at /\ loss.last = known.last
    /\ loss.recovered = 0 \/ (loss.recovered = sea.now /\ sea.now > known.at)
Judged(known, j) ==
    /\ j.loss \in MaybeLoss /\ j.changed \in BOOLEAN /\ j.backfill \in BOOLEAN
    /\ IF j.changed
       THEN /\ j.loss # NoLoss /\ (Began(known, j.loss) \/ Same(known, j.loss))
            /\ j.backfill \/ ~Open(j.loss)
       ELSE j.loss = known /\ ~j.backfill
LEMMA JudgeIs ==
    ASSUME LossTypes, Seen(live), NEW report, NEW known \in MaybeLoss
    PROVE  /\ Judged(known, JudgePresent(report, known))
           /\ Confirmed(report, known) =>
                Judged(known, [backfill |-> TRUE, changed |-> TRUE, loss |-> NewShipLoss("missing", live.verified)])
<1>1. sea.now \in Nat /\ sea.fate \in ServerFates \cup VoyageFates \cup Vague
    BY DEF LossTypes, Waters, Vague
<1>2. ASSUME NEW fate PROVE LET loss == NewShipLoss(fate, live.verified)
                            IN  loss.at = sea.now /\ loss.recovered = 0 /\ loss.last <= sea.now
    BY <1>1 DEF NewShipLoss, Seen
<1>3. NewShipLoss("missing", live.verified) # NoLoss /\ NewShipLoss(sea.fate, live.verified) # NoLoss
    BY JudgeTypes, LossAssumption
<1>4. known # NoLoss => known.recovered \in Nat /\ known.at \in Nat
    BY DEF MaybeLoss, ShipLoss
<1>5. ASSUME Confirmed(report, known)
      PROVE  Judged(known, [backfill |-> TRUE, changed |-> TRUE, loss |-> NewShipLoss("missing", live.verified)])
  <2>1. known = NoLoss \/ (known.recovered # 0 /\ sea.now > known.recovered)
    BY <1>1, <1>4, <1>5 DEF Confirmed, Since
  <2> QED
    BY <2>1, <1>2, <1>3, JudgeTypes DEF Judged, Began, MaybeLoss
<1>6. Judged(known, JudgePresent(report, known))
  <2> DEFINE j == JudgePresent(report, known)
  <2>1. CASE report = "afloat"
    <3>1. CASE known # NoLoss /\ known.fate = "missing" /\ known.recovered = 0 /\ sea.now > known.at
      <4>1. j.changed /\ j.loss = [known EXCEPT !.recovered = sea.now]
        BY <2>1, <3>1 DEF JudgePresent
      <4>2. j.loss \in ShipLoss /\ j.loss.at = known.at /\ j.loss.last = known.last /\ j.loss.recovered = sea.now
        BY <4>1, <3>1, <1>1 DEF MaybeLoss, ShipLoss
      <4> QED
        BY <4>1, <4>2, <3>1, <1>1, <1>4, JudgeTypes, LossAssumption DEF Judged, Same, Open
    <3>2. CASE ~(known # NoLoss /\ known.fate = "missing" /\ known.recovered = 0 /\ sea.now > known.at)
      <4>1. j = [backfill |-> FALSE, changed |-> FALSE, loss |-> known]
        BY <2>1, <3>2 DEF JudgePresent
      <4> QED
        BY <4>1 DEF Judged
    <3> QED
      BY <3>1, <3>2
  <2>2. CASE report = "sunk" /\ (known = NoLoss \/ (known.recovered # 0 /\ sea.now > known.recovered))
    <3>1. j = [backfill |-> TRUE, changed |-> TRUE, loss |-> NewShipLoss(sea.fate, live.verified)]
      BY <2>2 DEF JudgePresent
    <3> QED
      BY <3>1, <2>2, <1>2, <1>3, JudgeTypes DEF Judged, Began, MaybeLoss
  <2>3. CASE report = "sunk" /\ known # NoLoss /\ known.recovered = 0 /\ known.fate \in Vague /\ known.fate # sea.fate
    <3>1. j = [backfill |-> TRUE, changed |-> TRUE, loss |-> [known EXCEPT !.fate = sea.fate]]
      BY <2>3 DEF JudgePresent
    <3>2. j.loss \in ShipLoss /\ j.loss.at = known.at /\ j.loss.last = known.last /\ j.loss.recovered = 0
      BY <3>1, <2>3, <1>1 DEF MaybeLoss, ShipLoss
    <3>3. j.changed /\ j.backfill
      BY <3>1
    <3>4. Judged(known, j)
      <4> HIDE DEF j
      <4>1. j.loss # NoLoss /\ Same(known, j.loss)
        BY <3>2, <2>3, LossAssumption DEF Same, Open
      <4> QED
        BY <3>2, <3>3, <4>1 DEF Judged, MaybeLoss
    <3> QED
      BY <3>4
  <2>4. CASE ~(report = "afloat") /\ ~(report = "sunk" /\ (known = NoLoss \/ (known.recovered # 0 /\ sea.now > known.recovered)))
             /\ ~(report = "sunk" /\ known # NoLoss /\ known.recovered = 0 /\ known.fate \in Vague /\ known.fate # sea.fate)
    <3>1. j = [backfill |-> FALSE, changed |-> FALSE, loss |-> known]
      BY <2>4 DEF JudgePresent
    <3> QED
      BY <3>1 DEF Judged
  <2> QED
    BY <2>1, <2>2, <2>3, <2>4
<1> QED
    BY <1>5, <1>6

\* Reading the events from the cursor on, or all of them, leaves no event of
\* the loss untold, except a claim recorded before the hazard.
LEMMA EnrichedKeeps ==
    ASSUME LossTypes, NEW loss \in MaybeLoss, NEW after \in Nat
    PROVE  /\ Enriched(loss, after) \in MaybeLoss
           /\ loss = NoLoss <=> Enriched(loss, after) = NoLoss
           /\ loss # NoLoss => LET e == Enriched(loss, after)
                               IN  e.at = loss.at /\ e.recovered = loss.recovered /\ e.last = loss.last
           /\ loss # NoLoss /\ loss.recovered # 0 => Enriched(loss, after) = loss
<1> DEFINE read == {i \in DOMAIN happened : i > after}
           struck(i) == \E j \in read : j < i /\ happened[j].kind = "hazard" /\ Fits(happened[j], loss)
           taken == {i \in read : Fits(happened[i], IF struck(i) THEN [loss EXCEPT !.fate = "lost_at_sea"] ELSE loss)}
           hazard == \E i \in taken : happened[i].kind = "hazard"
           claim == \E i \in taken : happened[i].kind = "claim"
           res == [loss EXCEPT !.hazard = @ \/ hazard, !.claim = @ \/ claim, !.fate = IF hazard THEN "lost_at_sea" ELSE @]
<1>1. loss = NoLoss => Enriched(loss, after) = NoLoss
    BY DEF Enriched
<1>2. ASSUME loss # NoLoss PROVE Enriched(loss, after) = res
    BY <1>2 DEF Enriched
<1>3. ASSUME loss # NoLoss
      PROVE  res \in ShipLoss /\ res.at = loss.at /\ res.recovered = loss.recovered /\ res.last = loss.last
  <2> HIDE DEF hazard, claim
  <2> QED
    BY <1>3 DEF MaybeLoss, ShipLoss, VoyageFates
<1>4. ASSUME loss # NoLoss, loss.recovered # 0 PROVE res = loss
  <2>1. taken = {}
    BY <1>4 DEF Fits, MaybeLoss, ShipLoss
  <2>2. ~hazard /\ ~claim
    BY <2>1
  <2> HIDE DEF hazard, claim
  <2> QED
    BY <2>2, <1>4 DEF MaybeLoss, ShipLoss
<1> HIDE DEF res
<1> QED
    BY <1>1, <1>2, <1>3, <1>4, LossAssumption DEF MaybeLoss

LEMMA EnrichedHeeds ==
    ASSUME LossTypes, NEW loss \in MaybeLoss, NEW after \in Nat, Heeded(loss, after, FALSE)
    PROVE  Heeded(Enriched(loss, after), Len(happened), FALSE)
<1> DEFINE read == {i \in DOMAIN happened : i > after}
           struck(i) == \E j \in read : j < i /\ happened[j].kind = "hazard" /\ Fits(happened[j], loss)
           seen(i) == IF struck(i) THEN [loss EXCEPT !.fate = "lost_at_sea"] ELSE loss
           taken == {i \in read : Fits(happened[i], seen(i))}
           hazard == \E i \in taken : happened[i].kind = "hazard"
           claim == \E i \in taken : happened[i].kind = "claim"
           res == [loss EXCEPT !.hazard = @ \/ hazard, !.claim = @ \/ claim, !.fate = IF hazard THEN "lost_at_sea" ELSE @]
<1>1. SUFFICES ASSUME loss # NoLoss,
                      NEW i \in DOMAIN happened, ~Early(i), Fits(happened[i], Enriched(loss, after))
               PROVE  Told(Enriched(loss, after), i)
  <2>1. loss = NoLoss => Enriched(loss, after) = NoLoss
    BY DEF Enriched
  <2> QED
    BY <2>1 DEF Heeded
<1>2. Enriched(loss, after) = res
    BY <1>1 DEF Enriched
<1>3. happened[i] \in HullEvent /\ DOMAIN happened = 1..Len(happened) /\ Len(happened) \in Nat
    BY <1>1, ElementOfSeq DEF LossTypes
<1>4. loss \in ShipLoss
    BY <1>1 DEF MaybeLoss
<1>5. res.at = loss.at /\ res.recovered = loss.recovered /\ res.last = loss.last /\ res.voyage = loss.voyage
      /\ res.fate = (IF hazard THEN "lost_at_sea" ELSE loss.fate)
      /\ res.hazard = (loss.hazard \/ hazard) /\ res.claim = (loss.claim \/ claim)
  <2> HIDE DEF hazard, claim
  <2> QED
    BY <1>4 DEF ShipLoss
<1> HIDE DEF res
\* A hazard fits the loss before and after the hazards are taken.
<1>6. ASSUME NEW j \in DOMAIN happened, happened[j].kind = "hazard", Fits(happened[j], loss) PROVE Fits(happened[j], seen(j))
    BY <1>4, <1>6 DEF Fits, VoyageFates, ShipLoss
<1>7. ASSUME NEW j \in DOMAIN happened, happened[j].kind = "hazard", j \in taken PROVE Fits(happened[j], loss)
  <2>1. CASE ~struck(j)
    BY <1>7, <2>1
  <2>2. CASE struck(j)
    <3>1. PICK k \in read : happened[k].kind = "hazard" /\ Fits(happened[k], loss)
      BY <2>2
    <3>2. loss.recovered = 0 /\ loss.fate \in VoyageFates \cup {"missing"}
      BY <3>1 DEF Fits
    <3>3. happened[j].at >= loss.last
      BY <1>7, <2>2, <1>4 DEF Fits, ShipLoss
    <3> QED
      BY <3>2, <3>3, <1>7 DEF Fits
  <2> QED
    BY <2>1, <2>2
<1>8. CASE happened[i].kind = "hazard"
  <2>1. Fits(happened[i], loss)
    <3>1. CASE hazard
      <4>1. PICK k \in taken : happened[k].kind = "hazard"
        BY <3>1
      <4>2. Fits(happened[k], loss)
        BY <4>1, <1>7
      <4> QED
        BY <4>1, <4>2, <1>1, <1>2, <1>5, <1>8 DEF Fits
    <3>2. CASE ~hazard
      BY <3>2, <1>1, <1>2, <1>5, <1>8 DEF Fits
    <3> QED
      BY <3>1, <3>2
  <2>2. CASE i > after
    <3>1. i \in taken
      BY <2>1, <2>2, <1>6, <1>8
    <3> QED
      BY <3>1, <1>2, <1>5, <1>8 DEF Told
  <2>3. CASE ~(i > after)
    <3>1. Told(loss, i)
      BY <2>1, <2>3, <1>1, <1>3 DEF Heeded
    <3> QED
      BY <3>1, <1>2, <1>5, <1>8 DEF Told
  <2> QED
    BY <2>2, <2>3
<1>9. CASE happened[i].kind = "claim"
  \* Every hazard that was taken is older than the claim.
  <2>1. ASSUME NEW k \in taken, happened[k].kind = "hazard" PROVE (k < i /\ struck(i)) \/ ~(i > after)
    BY <2>1, <1>1, <1>3, <1>7, <1>9 DEF Early
  <2>2. CASE i > after
    <3>1. hazard => struck(i)
      BY <2>1, <2>2
    <3>2. struck(i) => hazard
      <4>1. SUFFICES ASSUME struck(i) PROVE hazard
        OBVIOUS
      <4>2. PICK k \in read : happened[k].kind = "hazard" /\ Fits(happened[k], loss)
        BY <4>1
      <4>3. k \in taken
        BY <4>2, <1>6
      <4> QED
        BY <4>2, <4>3
    <3>3. Fits(happened[i], seen(i))
      <4> HIDE DEF hazard, struck
      <4>1. seen(i).at = loss.at /\ seen(i).recovered = loss.recovered /\ seen(i).last = loss.last /\ seen(i).voyage = loss.voyage
            /\ seen(i).fate = IF struck(i) THEN "lost_at_sea" ELSE loss.fate
        BY <1>4 DEF ShipLoss
      <4> HIDE DEF seen
      <4> QED
        BY <4>1, <3>1, <3>2, <1>1, <1>2, <1>5 DEF Fits
    <3>4. i \in taken
      BY <3>3, <2>2
    <3> QED
      BY <3>4, <1>2, <1>5, <1>9 DEF Told
  <2>3. CASE ~(i > after)
    <3>1. ~hazard
      BY <2>3, <1>1, <1>3, <1>9 DEF Early
    <3>2. Fits(happened[i], loss)
      BY <3>1, <1>1, <1>2, <1>5 DEF Fits
    <3>3. Told(loss, i)
      BY <3>2, <2>3, <1>1, <1>3 DEF Heeded
    <3> QED
      BY <3>3, <1>2, <1>5, <1>9 DEF Told
  <2> QED
    BY <2>2, <2>3
<1> QED
    BY <1>3, <1>8, <1>9 DEF HullEvent

\* The memory m and the loss it judges by, with change still to be written:
\* what an observation keeps from the load to the write.
Memory == [losses : MaybeLoss, durable : MaybeLoss, held : BOOLEAN, loaded : BOOLEAN]
Settled(m, loss, change, upto, backfill) ==
    /\ loss \in MaybeLoss /\ change \in {NoLoss, loss}
    /\ row = NoLoss => /\ Heeded(loss, upto, backfill)
                       /\ m.durable = NoLoss /\ (change = NoLoss => loss = NoLoss)
    /\ ~overlaid => Sound(loss) /\ Sound(m.durable)
    /\ m.loaded /\ ~overlaid =>
         /\ Heeded(loss, upto, backfill)
         /\ IF change = NoLoss THEN MemoryAsRow(loss, m.durable) ELSE AheadOfRow(change, m.durable)

LEMMA AlikeHeeds ==
    ASSUME LossTypes, NEW loss, NEW other, NEW upto, NEW backfill, Alike(loss, other), Heeded(loss, upto, backfill)
    PROVE  Heeded(other, upto, backfill)
<1>1. ASSUME NEW i \in DOMAIN happened, Fits(happened[i], other) PROVE Fits(happened[i], loss)
    BY <1>1 DEF Fits, Alike
<1>2. ASSUME NEW i \in DOMAIN happened, Told(loss, i) PROVE Told(other, i)
    BY <1>2 DEF Told, Alike
<1> QED
    BY <1>1, <1>2 DEF Heeded, Alike

\* The load, and the pending row it drops.
LEMMA LoadKeeps ==
    ASSUME CauseInv, NEW fresh \in BOOLEAN, NEW ok \in BOOLEAN
    PROVE  LET l == Load(fresh, ok)
               stale == l.snap.pending # NoLoss /\ Outlived(l.snap.pending, l.mem.durable)
               pend == IF stale THEN NoLoss ELSE l.snap.pending
               known == IF pend # NoLoss THEN pend ELSE l.mem.losses
           IN  /\ l.mem \in Memory /\ l.snap \in LossSnapshot
               /\ l.snap.cursor = live.cursor /\ l.snap.verified = live.verified
               /\ Settled(l.mem, known, pend, live.cursor, l.snap.backfill)
<1> DEFINE l == Load(fresh, ok)
           stale == l.snap.pending # NoLoss /\ Outlived(l.snap.pending, l.mem.durable)
           pend == IF stale THEN NoLoss ELSE l.snap.pending
           known == IF pend # NoLoss THEN pend ELSE l.mem.losses
           skip == (ram.held /\ ~fresh) \/ sea.now < live.loadRetry
<1>1. LossTypes /\ ram \in Memory /\ live \in LossSnapshot /\ row \in MaybeLoss /\ sea.now \in Nat /\ Retry \in Nat
    BY LossAssumption DEF CauseInv, LossTypes, Waters, Memory
<1>2. CASE skip \/ ~ok
  <2>1. /\ l.mem.losses = ram.losses /\ l.mem.durable = ram.durable /\ l.mem.loaded = ram.loaded /\ l.mem \in Memory
        /\ l.snap \in LossSnapshot /\ l.snap.cursor = live.cursor /\ l.snap.verified = live.verified
        /\ l.snap.pending = live.pending /\ l.snap.backfill = live.backfill
    <3>0. sea.now + Retry \in Nat
      BY <1>1
    <3>1. [ram EXCEPT !.held = TRUE] \in Memory /\ [live EXCEPT !.loadRetry = sea.now + Retry] \in LossSnapshot
      BY <1>1, <3>0 DEF Memory, LossSnapshot
    <3>2. /\ l.mem = [ram EXCEPT !.held = TRUE]
          /\ l.snap \in {live, [live EXCEPT !.loadRetry = sea.now + Retry]}
      BY <1>2 DEF Load
    <3> HIDE DEF l
    <3>3. l.mem.losses = ram.losses /\ l.mem.durable = ram.durable /\ l.mem.loaded = ram.loaded /\ l.mem \in Memory
      BY <3>1, <3>2, <1>1 DEF Memory
    <3>4. /\ l.snap \in LossSnapshot /\ l.snap.cursor = live.cursor /\ l.snap.verified = live.verified
          /\ l.snap.pending = live.pending /\ l.snap.backfill = live.backfill
      BY <3>1, <3>2, <1>1 DEF LossSnapshot
    <3> QED
      BY <3>3, <3>4
  <2> HIDE DEF l
  <2>2. row = NoLoss \/ (ram.loaded /\ ~overlaid) => ~stale
    BY <2>1 DEF CauseInv, AheadOfRow, Outlived
  <2>3. pend \in {NoLoss, live.pending} /\ known \in MaybeLoss /\ pend \in {NoLoss, known}
    BY <2>1, <1>1 DEF LossSnapshot, Memory
  <2>4. row = NoLoss => /\ Heeded(known, live.cursor, live.backfill) /\ l.mem.durable = NoLoss
                        /\ (pend = NoLoss => known = NoLoss)
    BY <2>1, <2>2 DEF CauseInv, Heeded
  <2>5. ~overlaid => Sound(known) /\ Sound(l.mem.durable)
    BY <2>1 DEF CauseInv
  <2>6. ram.loaded /\ ~overlaid => /\ Heeded(known, live.cursor, live.backfill)
                                  /\ IF pend = NoLoss THEN MemoryAsRow(known, l.mem.durable) ELSE AheadOfRow(pend, l.mem.durable)
    BY <2>1, <2>2 DEF CauseInv, Known
  <2>7. Settled(l.mem, known, pend, live.cursor, l.snap.backfill)
    <3> HIDE DEF known, pend
    <3> QED
      BY <2>1, <2>3, <2>4, <2>5, <2>6 DEF Settled
  <2> QED
    BY <2>1, <2>7 DEF l
<1>3. CASE ~skip /\ ok
  <2>1. /\ l.mem = [losses |-> row, durable |-> row, held |-> TRUE, loaded |-> TRUE]
        /\ l.snap = [live EXCEPT !.loadRetry = 0, !.backfill = @ \/ (~ram.loaded /\ (row # NoLoss \/ sea.others))]
    BY <1>3 DEF Load
  <2>2. /\ l.mem.losses = row /\ l.mem.durable = row /\ l.mem.loaded /\ l.mem \in Memory
        /\ l.snap.cursor = live.cursor /\ l.snap.verified = live.verified /\ l.snap.pending = live.pending
        /\ l.snap.backfill = (live.backfill \/ (~ram.loaded /\ (row # NoLoss \/ sea.others)))
    BY <2>1, <1>1 DEF Memory, LossSnapshot
  <2>3. l.snap \in LossSnapshot
    <3>1. sea.others \in BOOLEAN /\ ram.loaded \in BOOLEAN
      BY <1>1 DEF LossTypes, Waters, Memory
    <3> DEFINE b == live.backfill \/ (~ram.loaded /\ (row # NoLoss \/ sea.others))
    <3>2. b \in BOOLEAN
      BY <3>1
    <3>3. l.snap = [live EXCEPT !.loadRetry = 0, !.backfill = b]
      BY <2>1
    <3> HIDE DEF b, l
    <3>4. ASSUME NEW snap \in LossSnapshot, NEW duty \in BOOLEAN
          PROVE  [snap EXCEPT !.loadRetry = 0, !.backfill = duty] \in LossSnapshot
      BY DEF LossSnapshot
    <3> QED
      BY <1>1, <3>2, <3>3, <3>4
  <2> HIDE DEF l
  <2>4. pend \in {NoLoss, live.pending} /\ known \in MaybeLoss /\ pend \in {NoLoss, known}
    BY <2>2, <1>1 DEF LossSnapshot, Memory
  <2>5. row = NoLoss => /\ Heeded(known, live.cursor, l.snap.backfill) /\ l.mem.durable = NoLoss
                        /\ (pend = NoLoss => known = NoLoss)
    BY <2>2 DEF CauseInv, Heeded, Outlived
  <2>6. ~overlaid => Sound(known) /\ Sound(l.mem.durable)
    BY <2>2 DEF CauseInv
  <2>7. ASSUME ~overlaid
        PROVE  /\ Heeded(known, live.cursor, l.snap.backfill)
               /\ IF pend = NoLoss THEN MemoryAsRow(known, l.mem.durable) ELSE AheadOfRow(pend, l.mem.durable)
    <3>1. CASE row = NoLoss
      <4>1. ~stale /\ pend = live.pending
        BY <3>1, <2>2 DEF Outlived
      <4> QED
        BY <3>1, <4>1, <2>2, <2>5 DEF MemoryAsRow, AheadOfRow, Open, Outlived
    <3>2. CASE row # NoLoss
      <4>1. row \in ShipLoss
        BY <3>2, <1>1 DEF MaybeLoss
      <4>2. CASE pend = NoLoss
        <5>1. known = row /\ MemoryAsRow(known, l.mem.durable)
          BY <4>2, <2>2 DEF MemoryAsRow, Alike, Open
        <5> HIDE DEF known
        <5>2. CASE ~ram.loaded
          BY <4>2, <5>1, <5>2, <3>2, <2>2 DEF Heeded
        <5>3. CASE row.recovered # 0
          BY <4>2, <5>1, <5>3 DEF Heeded, Fits
        <5>4. CASE ram.loaded /\ row.recovered = 0
          <6>1. live.pending = NoLoss
            <7>1. SUFFICES ASSUME live.pending # NoLoss PROVE FALSE
              OBVIOUS
            <7>2. live.pending \in ShipLoss
              BY <7>1, <1>1 DEF LossSnapshot, MaybeLoss
            <7>3. row.last <= live.pending.at
              BY <7>1, <5>4, <2>7, <3>2 DEF CauseInv, AheadOfRow, Open
            <7>4. Outlived(live.pending, row)
              BY <4>2, <7>1, <2>2
            <7> QED
              BY <7>2, <7>3, <7>4, <5>4, <4>1 DEF Outlived, ShipLoss
          <6>2. Alike(ram.losses, row) /\ Heeded(ram.losses, live.cursor, live.backfill)
            BY <6>1, <5>4, <2>7, <3>2 DEF CauseInv, MemoryAsRow, Known, Open
          <6>3. Heeded(row, live.cursor, live.backfill)
            BY <6>2, <1>1, AlikeHeeds
          <6> QED
            BY <4>2, <5>1, <6>3, <2>2 DEF Heeded
        <5> QED
          BY <5>1, <5>2, <5>3, <5>4, <4>2
      <4>3. CASE pend # NoLoss
        <5>1. pend = live.pending /\ known = pend /\ ~Outlived(pend, row)
          BY <4>3, <2>2
        <5>2. pend \in ShipLoss
          BY <5>1, <4>3, <1>1 DEF LossSnapshot, MaybeLoss
        <5>3. AheadOfRow(pend, row)
          BY <5>1, <5>2, <3>2, <4>1 DEF AheadOfRow, Outlived, ShipLoss
        <5>4. Heeded(known, live.cursor, l.snap.backfill)
          <6>1. CASE ~ram.loaded
            BY <6>1, <3>2, <2>2 DEF Heeded
          <6>2. CASE ram.loaded
            BY <6>2, <2>7, <5>1, <4>3, <2>2 DEF CauseInv, Known, Heeded
          <6> QED
            BY <6>1, <6>2
        <5> QED
          BY <5>3, <5>4, <4>3, <2>2
      <4> QED
        BY <4>2, <4>3
    <3> QED
      BY <3>1, <3>2
  <2>8. Settled(l.mem, known, pend, live.cursor, l.snap.backfill)
    <3> HIDE DEF known, pend
    <3> QED
      BY <2>2, <2>4, <2>5, <2>6, <2>7 DEF Settled
  <2> QED
    BY <2>2, <2>3, <2>8 DEF l
<1> QED
    BY <1>2, <1>3

\* What the capture makes of the loss.
LEMMA JudgedKeeps ==
    ASSUME LossTypes, NEW m \in Memory, NEW known, NEW pend, NEW upto \in Nat, NEW backfill \in BOOLEAN,
           ~overlaid => Sound(row), Settled(m, known, pend, upto, backfill), NEW j, Judged(known, j)
    PROVE  Settled(m, j.loss, IF j.changed THEN j.loss ELSE pend, upto, backfill \/ j.backfill)
<1> DEFINE change == IF j.changed THEN j.loss ELSE pend
           back == backfill \/ j.backfill
<1>1. sea.now \in Nat /\ row \in MaybeLoss /\ known \in MaybeLoss /\ j.loss \in MaybeLoss /\ pend \in {NoLoss, known}
    BY DEF LossTypes, Waters, Settled, Judged
<1>2. CASE ~j.changed
  <2>1. j.loss = known /\ change = pend /\ back = backfill
    BY <1>2 DEF Judged
  <2> QED
    BY <2>1
<1>3. CASE j.changed
  <2>1. j.loss \in ShipLoss /\ j.loss # NoLoss /\ change = j.loss /\ (back \/ j.loss.recovered # 0)
    BY <1>3 DEF Judged, MaybeLoss, Open
  <2>2. Heeded(j.loss, upto, back)
    BY <2>1 DEF Heeded, Fits
  <2>3. Began(known, j.loss) \/ Same(known, j.loss)
    BY <1>3 DEF Judged
  <2>4. ASSUME ~overlaid PROVE Sound(j.loss)
    BY <2>1, <2>3, <2>4, <1>1 DEF Settled, Sound, Began, Same, Open, ShipLoss, MaybeLoss
  <2>5. ASSUME m.loaded, ~overlaid PROVE AheadOfRow(j.loss, m.durable)
    <3>1. Sound(known) /\ Sound(m.durable) /\ Sound(row) /\ m.durable \in MaybeLoss
      BY <2>5 DEF Settled, Memory
    <3>2. CASE Began(known, j.loss)
      <4>1. Open(row) => row.last <= j.loss.at
        BY <3>1, <3>2 DEF Sound, Began, Open
      <4>2. m.durable # NoLoss => ~(m.durable.last > j.loss.at)
        BY <3>1, <3>2, <1>1 DEF Sound, Began, MaybeLoss, ShipLoss
      <4>3. m.durable # NoLoss /\ m.durable.recovered # 0 => ~(j.loss.at <= m.durable.recovered)
        <5>1. CASE pend = NoLoss
          <6>1. m.durable = known
            BY <5>1, <2>5 DEF Settled, MemoryAsRow
          <6> QED
            BY <6>1, <3>2, <1>1 DEF Began, MaybeLoss, ShipLoss
        <5>2. CASE pend # NoLoss
          <6>1. pend = known /\ known \in ShipLoss /\ ~Outlived(known, m.durable)
            BY <5>2, <2>5, <1>1 DEF Settled, AheadOfRow, MaybeLoss
          <6>2. known.recovered # 0 /\ sea.now > known.recovered /\ known.at < known.recovered
            BY <6>1, <5>2, <3>1, <3>2 DEF Began, Sound
          <6> QED
            BY <6>1, <6>2, <3>1, <3>2, <1>1 DEF Outlived, Began, MaybeLoss, ShipLoss
        <5> QED
          BY <5>1, <5>2
      <4> QED
        BY <4>1, <4>2, <4>3 DEF AheadOfRow, Outlived
    <3>3. CASE Same(known, j.loss)
      <4>1. known \in ShipLoss /\ known.recovered = 0 /\ j.loss.at = known.at /\ known.last <= known.at
        BY <3>1, <3>3, <1>1 DEF Same, Open, Sound, MaybeLoss
      <4>2. CASE pend = NoLoss
        <5>1. m.durable = known /\ (Open(row) => row.last = known.last)
          BY <4>2, <2>5 DEF Settled, MemoryAsRow, Alike
        <5> QED
          BY <5>1, <4>1 DEF AheadOfRow, Outlived, ShipLoss
      <4>3. CASE pend # NoLoss
        <5>1. AheadOfRow(known, m.durable)
          BY <4>3, <2>5, <1>1 DEF Settled
        <5> QED
          BY <5>1, <4>1 DEF AheadOfRow, Outlived
      <4> QED
        BY <4>2, <4>3
    <3> QED
      BY <2>3, <3>2, <3>3
  <2> HIDE DEF change, back
  <2>6. row = NoLoss => m.durable = NoLoss
    BY DEF Settled
  <2>7. ~overlaid => Sound(m.durable)
    BY DEF Settled
  <2>8. Settled(m, j.loss, change, upto, back)
    BY <2>1, <2>2, <2>4, <2>5, <2>6, <2>7, <1>1 DEF Settled
  <2> QED
    BY <2>8 DEF change, back
<1> QED
    BY <1>2, <1>3

\* The events are read, or not, as enrichObservedShipLosses does it: final is
\* the loss afterwards, toSave what is to be written of it, position the cursor
\* and duty whether older events are still to be read.
Enrichment(m, loss, change, upto, back, asked, fetched, final, toSave, position, duty) ==
    /\ asked \in BOOLEAN /\ fetched \in BOOLEAN
    /\ final = (IF fetched THEN Enriched(loss, IF back THEN 0 ELSE upto) ELSE loss)
    /\ toSave = (IF final # loss THEN final ELSE change)
    /\ position = (IF fetched THEN Len(happened) ELSE upto)
    /\ duty = (back /\ (asked => NeedsEvents(loss, m.loaded) /\ ~fetched))

\* Reading the events, or dropping the duty to when there is nothing to learn.
LEMMA EnrichKeeps ==
    ASSUME LossTypes, NEW m \in Memory, NEW loss, NEW change, NEW upto \in Nat, NEW back \in BOOLEAN,
           Settled(m, loss, change, upto, back),
           NEW asked, NEW fetched, NEW final, NEW toSave, NEW position, NEW duty,
           Enrichment(m, loss, change, upto, back, asked, fetched, final, toSave, position, duty)
    PROVE  Settled(m, final, toSave, position, duty)
<1> DEFINE after == IF back THEN 0 ELSE upto
<1>0. /\ asked \in BOOLEAN /\ fetched \in BOOLEAN
      /\ final = (IF fetched THEN Enriched(loss, after) ELSE loss)
      /\ toSave = (IF final # loss THEN final ELSE change)
      /\ position = (IF fetched THEN Len(happened) ELSE upto)
      /\ duty = (back /\ (asked => NeedsEvents(loss, m.loaded) /\ ~fetched))
    BY DEF Enrichment
<1>1. loss \in MaybeLoss /\ change \in {NoLoss, loss} /\ after \in Nat /\ Len(happened) \in Nat
    BY LenProperties DEF Settled, LossTypes
<1>2. ASSUME Heeded(loss, upto, back) PROVE Heeded(final, position, duty)
  <2>1. CASE fetched
    <3>1. Heeded(loss, after, FALSE)
      <4>1. \A i \in DOMAIN happened : ~(i <= 0)
        BY LenProperties DEF LossTypes
      <4>2. CASE back
        BY <1>0, <4>1, <4>2 DEF Heeded
      <4>3. CASE ~back
        BY <1>0, <4>3, <1>2 DEF Heeded
      <4> QED
        BY <1>0, <4>2, <4>3
    <3>2. Heeded(Enriched(loss, after), Len(happened), FALSE)
      BY <1>0, <3>1, <1>1, EnrichedHeeds
    <3> QED
      BY <1>0, <3>2, <2>1 DEF Heeded
  <2>2. CASE ~fetched /\ (duty \/ ~back)
    BY <1>0, <2>2, <1>2 DEF Heeded
  <2>3. CASE ~fetched /\ back /\ ~duty
    <3>1. ~NeedsEvents(loss, m.loaded)
      BY <1>0, <2>3
    <3>2. ASSUME loss # NoLoss, NEW i \in DOMAIN happened, Fits(happened[i], loss) PROVE Told(loss, i)
      BY <1>0, <3>1, <3>2, <1>1 DEF NeedsEvents, Fits, Told, MaybeLoss, ShipLoss
    <3> QED
      BY <1>0, <3>2, <2>3 DEF Heeded
  <2> QED
    BY <1>0, <2>1, <2>2, <2>3
<1>3. /\ final \in MaybeLoss /\ (loss = NoLoss <=> final = NoLoss)
      /\ loss # NoLoss => final.at = loss.at /\ final.recovered = loss.recovered /\ final.last = loss.last
      /\ loss # NoLoss /\ loss.recovered # 0 => final = loss
    BY <1>0, <1>1, EnrichedKeeps
<1>4. toSave \in {NoLoss, final} /\ (toSave = NoLoss => change = NoLoss /\ final = loss)
    BY <1>0, <1>1, <1>3
<1>5. ~overlaid => Sound(final)
    BY <1>0, <1>3 DEF Settled, Sound
<1>6. ASSUME m.loaded, ~overlaid, toSave # NoLoss PROVE AheadOfRow(toSave, m.durable)
  <2>1. loss # NoLoss /\ toSave.at = loss.at /\ loss \in ShipLoss
    BY <1>0, <1>1, <1>3, <1>6 DEF MaybeLoss
  <2>2. CASE change # NoLoss
    <3>1. AheadOfRow(loss, m.durable)
      BY <1>0, <2>2, <1>1, <1>6 DEF Settled
    <3> QED
      BY <1>0, <3>1, <2>1 DEF AheadOfRow, Outlived
  <2>3. CASE change = NoLoss
    <3>1. final # loss /\ loss.recovered = 0 /\ loss.last <= loss.at
      BY <1>0, <2>1, <2>3, <1>3, <1>6 DEF Settled, Sound
    <3>2. m.durable = loss /\ (Open(row) => row.last = loss.last)
      BY <1>0, <2>3, <1>6 DEF Settled, MemoryAsRow, Alike
    <3> QED
      BY <1>0, <3>1, <3>2, <2>1 DEF AheadOfRow, Outlived, ShipLoss
  <2> QED
    BY <1>0, <2>2, <2>3
<1>7. row = NoLoss => m.durable = NoLoss /\ (toSave = NoLoss => final = NoLoss) /\ Heeded(final, position, duty)
    BY <1>0, <1>2, <1>4 DEF Settled
<1>8. m.loaded /\ ~overlaid =>
        /\ Heeded(final, position, duty)
        /\ IF toSave = NoLoss THEN MemoryAsRow(final, m.durable) ELSE AheadOfRow(toSave, m.durable)
    BY <1>0, <1>2, <1>4, <1>6 DEF Settled
<1>9. ~overlaid => Sound(m.durable)
    BY DEF Settled
<1>10. Settled(m, final, toSave, position, duty)
    BY <1>0, <1>3, <1>4, <1>5, <1>7, <1>8, <1>9 DEF Settled
<1> QED
    BY <1>10

\* The write, as saveObservedShipLosses does it: it is applied, or not, and its
\* answer arrives, or not.
Write(m, final, toSave, tried, saved, applied) ==
    /\ tried \in BOOLEAN /\ saved \in BOOLEAN /\ applied \in BOOLEAN
    /\ (tried => toSave # NoLoss) /\ (saved => applied) /\ (applied => tried)
    /\ row' = (IF applied THEN Upsert(row, toSave) ELSE row)
    /\ overlaid' = (overlaid \/ (applied /\ Overlays(toSave)))
    /\ ram' = [m EXCEPT !.losses = final, !.durable = IF saved THEN toSave ELSE @]
    /\ live'.pending = StillPending(saved, toSave)
LEMMA SaveKeeps ==
    ASSUME LossTypes, NEW m \in Memory, NEW final, NEW toSave, NEW upto \in Nat, NEW backfill \in BOOLEAN,
           ~overlaid => Sound(row), overlaid => row # NoLoss, Settled(m, final, toSave, upto, backfill),
           NEW tried, NEW saved, NEW applied, Write(m, final, toSave, tried, saved, applied),
           live'.cursor = upto, live'.backfill = backfill,
           UNCHANGED <<sea, happened>>
    PROVE  /\ row' \in MaybeLoss /\ ram' \in Memory /\ live'.pending \in MaybeLoss
           /\ (overlaid => overlaid') /\ (row' = NoLoss => row = NoLoss) /\ (overlaid' => row' # NoLoss)
           /\ row' = NoLoss => /\ Heeded(live.pending, live.cursor, live.backfill)' /\ ram'.durable = NoLoss
                               /\ (live'.pending = NoLoss => ram'.losses = NoLoss)
           /\ ~overlaid' => Sound(row)' /\ Sound(ram.losses)' /\ Sound(ram.durable)' /\ Sound(live.pending)'
           /\ ram'.loaded /\ ~overlaid' =>
                /\ Heeded(Known, live.cursor, live.backfill)'
                /\ IF live'.pending = NoLoss THEN MemoryAsRow(ram.losses, ram.durable)'
                   ELSE AheadOfRow(live.pending, ram.durable)'
<1>0. /\ tried \in BOOLEAN /\ saved \in BOOLEAN /\ applied \in BOOLEAN
      /\ (tried => toSave # NoLoss) /\ (saved => applied) /\ (applied => tried)
      /\ row' = (IF applied THEN Upsert(row, toSave) ELSE row)
      /\ overlaid' = (overlaid \/ (applied /\ Overlays(toSave)))
      /\ ram' = [m EXCEPT !.losses = final, !.durable = IF saved THEN toSave ELSE @]
      /\ live'.pending = StillPending(saved, toSave)
    BY DEF Write
<1>1. final \in MaybeLoss /\ toSave \in {NoLoss, final} /\ row \in MaybeLoss /\ sea.now \in Nat
    BY DEF Settled, LossTypes, Waters
<1>2. applied => toSave \in ShipLoss /\ toSave = final
    BY <1>0, <1>1 DEF MaybeLoss
<1>3. row' \in MaybeLoss /\ (applied => row' \in ShipLoss /\ row' # NoLoss)
    BY <1>0, <1>1, <1>2, UpsertTypes, LossAssumption DEF MaybeLoss
<1>4. ram' \in Memory /\ ram'.losses = final /\ ram'.durable = (IF saved THEN toSave ELSE m.durable) /\ ram'.loaded = m.loaded
    BY <1>0, <1>1 DEF Memory
<1>5. live'.pending = (IF saved THEN NoLoss ELSE toSave) /\ live'.pending \in {NoLoss, final}
    BY <1>0, <1>1 DEF StillPending
<1>6. (overlaid => overlaid') /\ (row' = NoLoss => row = NoLoss /\ ~applied /\ ~saved) /\ (overlaid' => row' # NoLoss)
    BY <1>0, <1>1, <1>3 DEF Overlays, Open
<1>7. ASSUME Heeded(final, upto, backfill) PROVE Heeded(final, upto, backfill)'
    BY <1>7 DEF Heeded, Early, Told, Fits
<1>8. ASSUME row' = NoLoss
      PROVE  /\ Heeded(live.pending, live.cursor, live.backfill)' /\ ram'.durable = NoLoss
             /\ (live'.pending = NoLoss => ram'.losses = NoLoss)
  <2>1. row = NoLoss /\ ~saved
    BY <1>0, <1>6, <1>8
  <2>2. Heeded(final, upto, backfill) /\ m.durable = NoLoss /\ (toSave = NoLoss => final = NoLoss)
    BY <2>1 DEF Settled
  <2> QED
    BY <1>0, <2>1, <2>2, <1>4, <1>5, <1>7 DEF Heeded
<1>9. ASSUME ~overlaid' PROVE Sound(row)' /\ Sound(ram.losses)' /\ Sound(ram.durable)' /\ Sound(live.pending)'
  <2>1. Sound(final) /\ Sound(m.durable) /\ Sound(row)
    BY <1>6, <1>9 DEF Settled
  <2>2. Sound(row')
    BY <1>0, <2>1, <1>1, <1>2, <1>9, UpsertSound
  <2>3. Sound(NoLoss)
    BY DEF Sound
  <2> QED
    BY <1>0, <2>1, <2>2, <2>3, <1>1, <1>4, <1>5 DEF Sound
<1>10. ASSUME ram'.loaded, ~overlaid'
       PROVE  /\ Heeded(Known, live.cursor, live.backfill)'
              /\ IF live'.pending = NoLoss THEN MemoryAsRow(ram.losses, ram.durable)'
                 ELSE AheadOfRow(live.pending, ram.durable)'
  <2>1. /\ Heeded(final, upto, backfill) /\ Sound(final)
        /\ IF toSave = NoLoss THEN MemoryAsRow(final, m.durable) ELSE AheadOfRow(toSave, m.durable)
    BY <1>4, <1>6, <1>10 DEF Settled
  <2>2. Heeded(Known, live.cursor, live.backfill)'
    BY <1>0, <2>1, <1>4, <1>5, <1>7 DEF Known, Heeded
  <2>3. ASSUME applied, Open(row') PROVE Alike(toSave, row') /\ row'.last <= toSave.at
    <3>1. row' = Upsert(row, toSave) /\ toSave \in ShipLoss /\ ~Overlays(toSave) /\ Sound(toSave)
      BY <1>0, <2>1, <2>3, <1>2, <1>10
    <3>2. CASE Open(row)
      <4>1. row \in ShipLoss
        BY <3>2, <1>1 DEF Open, MaybeLoss
      <4>2. Alike(toSave, row')
        BY <1>0, <2>3, <3>1, <3>2, <4>1, UpsertSame
      <4> QED
        BY <1>0, <2>3, <3>1, <4>2 DEF Alike, Open, Sound
    <3>3. CASE ~Open(row)
      <4>1. row' = toSave
        BY <1>0, <2>3, <3>1, <3>3, <1>1, UpsertFresh
      <4> QED
        BY <1>0, <2>3, <3>1, <4>1 DEF Alike, Open, Sound
    <3> QED
      BY <3>2, <3>3
  <2>4. CASE saved
    BY <1>0, <2>2, <2>3, <2>4, <1>2, <1>4, <1>5 DEF MemoryAsRow, Open, Alike
  <2>5. CASE ~saved /\ toSave = NoLoss
    <3>1. row' = row /\ MemoryAsRow(final, m.durable) /\ live'.pending = NoLoss /\ ~applied
      BY <1>0, <2>1, <2>5, <1>5
    <3> QED
      BY <1>0, <2>2, <3>1, <2>5, <1>4 DEF MemoryAsRow, Open, Alike
  <2>6. CASE ~saved /\ toSave # NoLoss
    <3>1. live'.pending = toSave /\ ram'.durable = m.durable /\ AheadOfRow(toSave, m.durable)
      BY <1>0, <2>1, <2>6, <1>4, <1>5
    <3>2. Open(row') => row'.last <= toSave.at
      BY <1>0, <2>3, <3>1 DEF AheadOfRow
    <3> QED
      BY <1>0, <2>2, <2>6, <3>1, <3>2 DEF AheadOfRow, Outlived, Open
  <2> QED
    BY <1>0, <2>2, <2>4, <2>5, <2>6
<1> QED
    BY <1>3, <1>4, <1>5, <1>6, <1>8, <1>9, <1>10, <1>1 DEF MaybeLoss

\* One capture, from the load to the write.
LEMMA ObserveKeeps == CauseInv /\ ObserveShipLosses => CauseInv'
<1> SUFFICES ASSUME CauseInv, ObserveShipLosses PROVE CauseInv'
    OBVIOUS
<1>1. PICK full \in BOOLEAN, fresh \in BOOLEAN, fault \in {"ok", "load", "events", "save", "lost"} :
        \E report \in Reports(full) : LET o == Observed(report, full, fresh, fault) IN
           /\ row' = o.row /\ ram' = o.ram /\ live' = o.live /\ overlaid' = (overlaid \/ o.overlaid)
           /\ UNCHANGED <<sea, happened, disk>>
    BY DEF ObserveShipLosses
<1>2. PICK report \in Reports(full) : LET o == Observed(report, full, fresh, fault) IN
           /\ row' = o.row /\ ram' = o.ram /\ live' = o.live /\ overlaid' = (overlaid \/ o.overlaid)
           /\ UNCHANGED <<sea, happened, disk>>
    BY <1>1
<1> DEFINE l == Load(fresh, fault # "load")
           stale == l.snap.pending # NoLoss /\ Outlived(l.snap.pending, l.mem.durable)
           pend == IF stale THEN NoLoss ELSE l.snap.pending
           known == IF pend # NoLoss THEN pend ELSE l.mem.losses
           j == IF full /\ Confirmed(report, known)
                THEN [backfill |-> TRUE, changed |-> TRUE, loss |-> NewShipLoss("missing", live.verified)]
                ELSE JudgePresent(report, known)
           change == IF j.changed THEN j.loss ELSE pend
           back == l.snap.backfill \/ j.backfill
           asked == full \/ change # NoLoss
           needs == NeedsEvents(j.loss, l.mem.loaded)
           reads == asked /\ needs /\ (j.backfill \/ sea.now >= l.snap.eventRetry)
           fetched == reads /\ fault # "events"
           final == IF fetched THEN Enriched(j.loss, IF back THEN 0 ELSE l.snap.cursor) ELSE j.loss
           toSave == IF final # j.loss THEN final ELSE change
           retry == IF stale THEN 0 ELSE l.snap.retry
           tried == Tried(toSave, retry)
           saved == tried /\ fault \notin {"save", "lost"}
           applied == tried /\ fault # "save"
           rest == StillPending(saved, toSave)
           verified == CASE report = "sunk" -> NoLoss
                         [] report = "afloat" -> [at |-> sea.now, voyage |-> sea.voyage]
                         [] OTHER -> l.snap.verified
           missing == IF ~full THEN IF report \in {"afloat", "sunk"} THEN 0 ELSE l.snap.missing
                      ELSE IF Confirmed(report, known) THEN 0 ELSE Since(report, known)
           again == IF rest = NoLoss THEN 0 ELSE IF tried THEN sea.now + Retry ELSE retry
           position == IF fetched THEN Len(happened) ELSE l.snap.cursor
           duty == back /\ (asked => needs /\ ~fetched)
           later == IF (tried /\ ~saved) \/ (reads /\ ~fetched) THEN sea.now + Retry
                    ELSE IF fetched THEN 0 ELSE l.snap.eventRetry
<1>3. /\ row' = (IF applied THEN Upsert(row, toSave) ELSE row)
      /\ overlaid' = (overlaid \/ (applied /\ Overlays(toSave)))
      /\ ram' = [l.mem EXCEPT !.losses = final, !.durable = IF saved THEN toSave ELSE @]
      /\ live' = [l.snap EXCEPT !.verified = verified, !.missing = missing, !.pending = rest, !.retry = again,
                                !.cursor = position, !.backfill = duty, !.eventRetry = later]
      /\ UNCHANGED <<sea, happened, disk>>
  <2> DEFINE possible == (fault = "events" => reads) /\ (fault \in {"save", "lost"} => tried)
             over == applied /\ Overlays(toSave)
             written == IF applied THEN Upsert(row, toSave) ELSE row
             memory == [l.mem EXCEPT !.losses = final, !.durable = IF saved THEN toSave ELSE @]
             snap == [l.snap EXCEPT !.verified = verified, !.missing = missing, !.pending = rest, !.retry = again,
                                    !.cursor = position, !.backfill = duty, !.eventRetry = later]
             o == Observed(report, full, fresh, fault)
  <2>1. o = [possible |-> possible, row |-> written, overlaid |-> over, ram |-> memory, live |-> snap]
    BY DEF Observed
  <2> HIDE DEF possible, over, written, memory, snap
  <2>2. o.overlaid = over /\ o.row = written /\ o.ram = memory /\ o.live = snap
    BY <2>1
  <2> HIDE DEF o
  <2>3. row' = written /\ overlaid' = (overlaid \/ over) /\ ram' = memory /\ live' = snap /\ UNCHANGED <<sea, happened, disk>>
    BY <1>2, <2>2 DEF o
  <2> QED
    BY <2>3 DEF over, written, memory, snap
<1>4. /\ LossTypes /\ sea.now \in Nat /\ Retry \in Nat /\ Len(happened) \in Nat
      /\ ~overlaid => Sound(row)
      /\ overlaid => row # NoLoss
    BY LossAssumption, LenProperties DEF CauseInv, LossTypes, Waters
<1>5. /\ l.mem \in Memory /\ l.snap \in LossSnapshot /\ l.snap.cursor = live.cursor /\ l.snap.verified = live.verified
      /\ Settled(l.mem, known, pend, live.cursor, l.snap.backfill)
    BY LoadKeeps
<1> HIDE DEF l
<1>6. /\ l.snap.cursor \in Nat /\ l.snap.backfill \in BOOLEAN /\ l.snap.retry \in Nat /\ l.snap.eventRetry \in Nat
      /\ l.snap.missing \in Nat /\ l.snap.verified \in Sighting
    BY <1>5 DEF LossSnapshot
<1>7. known \in MaybeLoss
    BY <1>5 DEF Settled
<1> HIDE DEF pend, known
<1>8. Judged(known, j)
    BY <1>4, <1>7, JudgeIs DEF CauseInv
<1> HIDE DEF j
<1>9. Settled(l.mem, j.loss, change, l.snap.cursor, back)
    BY <1>4, <1>5, <1>6, <1>8, JudgedKeeps
<1>10. back \in BOOLEAN /\ asked \in BOOLEAN /\ needs \in BOOLEAN /\ fetched \in BOOLEAN /\ tried \in BOOLEAN
       /\ saved \in BOOLEAN /\ applied \in BOOLEAN /\ duty \in BOOLEAN
    BY <1>6, <1>8 DEF Judged, NeedsEvents, Tried
<1>11. tried => toSave # NoLoss
    BY DEF Tried
<1>12. (saved => applied) /\ (applied => tried) /\ position \in Nat /\ position <= Len(happened)
    BY <1>4, <1>5, <1>6 DEF CauseInv
<1>13. Settled(l.mem, final, toSave, position, duty)
  <2>1. Enrichment(l.mem, j.loss, change, l.snap.cursor, back, asked, fetched, final, toSave, position, duty)
    BY <1>10 DEF Enrichment
  <2> HIDE DEF change, back, asked, needs, fetched, final, toSave, position, duty
  <2> QED
    BY <1>4, <1>5, <1>6, <1>9, <1>10, <2>1, EnrichKeeps
<1>14. again \in Nat /\ later \in Nat /\ missing \in Nat /\ verified \in Sighting
       /\ (verified # NoLoss => verified.at <= sea.now)
  <2>1. retry \in Nat /\ sea.now + Retry \in Nat /\ sea.voyage \in Nat
    BY <1>4, <1>6 DEF LossTypes, Waters
  <2>2. Since(report, known) \in Nat
    BY <1>4 DEF Since, OneOf, CauseInv, LossTypes, Waters, LossSnapshot
  <2>3. verified \in Sighting /\ (verified # NoLoss => verified.at <= sea.now)
    BY <1>4, <1>5, <1>6, <2>1 DEF Sighting, CauseInv, Seen
  <2> HIDE DEF retry
  <2> QED
    BY <1>6, <2>1, <2>2, <2>3
<1> HIDE DEF change, back, asked, needs, reads, fetched, final, toSave, retry, tried, saved, applied, verified, missing, again,
             position, duty, later
<1>15. rest \in MaybeLoss
    BY <1>13 DEF Settled, StillPending, MaybeLoss
<1>16. /\ live' \in LossSnapshot /\ live'.pending = rest /\ live'.cursor = position /\ live'.backfill = duty
       /\ live'.verified = verified
  <2> HIDE DEF rest
  <2> QED
    BY <1>3, <1>5, <1>10, <1>12, <1>14, <1>15 DEF LossSnapshot
<1>17. /\ row' \in MaybeLoss /\ ram' \in Memory /\ live'.pending \in MaybeLoss
       /\ (overlaid => overlaid') /\ (row' = NoLoss => row = NoLoss) /\ (overlaid' => row' # NoLoss)
       /\ row' = NoLoss => /\ Heeded(live.pending, live.cursor, live.backfill)' /\ ram'.durable = NoLoss
                           /\ (live'.pending = NoLoss => ram'.losses = NoLoss)
       /\ ~overlaid' => Sound(row)' /\ Sound(ram.losses)' /\ Sound(ram.durable)' /\ Sound(live.pending)'
       /\ ram'.loaded /\ ~overlaid' =>
            /\ Heeded(Known, live.cursor, live.backfill)'
            /\ IF live'.pending = NoLoss THEN MemoryAsRow(ram.losses, ram.durable)'
               ELSE AheadOfRow(live.pending, ram.durable)'
  <2>1. Write(l.mem, final, toSave, tried, saved, applied)
    BY <1>3, <1>10, <1>11, <1>12, <1>16 DEF Write
  <2> HIDE DEF rest
  <2> QED
    BY <1>3, <1>4, <1>5, <1>10, <1>12, <1>13, <1>16, <2>1, SaveKeeps
<1>18. LossTypes'
  <2>1. overlaid' \in BOOLEAN
    BY <1>3, <1>4 DEF LossTypes, Overlays
  <2> QED
    BY <1>3, <1>4, <1>16, <1>17, <2>1 DEF LossTypes, Memory
<1>19. live'.cursor <= Len(happened') /\ disk'.cursor <= Len(happened') /\ Seen(live)' /\ Seen(disk)'
    BY <1>3, <1>12, <1>14, <1>16 DEF CauseInv, Seen
<1>20. row' = NoLoss => Heeded(disk.pending, disk.cursor, disk.backfill)'
    BY <1>3, <1>17 DEF CauseInv, Heeded, Early, Told, Fits
<1>21. ~overlaid' => Sound(disk.pending)'
    BY <1>3, <1>17 DEF CauseInv, Sound
<1> QED
    BY <1>17, <1>18, <1>19, <1>20, <1>21 DEF CauseInv

\* The snapshot is committed, or the process dies.
LEMMA SnapshotKeeps == CauseInv /\ (CommitSnapshot \/ CrashLosses) => CauseInv'
<1>1. ASSUME CauseInv, CommitSnapshot PROVE CauseInv'
    BY <1>1 DEF CommitSnapshot, CauseInv, LossTypes, Heeded, Early, Told, Fits, Sound, Seen, Known, MemoryAsRow, AheadOfRow,
             Outlived, Alike, Open
<1>2. ASSUME CauseInv, CrashLosses PROVE CauseInv'
  <2>1. Restarted \in Memory /\ ~Restarted.loaded /\ Restarted.losses = NoLoss /\ Restarted.durable = NoLoss
    BY DEF Restarted, Memory, MaybeLoss
  <2>2. Sound(NoLoss)
    BY DEF Sound
  <2>3. live' = disk /\ ram' = Restarted /\ UNCHANGED <<sea, happened, row, disk, overlaid>>
    BY <1>2 DEF CrashLosses
  <2>4. LossTypes'
    BY <1>2, <2>1, <2>3 DEF CauseInv, LossTypes, Memory
  <2> QED
    BY <1>2, <2>1, <2>2, <2>3, <2>4 DEF CauseInv, Heeded, Early, Told, Fits, Sound, Seen
<1> QED
    BY <1>1, <1>2

\* The hull moves, time passes, or an event is recorded.
LEMMA WorldKeeps == CauseInv /\ (SeaMoves \/ EventRecorded) => CauseInv'
<1>1. ASSUME CauseInv, SeaMoves PROVE CauseInv'
  <2>1. /\ UNCHANGED <<happened, row, ram, live, disk, overlaid>>
        /\ sea' \in Waters
        /\ sea'.now >= sea.now
    <3>1. /\ UNCHANGED <<happened, row, ram, live, disk, overlaid>>
          /\ \/ \E hull \in {"afloat", "hidden"} : sea' = [sea EXCEPT !.hull = hull]
             \/ \E f \in ServerFates : sea' = [sea EXCEPT !.hull = "sunk", !.fate = f]
             \/ sea' = [sea EXCEPT !.now = @ + 1]
      BY <1>1 DEF SeaMoves, HullMoves
    <3>2. sea \in Waters
      BY <1>1 DEF CauseInv, LossTypes
    <3>3. ASSUME NEW hull \in {"afloat", "hidden"}, sea' = [sea EXCEPT !.hull = hull] PROVE sea' \in Waters /\ sea'.now >= sea.now
      <4>1. hull \in {"afloat", "hidden", "sunk"}
        BY <3>3
      <4>2. sea.now \in Nat /\ sea'.now = sea.now
        BY <3>2, <3>3 DEF Waters
      <4>3. sea' \in Waters
        BY <3>2, <3>3, <4>1 DEF Waters
      <4> QED
        BY <4>2, <4>3
    <3>4. ASSUME NEW f \in ServerFates, sea' = [sea EXCEPT !.hull = "sunk", !.fate = f] PROVE sea' \in Waters /\ sea'.now >= sea.now
      <4>1. f \in ServerFates \cup {"unknown"} /\ "sunk" \in {"afloat", "hidden", "sunk"}
        BY <3>4
      <4>2. sea.now \in Nat /\ sea'.now = sea.now
        BY <3>2, <3>4 DEF Waters
      <4>3. sea' \in Waters
        BY <3>2, <3>4, <4>1 DEF Waters
      <4> QED
        BY <4>2, <4>3
    <3>5. ASSUME sea' = [sea EXCEPT !.now = @ + 1] PROVE sea' \in Waters /\ sea'.now >= sea.now
      BY <3>2, <3>5 DEF Waters
    <3> QED
      BY <3>1, <3>3, <3>4, <3>5
  <2>2. sea.now \in Nat /\ sea'.now \in Nat /\ LossTypes'
    BY <1>1, <2>1 DEF CauseInv, LossTypes, Waters
  <2>3. ASSUME NEW loss \in MaybeLoss, Sound(loss) PROVE Sound(loss)'
    <3>1. sea'.now \in Nat /\ sea.now \in Nat /\ sea'.now >= sea.now
      BY <2>1, <2>2
    <3> QED
      BY <2>3, <3>1 DEF Sound, MaybeLoss, ShipLoss
  <2>4. ~overlaid' => /\ Sound(row)' /\ Sound(ram.losses)' /\ Sound(ram.durable)'
                      /\ Sound(live.pending)' /\ Sound(disk.pending)'
    BY <1>1, <2>1, <2>2, <2>3 DEF CauseInv, LossTypes, LossSnapshot
  <2>5. Seen(live)' /\ Seen(disk)'
    <3>1. live.verified \in Sighting /\ disk.verified \in Sighting
      BY <1>1 DEF CauseInv, LossTypes, LossSnapshot
    <3> QED
      BY <1>1, <2>1, <2>2, <3>1 DEF CauseInv, Seen, Sighting
  <2> QED
    BY <1>1, <2>1, <2>2, <2>4, <2>5 DEF CauseInv, Heeded, Early, Told, Fits, Known, MemoryAsRow, AheadOfRow, Outlived, Alike, Open
<1>2. ASSUME CauseInv, EventRecorded PROVE CauseInv'
  <2>1. PICK e \in HullEvent : happened' = Append(happened, e)
    BY <1>2 DEF EventRecorded, HullEvent, CauseInv, LossTypes, Waters
  <2>2. /\ happened' \in Seq(HullEvent) /\ Len(happened') = Len(happened) + 1 /\ Len(happened) \in Nat
        /\ \A i \in DOMAIN happened : i \in DOMAIN happened' /\ happened'[i] = happened[i] /\ i <= Len(happened)
        /\ DOMAIN happened' = 1..(Len(happened) + 1) /\ DOMAIN happened = 1..Len(happened)
    BY <1>2, <2>1, AppendProperties, LenProperties DEF CauseInv, LossTypes
  <2>3. /\ UNCHANGED <<row, ram, live, disk, overlaid>> /\ sea'.now = sea.now
        /\ sea' \in Waters
    BY <1>2 DEF EventRecorded, CauseInv, LossTypes, Waters
  <2>4. LossTypes'
    BY <1>2, <2>2, <2>3 DEF CauseInv, LossTypes
  <2>5. ASSUME NEW loss, NEW upto \in Nat, NEW backfill, upto <= Len(happened), Heeded(loss, upto, backfill)
        PROVE  Heeded(loss, upto, backfill)'
    <3>1. SUFFICES ASSUME loss # NoLoss, ~backfill,
                          NEW i \in DOMAIN happened', i <= upto, ~Early(i)', Fits(happened'[i], loss)
                   PROVE  Told(loss, i)'
      BY DEF Heeded, Fits
    <3>2. i \in DOMAIN happened /\ happened'[i] = happened[i]
      BY <2>2, <2>5, <3>1
    <3>3. ~Early(i)
      BY <2>2, <3>1, <3>2 DEF Early
    <3>4. Told(loss, i)
      BY <2>5, <3>1, <3>2, <3>3 DEF Heeded
    <3> QED
      BY <3>2, <3>4 DEF Told
  <2>6. live.cursor \in Nat /\ disk.cursor \in Nat
    BY <1>2 DEF CauseInv, LossTypes, LossSnapshot
  <2>7. live'.cursor <= Len(happened') /\ disk'.cursor <= Len(happened')
    BY <1>2, <2>2, <2>3, <2>6 DEF CauseInv
  <2>8. row' = NoLoss => /\ Heeded(live.pending, live.cursor, live.backfill)'
                         /\ Heeded(disk.pending, disk.cursor, disk.backfill)'
    BY <1>2, <2>3, <2>5, <2>6 DEF CauseInv
  <2>9. ram'.loaded /\ ~overlaid' => Heeded(Known, live.cursor, live.backfill)'
    BY <1>2, <2>3, <2>5, <2>6 DEF CauseInv, Known
  <2> QED
    BY <1>2, <2>3, <2>4, <2>7, <2>8, <2>9 DEF CauseInv, Sound, Seen, MemoryAsRow, AheadOfRow, Outlived, Alike, Open
<1> QED
    BY <1>1, <1>2

LEMMA CauseInit == LossInit => CauseInv
<1> SUFFICES ASSUME LossInit PROVE CauseInv
    OBVIOUS
<1>1. EmptySnapshot \in LossSnapshot /\ EmptySnapshot.pending = NoLoss /\ EmptySnapshot.cursor = 0
      /\ EmptySnapshot.verified = NoLoss
    BY DEF EmptySnapshot, LossSnapshot, MaybeLoss, Sighting
<1>2. Restarted \in Memory /\ ~Restarted.loaded /\ Restarted.losses = NoLoss /\ Restarted.durable = NoLoss
    BY DEF Restarted, Memory, MaybeLoss
<1>3. LossTypes /\ Len(happened) = 0
  <2>1. PICK sailing \in {0, 1}, others \in BOOLEAN :
           sea = [hull |-> "afloat", fate |-> "unknown", voyage |-> sailing, now |-> 1,
                  struck |-> FALSE, paid |-> FALSE, others |-> others]
    BY DEF LossInit
  <2>2. sea \in Waters
    BY <2>1 DEF Waters
  <2>3. happened \in Seq(HullEvent) /\ Len(happened) = 0
    BY DEF LossInit
  <2> QED
    BY <1>1, <1>2, <2>2, <2>3 DEF LossInit, LossTypes, Waters, Memory, MaybeLoss
<1> QED
    BY <1>1, <1>2, <1>3 DEF LossInit, CauseInv, Heeded, Sound, Seen

\* The invariant of the loss rows and the event cursor, through failed loads,
\* reads and writes, lost answers and crashes between the row and the snapshot.
THEOREM CauseInvHolds == LossSpec => []CauseInv
<1>1. CauseInv /\ [LossNext]_lossvars => CauseInv'
  <2>1. ASSUME CauseInv, UNCHANGED lossvars PROVE CauseInv'
    BY <2>1 DEF lossvars, CauseInv, LossTypes, Heeded, Early, Told, Fits, Sound, Seen, Known, MemoryAsRow, AheadOfRow,
             Outlived, Alike, Open
  <2> QED
    BY <2>1, ObserveKeeps, SnapshotKeeps, WorldKeeps DEF LossNext
<1> QED
    BY <1>1, CauseInit, PTL DEF LossSpec

\* An event that explains a lost hull is in its row or is still going to be read
\* for it: observeShipLosses and SaveShipLosses, committed apart.
THEOREM NoCauseForgottenHolds == LossSpec => []NoCauseForgotten
<1>1. CauseInv => NoCauseForgotten
  <2> SUFFICES ASSUME CauseInv, NEW i \in DOMAIN happened,
                      Open(row), ~overlaid, ~Early(i), Fits(happened[i], row),
                      ram.loaded, ~live.backfill, ~(i > live.cursor), live.pending = NoLoss
               PROVE  Told(row, i)
    BY DEF NoCauseForgotten
  <2>1. Alike(ram.losses, row) /\ Heeded(ram.losses, live.cursor, live.backfill)
    BY DEF CauseInv, MemoryAsRow, Known
  <2>2. Heeded(row, live.cursor, live.backfill)
    BY <2>1, AlikeHeeds DEF CauseInv
  <2>3. i <= live.cursor
    BY LenProperties DEF CauseInv, LossTypes, LossSnapshot
  <2> QED
    BY <2>2, <2>3 DEF Heeded, Open
<1> QED
    BY <1>1, CauseInvHolds, PTL
=============================================================================
