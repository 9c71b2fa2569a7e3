----------------------------- MODULE ReplayTape -----------------------------
(***************************************************************************)
(* internal/store/replay.go and replay_backfill.go: the frames of the tape *)
(* and the payloads they share.  Two writers (the live recorder and the    *)
(* backfill) record frames in transactions while pruning deletes old       *)
(* frames and then payloads nobody has named for long.  A payload's        *)
(* last_seen_at is moved only when it lags by more than Slack.  Locks are   *)
(* PostgreSQL's: KEY SHARE on the payloads a frame names holds off the     *)
(* DELETE of pruning, which then looks at the row again.  Contents,         *)
(* encryption and redaction are not told apart; a payload is its digest.   *)
(***************************************************************************)
EXTENDS Naturals, FiniteSets, FiniteSetsExt

CONSTANTS
    Writers, Digests,
    MaxTime, MaxFrames,     \* bounds
    Slack                   \* replayLastSeenSlack

ASSUME TapeAssumption == {MaxTime, MaxFrames, Slack} \subseteq Nat

VARIABLES
    tf,         \* replay_frames: when observed and the digests each names
    tp,         \* replay_payloads: last_seen_at of each digest, or Gone
    tx,         \* the transaction of each writer
    pn          \* the pruning under way, and the highest cutoff so far

tvars == <<tf, tp, tx, pn>>

Gone == MaxTime + Slack + 1
NoFrameTx == [at |-> 0, names |-> {}, locked |-> {}, mine |-> {}, step |-> "none"]

TapeInit ==
    /\ tf = {} /\ tp = [d \in Digests |-> Gone]
    /\ tx = [w \in Writers |-> NoFrameTx]
    /\ pn = [step |-> "none", cutoff |-> 0, cut |-> 0, left |-> {}]

Stored == {d \in Digests : tp[d] # Gone}

-----------------------------------------------------------------------------
(* recordReplayFrame *)

\* The row, and KEY SHARE locks on the payloads that exist.
BeginFrame(w) ==
    /\ tx[w].step = "none" /\ Cardinality(tf) < MaxFrames
    /\ \E at \in 0..MaxTime, names \in SUBSET Digests \ {{}} :
          tx' = [tx EXCEPT ![w] = [at |-> at, names |-> names, locked |-> names \cap Stored, mine |-> {},
                                   step |-> "insert"]]
    /\ UNCHANGED <<tf, tp, pn>>

Inserting(w) == UNION {tx[v].mine : v \in Writers \ {w}}

\* ON CONFLICT DO NOTHING waits for another's uncommitted row; then every name
\* is locked, or one disappeared and the capture fails.
InsertPayloads(w) ==
    LET missing == tx[w].names \ tx[w].locked
    IN  /\ tx[w].step = "insert" /\ missing \cap Inserting(w) = {}
        /\ tx' = [tx EXCEPT ![w].locked = tx[w].names, ![w].mine = missing \ Stored, ![w].step = "touch"]
        /\ UNCHANGED <<tf, tp, pn>>

\* The last_seen_at of a payload follows the frame, unless it is within Slack.
Touched(seen, at) == IF seen + Slack < at THEN at ELSE seen

CommitFrame(w) ==
    /\ tx[w].step = "touch"
    /\ tp' = [d \in Digests |-> IF d \in tx[w].mine THEN tx[w].at
                                ELSE IF d \in tx[w].names THEN Touched(tp[d], tx[w].at) ELSE tp[d]]
    /\ tf' = tf \cup {[at |-> tx[w].at, names |-> tx[w].names]}
    /\ tx' = [tx EXCEPT ![w] = NoFrameTx]
    /\ UNCHANGED <<pn>>

AbortFrame(w) ==
    /\ tx[w].step # "none"
    /\ tx' = [tx EXCEPT ![w] = NoFrameTx]
    /\ UNCHANGED <<tf, tp, pn>>

-----------------------------------------------------------------------------
(* PruneReplay *)

\* Frames before the cutoff of retention, or of the size cap.
PruneFrames ==
    /\ pn.step = "none"
    /\ \E c \in 1..MaxTime :
          /\ tf' = {f \in tf : f.at >= c}
          /\ pn' = [step |-> "payloads", cutoff |-> c, cut |-> Max({pn.cut, c}), left |-> {}]
    /\ UNCHANGED <<tp, tx>>

\* The payloads unseen for Slack longer.
EagerlyStale(d) == tp[d] # Gone /\ tp[d] < pn.cutoff
StaleFrame(d) == tp[d] # Gone /\ tp[d] + Slack < pn.cutoff

PruneCandidates ==
    /\ pn.step = "payloads"
    /\ pn' = [pn EXCEPT !.step = "delete", !.left = {d \in Digests : StaleFrame(d)}]
    /\ UNCHANGED <<tf, tp, tx>>

\* One row: the DELETE waits for its lock and looks at last_seen_at again.
PrunePayload ==
    /\ pn.step = "delete"
    /\ \E d \in pn.left : /\ \A w \in Writers : d \notin tx[w].locked
                          /\ tp' = IF StaleFrame(d) THEN [tp EXCEPT ![d] = Gone] ELSE tp
                          /\ pn' = [pn EXCEPT !.left = @ \ {d}]
    /\ UNCHANGED <<tf, tx>>

PruneEnds ==
    /\ pn.step = "delete" /\ pn.left = {}
    /\ pn' = [pn EXCEPT !.step = "none"]
    /\ UNCHANGED <<tf, tp, tx>>

TapeNext ==
    \/ \E w \in Writers : BeginFrame(w) \/ InsertPayloads(w) \/ CommitFrame(w) \/ AbortFrame(w)
    \/ PruneFrames \/ PruneCandidates \/ PrunePayload \/ PruneEnds

TapeSpec == TapeInit /\ [][TapeNext]_tvars

-----------------------------------------------------------------------------
(* Properties *)

\* A frame no pruning was meant to reach can be read whole: every payload its
\* manifest names is there, although the payload may have been seen last up to
\* Slack before the frame and recording runs beside pruning.
TapeWhole == \A f \in tf : f.at >= pn.cut => f.names \subseteq Stored

\* Why it holds.  What a frame names was seen at most Slack before it, and only
\* one that is seen further back goes.
SeenLately == \A f \in tf : f.at >= pn.cut => \A d \in f.names : tp[d] # Gone /\ tp[d] + Slack >= f.at
\* A transaction holds what it found or inserts; nobody else names the latter.
TransactionsHold ==
    \A w \in Writers :
      /\ tx[w].locked \subseteq tx[w].names
      /\ tx[w].mine = tx[w].locked \ Stored
      /\ IF tx[w].step = "touch" THEN tx[w].locked = tx[w].names ELSE tx[w].mine = {}
      /\ \A v \in Writers \ {w} : tx[v].mine \cap tx[w].locked = {}
TapeTypes ==
    /\ tf \subseteq [at : 0..MaxTime, names : SUBSET Digests]
    /\ tp \in [Digests -> 0..MaxTime \cup {Gone}]
    /\ tx \in [Writers -> [at : 0..MaxTime, names : SUBSET Digests, locked : SUBSET Digests, mine : SUBSET Digests,
                           step : {"none", "insert", "touch"}]]
    /\ pn \in [step : {"none", "payloads", "delete"}, cutoff : Nat, cut : Nat, left : SUBSET Digests]
    /\ pn.cutoff <= pn.cut
TapeInv == TapeTypes /\ SeenLately /\ TransactionsHold
=============================================================================
