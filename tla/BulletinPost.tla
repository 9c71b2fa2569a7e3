---------------------------- MODULE BulletinPost ----------------------------
(***************************************************************************)
(* Posting on the public board: driveBulletin, consumeBulletinResult,      *)
(* completeBulletinPost and reconcileBulletin of internal/engine/bulletin.go*)
(* for one company, its own openings and its replies in one foreign thread.*)
(* A post is an immutable intent with one idempotency key; when its answer *)
(* is lost the board is read page by page before the key is sent again.    *)
(* The schedule and the mission are committed in separate steps, so a crash *)
(* falls between any two actions and inside Complete.                      *)
(***************************************************************************)
EXTENDS Integers, FiniteSets, FiniteSetsExt

CONSTANTS
    NoPost,         \* no mission, no scan
    Topics,         \* the notable items of the world
    DayLength,      \* bulletinInterval; a retry delay is one unit
    DailyReplies,   \* bulletinDailyReplies
    ReplayWindow,   \* how long a key may be sent again
    MaxHour, MaxLost

\* A post on the board; the __bulletin mission with its request.
Posts == [key : Nat \ {0}, kind : {"thread", "reply"}, topic : Topics \cup {NoPost}, at : Nat]
Missions ==
    [kind : {"thread", "reply"}, topic : Topics \cup {NoPost}, notBefore : Nat, before : SUBSET Nat, key : Nat \ {0},
     sent : {"unsent", "again", "ambiguous", "complete", "posted", "refused"}, at : Nat, cool : Nat, pending : BOOLEAN,
     scan : {NoPost} \cup [due : SUBSET Posts, found : SUBSET Posts], done : BOOLEAN]

ASSUME BulletinAssumption ==
    /\ {DayLength, DailyReplies, ReplayWindow, MaxHour, MaxLost} \subseteq Nat
    /\ NoPost \notin Missions

VARIABLES
    hour,
    board,          \* our posts, and when the others last wrote in the thread
    wire,           \* the key whose request may still be applied, or 0
    sched,          \* bulletinState, the "_bulletin" row of the snapshot
    post,           \* the __bulletin mission and its journalled request
    lost            \* refusals, lost answers and failed reads so far

btvars == <<hour, board, wire, sched, post, lost>>

BulletinInit ==
    /\ hour = 1 /\ wire = 0 /\ post = NoPost /\ lost = 0
    /\ board = [own |-> {}, talk |-> 0]
    /\ sched = [due |-> 0, cool |-> 0, replyCheck |-> 0, outcome |-> 0, keys |-> 0,
                discussed |-> {}, replyTimes |-> {}, total |-> 0]

Later(a, b) == IF a > b THEN a ELSE b
OwnReplies == {p \in board.own : p.kind = "reply"}
LastOwn == Max({p.at : p \in OwnReplies} \cup {0})
Recent == {t \in sched.replyTimes : t > hour - DayLength}

-----------------------------------------------------------------------------
\* The intent names what it may be confused with: earlier posts and their time.
Stage(kind, topic) ==
    /\ post' = [kind |-> kind, topic |-> topic, notBefore |-> hour, before |-> {p.key : p \in board.own},
                key |-> sched.keys + 1, sent |-> "unsent", at |-> hour, cool |-> 0, pending |-> FALSE,
                scan |-> NoPost, done |-> FALSE]
    /\ sched' = [sched EXCEPT !.keys = @ + 1]
    /\ UNCHANGED <<hour, board, wire, lost>>
Idle == post = NoPost /\ hour >= sched.cool
OpeningDue == hour >= sched.due
\* A topic stays discussed for as long as the world shows it.
NewTopics == Topics \ sched.discussed
StageThread == Idle /\ OpeningDue /\ \E topic \in NewTopics : Stage("thread", topic)

\* bulletinRelevance: somebody wrote after us, and this thread has room for us.
Relevant ==
    /\ board.talk > LastOwn /\ Cardinality(OwnReplies) < 2
    /\ OwnReplies # {} => hour >= LastOwn + DayLength
RepliesAvailable == Cardinality(Recent) < DailyReplies
StageReply ==
    /\ Idle /\ hour >= sched.replyCheck /\ RepliesAvailable
    /\ OpeningDue => NewTopics = {}
    /\ \/ Relevant /\ Stage("reply", NoPost)
       \/ ~Relevant /\ sched' = [sched EXCEPT !.replyCheck = hour + 1] /\ UNCHANGED <<hour, board, wire, post, lost>>
\* A read that failed costs the board a pause and nothing else.
ReadFails == Idle /\ lost < MaxLost /\ lost' = lost + 1 /\ sched' = [sched EXCEPT !.cool = hour + 1]
             /\ UNCHANGED <<hour, board, wire, post>>

\* dispatch: an unresolved request is sent again only after the board was read
\* to its end without finding the post, and only inside the replay window.
Sendable == post # NoPost /\ ~post.done /\ hour >= Later(post.cool, sched.cool)
            /\ post.sent \in {"unsent", "again"} /\ hour < post.at + ReplayWindow
Applied(own, key) ==
    IF \E p \in own : p.key = key THEN own
    ELSE own \cup {[key |-> key, kind |-> post.kind, topic |-> post.topic, at |-> hour]}
Answered ==
    /\ Sendable /\ post' = [post EXCEPT !.sent = "posted"]
    /\ board' = [board EXCEPT !.own = Applied(@, post.key)] /\ wire' = 0 /\ UNCHANGED <<hour, sched, lost>>
\* A success whose body does not show the post is looked up on the board.
AnsweredOddly ==
    /\ Sendable /\ lost < MaxLost /\ lost' = lost + 1
    /\ post' = [post EXCEPT !.sent = "complete", !.pending = TRUE]
    /\ board' = [board EXCEPT !.own = Applied(@, post.key)] /\ wire' = 0 /\ UNCHANGED <<hour, sched>>
AnswerLost ==
    /\ Sendable /\ lost < MaxLost /\ lost' = lost + 1 /\ wire' = post.key
    /\ post' = [post EXCEPT !.sent = "ambiguous", !.cool = hour + 1]
    /\ sched' = [sched EXCEPT !.cool = Later(@, hour + 1)] /\ UNCHANGED <<hour, board>>
\* A refusal proves that this key was not and will not be posted.
Refused ==
    /\ Sendable /\ ~(\E p \in board.own : p.key = post.key) /\ lost < MaxLost /\ lost' = lost + 1
    /\ post' = [post EXCEPT !.sent = "refused"] /\ wire' = 0 /\ UNCHANGED <<hour, board, sched>>
LateApplied ==
    /\ wire # 0 /\ wire' = 0 /\ post # NoPost
    /\ board' = [board EXCEPT !.own = Applied(@, wire)] /\ UNCHANGED <<hour, sched, post, lost>>

\* completeBulletinPost: the schedule first, then the mission.
RecordAgain(p) ==
    IF p.kind = "thread"
    THEN [sched EXCEPT !.outcome = post.key, !.cool = 0, !.due = Later(hour, p.at) + DayLength, !.discussed = @ \cup {p.topic}]
    ELSE [sched EXCEPT !.outcome = post.key, !.cool = 0, !.replyTimes = Recent \cup {p.at}, !.total = @ + 1, !.replyCheck = 0]
RecordUnspaced(p) ==
    IF sched.outcome = post.key THEN sched
    ELSE [sched EXCEPT !.outcome = post.key, !.cool = 0, !.discussed = @ \cup {p.topic}, !.total = @ + (IF p.kind = "reply" THEN 1 ELSE 0)]
Record(p) ==
    IF sched.outcome = post.key THEN sched
    ELSE IF p.kind = "thread"
    THEN [sched EXCEPT !.outcome = post.key, !.cool = 0, !.due = Later(hour, p.at) + DayLength, !.discussed = @ \cup {p.topic}]
    ELSE [sched EXCEPT !.outcome = post.key, !.cool = 0, !.replyTimes = Recent \cup {p.at}, !.total = @ + 1, !.replyCheck = 0]
Finish == post' = [post EXCEPT !.done = TRUE]
Complete(p) == sched' = Record(p) /\ (Finish \/ post' = [post EXCEPT !.sent = "posted"])
Matches(p) == p.kind = post.kind /\ p.topic = post.topic /\ p.at >= post.notBefore /\ p.key \notin post.before
Consume ==
    /\ post # NoPost /\ ~post.done /\ UNCHANGED <<hour, board, wire, lost>>
    /\ \/ post.sent = "posted" /\ \E p \in board.own : Matches(p) /\ Complete(p)
       \/ /\ post.sent = "refused" /\ Finish
          /\ sched' = IF sched.outcome = post.key THEN sched
                      ELSE [sched EXCEPT !.outcome = post.key,
                                         !.cool = IF post.kind = "thread" THEN Later(@, hour + 1) ELSE @]
DeleteDone ==
    /\ post # NoPost /\ post.done /\ post' = NoPost /\ UNCHANGED <<hour, board, wire, sched, lost>>

\* reconcileBulletin, page by page: what was posted before the scan began is
\* found by its last page, what is posted meanwhile may be missed.
Reconcilable == post # NoPost /\ ~post.done /\ post.sent \in {"ambiguous", "complete"} /\ hour >= post.cool
ScanPage ==
    /\ Reconcilable
    /\ LET seen == {p \in board.own : Matches(p)}
           due == IF post.scan = NoPost THEN seen ELSE post.scan.due
           had == IF post.scan = NoPost THEN {} ELSE post.scan.found
       IN  \E found \in {had \cup s : s \in SUBSET seen}, end \in BOOLEAN :
             /\ end => due \subseteq found
             /\ post.kind = "reply" => end
             /\ \/ /\ ~end /\ post' = [post EXCEPT !.scan = [due |-> due, found |-> found], !.cool = hour + 1]
                   /\ sched' = [sched EXCEPT !.cool = Later(@, hour + 1)]
                \/ /\ end /\ found = {} /\ UNCHANGED sched
                   /\ post' = [post EXCEPT !.scan = NoPost, !.cool = hour + 1,
                                           !.sent = IF @ = "ambiguous" THEN "again" ELSE @]
                \/ end /\ \E p \in found : Complete(p)
    /\ UNCHANGED <<hour, board, wire, lost>>

HourPasses == hour < MaxHour /\ hour' = hour + 1 /\ UNCHANGED <<board, wire, sched, post, lost>>
OthersWrite == board.talk < hour /\ board' = [board EXCEPT !.talk = hour] /\ UNCHANGED <<hour, wire, sched, post, lost>>

BulletinNext ==
    \/ StageThread \/ StageReply \/ ReadFails \/ Answered \/ AnsweredOddly \/ AnswerLost \/ Refused \/ LateApplied
    \/ Consume \/ DeleteDone \/ ScanPage \/ HourPasses \/ OthersWrite
BulletinSpec == BulletinInit /\ [][BulletinNext]_btvars

-----------------------------------------------------------------------------
\* The board never sees us too often, whatever was lost and found again: our
\* openings and our replies are each a day apart, and a thread has two of ours.
CadenceKept ==
    /\ \A p, q \in board.own : p.key # q.key /\ p.kind = q.kind => (p.at >= q.at + DayLength \/ q.at >= p.at + DayLength)
    /\ Cardinality(OwnReplies) <= 2

\* When no request is open, the schedule knows each of our posts exactly once.
PostsCounted ==
    post = NoPost => /\ sched.total = Cardinality(OwnReplies)
                     /\ {p.topic : p \in board.own \ OwnReplies} \subseteq sched.discussed
=============================================================================
