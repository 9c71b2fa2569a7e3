----------------------------- MODULE EventStream ----------------------------
(***************************************************************************)
(* The account runner's loop (internal/engine/runner.go Run), the stream   *)
(* goroutine that feeds it (internal/gameapi/stream.go), the durable event *)
(* cursor (internal/store/telemetry.go) and the fences that keep a         *)
(* mutation from being sent on a capture that an event has overtaken       *)
(* (internal/engine/journal.go stageAction, dispatch).                     *)
(*                                                                         *)
(* Upstream events are numbered; the number stands for the opaque event    *)
(* ID.  A "cash" event is a financial event or passengers_boarded, an      *)
(* "auth" event is auth_revoked or auth_expired.  A REST capture shows at  *)
(* least what had happened when it began.  One mission's intent stands for *)
(* all: absent, staged without a journal row, or pending in the journal.   *)
(***************************************************************************)
EXTENDS Integers, Sequences, FiniteSets

CONSTANTS
    QueueCap,       \* capacity of the messages channel, 256
    MaxEvents,      \* bound on upstream events
    MaxBreaks,      \* bound on connections that end by themselves
    MaxSessions,    \* bound on runner starts
    EventKinds      \* the kinds of events the upstream emits

ASSUME StreamAssumption ==
    /\ {QueueCap, MaxEvents, MaxBreaks, MaxSessions} \subseteq Nat /\ QueueCap > 0
    /\ EventKinds \subseteq {"plain", "cash", "auth"}

VARIABLES
    \* the upstream
    log,        \* the kinds of the events so far
    kept,       \* events 1..kept are no longer retained
    \* the stream goroutine
    spc, spos,  \* where it stands, the last event it read (first the requested one)
    hand,       \* the message it is about to enqueue
    breaks,
    pubC, pubF, \* publishedControl, publishedFinancial
    queue,      \* messages
    \* the runner
    rpc, todo,  \* where the loop stands, messages left to drain
    hC, hF,     \* handledControl, handledFinancial
    capC, capF, \* capturedControl, capturedFinancial
    capAt,      \* events the capture is sure to show
    due,        \* reconnectAt is set
    session,    \* financialSession
    \* the store
    cursor,     \* the stored event ID, 0 for the origin, Unset
    cursorSeq,  \* its event_sequence
    rowId,      \* local row ID of each recorded event, 0 for none
    intent,     \* the persisted action and its stamps
    \* history
    floor,      \* events the upstream never offered
    cashSeen    \* cash events some stream callback has received

Unset == -1

streamVars == <<spc, spos, hand, breaks, pubC, pubF, queue>>
loopVars   == <<rpc, todo, hC, hF, capC, capF, capAt, due, session>>
cursorVars == <<cursor, cursorSeq, rowId>>
esvars     == <<log, kept, streamVars, loopVars, cursorVars, intent, floor, cashSeen>>

Event     == 1..MaxEvents
\* Only what stands for an upstream event has a number.
Message   == {m \in [kind : {"none", "plain", "cash", "auth", "gap", "closed", "refused"},
                     id : 0..MaxEvents, c : Nat, f : Nat] :
                m.id # 0 <=> m.kind \in {"plain", "cash", "auth"}}
NoMessage == [kind |-> "none", id |-> 0, c |-> 0, f |-> 0]
NoIntent  == [state |-> "none", session |-> 0, c |-> 0, f |-> 0, at |-> 0]
Intent    == [state : {"none", "staged", "pending"}, session : 0..MaxSessions, c : Nat, f : Nat, at : 0..MaxEvents]

StreamTypeOK ==
    /\ log \in Seq(EventKinds) /\ Len(log) <= MaxEvents
    /\ kept \in 0..Len(log)
    /\ spc \in {"off", "handshake", "open", "enqueue", "ending", "enqueueClosed"}
    /\ spos \in Unset..MaxEvents /\ hand \in Message /\ breaks \in 0..MaxBreaks
    /\ pubC \in Nat /\ pubF \in Nat /\ hC \in Nat /\ hF \in Nat /\ capC \in Nat /\ capF \in Nat
    /\ queue \in Seq(Message) /\ Len(queue) <= QueueCap
    /\ rpc \in {"down", "stopped", "wait", "drain", "refresh", "recheck", "work", "save"}
    /\ todo \in 0..Len(queue) /\ capAt \in 0..MaxEvents /\ due \in BOOLEAN /\ session \in 0..MaxSessions
    /\ cursor \in Event \cup {0, Unset} /\ cursorSeq \in Nat /\ rowId \in [Event -> Nat]
    /\ intent \in Intent
    /\ floor \in 0..MaxEvents /\ cashSeen \subseteq Event

StreamInit ==
    /\ log = <<>> /\ kept = 0
    /\ spc = "off" /\ spos = 0 /\ hand = NoMessage /\ breaks = 0
    /\ pubC = 0 /\ pubF = 0 /\ queue = <<>>
    /\ rpc = "down" /\ todo = 0 /\ hC = 0 /\ hF = 0 /\ capC = 0 /\ capF = 0 /\ capAt = 0
    /\ due = FALSE /\ session = 0
    /\ cursor = Unset /\ cursorSeq = 0 /\ rowId = [e \in Event |-> 0]
    /\ intent = NoIntent /\ floor = 0 /\ cashSeen = {}

-----------------------------------------------------------------------------
(* The upstream (external) *)

Emit(k) ==
    /\ Len(log) < MaxEvents
    /\ log' = Append(log, k)
    /\ UNCHANGED <<kept, streamVars, loopVars, cursorVars, intent, floor, cashSeen>>

ForgetEvents ==
    /\ kept < Len(log)
    /\ kept' = kept + 1
    /\ UNCHANGED <<log, streamVars, loopVars, cursorVars, intent, floor, cashSeen>>

-----------------------------------------------------------------------------
(* The stream goroutine *)

\* The connection opens: at the next event when no cursor was sent, at the
\* oldest retained one for the origin, else after the cursor.
Handshake ==
    /\ spc = "handshake"
    /\ spc' = "open"
    /\ spos' = CASE spos = Unset -> Len(log) [] spos = 0 -> kept [] OTHER -> spos
    /\ floor' = IF spos \in {0, Unset} /\ floor < spos' THEN spos' ELSE floor
    /\ UNCHANGED <<log, kept, hand, breaks, pubC, pubF, queue, loopVars, cursorVars, intent, cashSeen>>

\* A frame arrives: its epoch is published before the message is queued.
Deliver ==
    /\ spc = "open" /\ spos >= kept /\ spos < Len(log)
    /\ LET e == spos + 1 IN
       /\ spos' = e
       /\ pubC' = IF log[e] = "auth" THEN pubC + 1 ELSE pubC
       /\ pubF' = IF log[e] = "cash" THEN pubF + 1 ELSE pubF
       /\ hand' = [kind |-> log[e], id |-> e,
                   c |-> IF log[e] = "auth" THEN pubC' ELSE 0,
                   f |-> IF log[e] = "cash" THEN pubF' ELSE 0]
       /\ cashSeen' = IF log[e] = "cash" THEN cashSeen \cup {e} ELSE cashSeen
    /\ spc' = "enqueue"
    /\ UNCHANGED <<log, kept, breaks, queue, loopVars, cursorVars, intent, floor>>

\* The event after the cursor is no longer retained.
DeliverGap ==
    /\ spc = "open" /\ spos < kept
    /\ pubC' = pubC + 1
    /\ hand' = [kind |-> "gap", id |-> 0, c |-> pubC', f |-> 0]
    /\ spc' = "enqueue"
    /\ UNCHANGED <<log, kept, spos, breaks, pubF, queue, loopVars, cursorVars, intent, floor, cashSeen>>

\* The connection ends, or the handshake fails: refused is HTTP 401 or 403.
Break ==
    /\ spc \in {"handshake", "open"} /\ breaks < MaxBreaks
    /\ breaks' = breaks + 1
    /\ spc' = "ending"
    /\ \E k \in {"closed", "refused"} :
          /\ k = "refused" => spc = "handshake"
          /\ hand' = [NoMessage EXCEPT !.kind = k]
    /\ UNCHANGED <<log, kept, spos, pubC, pubF, queue, loopVars, cursorVars, intent, floor, cashSeen>>

\* Stream has returned.
PublishClosed ==
    /\ spc = "ending"
    /\ pubC' = pubC + 1
    /\ hand' = [kind |-> IF hand.kind = "refused" THEN "refused" ELSE "closed", id |-> 0, c |-> pubC', f |-> 0]
    /\ spc' = "enqueueClosed"
    /\ UNCHANGED <<log, kept, spos, breaks, pubF, queue, loopVars, cursorVars, intent, floor, cashSeen>>

\* Mutant: the cursor is advanced when the frame is received.
EnqueueAdvancingCursor ==
    /\ spc \in {"enqueue", "enqueueClosed"} /\ Len(queue) < QueueCap
    /\ queue' = Append(queue, hand) /\ hand' = NoMessage
    /\ cursor' = IF hand.id # 0 THEN hand.id ELSE cursor
    /\ spc' = IF spc = "enqueueClosed" THEN "off" ELSE IF hand.c # 0 THEN "ending" ELSE "open"
    /\ UNCHANGED <<log, kept, spos, breaks, pubC, pubF, loopVars, cursorSeq, rowId, intent, floor, cashSeen>>

\* The message is queued, once there is room; after a control the callback
\* ends the stream.
Enqueue ==
    /\ spc \in {"enqueue", "enqueueClosed"} /\ Len(queue) < QueueCap
    /\ queue' = Append(queue, hand) /\ hand' = NoMessage
    /\ spc' = IF spc = "enqueueClosed" THEN "off" ELSE IF hand.c # 0 THEN "ending" ELSE "open"
    /\ UNCHANGED <<log, kept, spos, breaks, pubC, pubF, loopVars, cursorVars, intent, floor, cashSeen>>

-----------------------------------------------------------------------------
(* The store *)

\* RecordEvent: the event once, and the cursor forward in local row order.
RecordEvent(e) ==
    LET row == IF rowId[e] # 0 THEN rowId[e] ELSE 1 + Cardinality({x \in Event : rowId[x] # 0}) IN
    /\ rowId' = [rowId EXCEPT ![e] = row]
    /\ IF cursor = Unset \/ cursorSeq < row
       THEN cursor' = e /\ cursorSeq' = row
       ELSE UNCHANGED <<cursor, cursorSeq>>

ResetCursor ==
    /\ cursor' = 0 /\ cursorSeq' = 0
    /\ UNCHANGED rowId

-----------------------------------------------------------------------------
(* The runner's loop *)

\* The stream starts from the stored cursor.
StartStream ==
    /\ spc' = "handshake" /\ spos' = cursor /\ hand' = NoMessage

\* The epochs live in the memory of one run.
ForgetEpochs ==
    /\ hC' = 0 /\ hF' = 0 /\ capC' = 0 /\ capF' = 0 /\ capAt' = 0
    /\ pubC' = 0 /\ pubF' = 0

\* A supervised run: fresh in-memory state, stream before the first capture.
Start ==
    /\ rpc = "down" /\ session < MaxSessions
    /\ session' = session + 1
    /\ rpc' = "wait" /\ todo' = 0 /\ due' = FALSE
    /\ queue' = <<>> /\ ForgetEpochs
    /\ StartStream
    /\ UNCHANGED <<log, kept, breaks, cursorVars, intent, floor, cashSeen>>

\* The process dies, or Run returns an error that the supervisor retries;
\* the stream's context is cancelled and the queue is gone.
Halt(where) ==
    /\ rpc' = where /\ todo' = 0 /\ due' = FALSE
    /\ spc' = "off" /\ spos' = 0 /\ hand' = NoMessage /\ queue' = <<>>
    /\ ForgetEpochs
    /\ UNCHANGED <<breaks, session>>

Crash ==
    /\ rpc \notin {"down", "stopped"} /\ session < MaxSessions
    /\ Halt("down")
    /\ UNCHANGED <<log, kept, cursorVars, intent, floor, cashSeen>>

\* A message or the timer ends the wait; what is queued now is drained first.
Wake ==
    /\ rpc = "wait"
    /\ rpc' = "drain" /\ todo' = Len(queue)
    /\ UNCHANGED <<log, kept, streamVars, hC, hF, capC, capF, capAt, due, session, cursorVars, intent, floor, cashSeen>>

\* closed: a reconnect is scheduled.
HandleClosed(m) ==
    /\ m.kind = "closed"
    /\ due' = TRUE
    /\ UNCHANGED cursorVars

HandleGap(m) ==
    /\ m.kind = "gap"
    /\ ResetCursor
    /\ UNCHANGED due

HandleEvent(m) ==
    /\ m.kind \in {"plain", "cash"}
    /\ RecordEvent(m.id)
    /\ UNCHANGED due

\* Mutant: only gaps and closed streams advance the handled epochs.
HandleMessageLosingFinancial ==
    /\ rpc \in {"drain", "recheck"} /\ todo > 0
    /\ LET m == Head(queue) IN
       /\ queue' = Tail(queue) /\ todo' = todo - 1
       /\ hC' = IF m.c # 0 THEN m.c ELSE hC
       /\ HandleClosed(m) \/ HandleGap(m) \/ HandleEvent(m)
    /\ UNCHANGED <<log, kept, spc, spos, hand, breaks, pubC, pubF, rpc, hF, capC, capF, capAt, session, intent, floor, cashSeen>>

\* handleMessage, for all that does not end the run.
HandleMessage ==
    /\ rpc \in {"drain", "recheck"} /\ todo > 0
    /\ LET m == Head(queue) IN
       /\ queue' = Tail(queue) /\ todo' = todo - 1
       /\ hC' = IF m.c # 0 THEN m.c ELSE hC
       /\ hF' = IF m.f # 0 THEN m.f ELSE hF
       /\ HandleClosed(m) \/ HandleGap(m) \/ HandleEvent(m)
    /\ UNCHANGED <<log, kept, spc, spos, hand, breaks, pubC, pubF, rpc, capC, capF, capAt, session, intent, floor, cashSeen>>

\* ErrAuthorizationEnded, or a refused stream: the supervisor gives up.
HandleAuthorizationEnded ==
    /\ rpc \in {"drain", "recheck"} /\ todo > 0
    /\ Head(queue).kind \in {"auth", "refused"}
    /\ Halt("stopped")
    /\ UNCHANGED <<log, kept, cursorVars, intent, floor, cashSeen>>

\* The capture answers for what has been handled, not for what is queued.
CaptureEpochs ==
    /\ capC' = hC /\ capF' = hF

\* A due reconnect, then the epochs, then the REST capture begins.
Capture ==
    /\ rpc = "drain" /\ todo = 0
    /\ \/ due /\ spc = "off" /\ StartStream /\ due' = FALSE
       \/ UNCHANGED <<spc, spos, hand, due>>   \* none due, or not yet
    /\ CaptureEpochs
    /\ capAt' = Len(log)
    /\ rpc' = "refresh"
    /\ UNCHANGED <<log, kept, breaks, pubC, pubF, queue, todo, hC, hF, session, cursorVars, intent, floor, cashSeen>>

RefreshDone ==
    /\ rpc = "refresh"
    /\ rpc' = "recheck" /\ todo' = Len(queue)
    /\ UNCHANGED <<log, kept, streamVars, hC, hF, capC, capF, capAt, due, session, cursorVars, intent, floor, cashSeen>>

ControlCurrent == capC = hC /\ hC = pubC
FundsCurrent   == capF = hF /\ hF = pubF

\* A control overtook the capture: no work, capture again at once.
CaptureOvertaken ==
    /\ rpc = "recheck" /\ todo = 0 /\ ~ControlCurrent
    /\ rpc' = "wait"
    /\ UNCHANGED <<log, kept, streamVars, todo, hC, hF, capC, capF, capAt, due, session, cursorVars, intent, floor, cashSeen>>

\* Stale funds, or identity datasets that could not be read: hold, no work.
HoldWork ==
    /\ rpc = "recheck" /\ todo = 0 /\ ControlCurrent
    /\ rpc' = "save"
    /\ UNCHANGED <<log, kept, streamVars, todo, hC, hF, capC, capF, capAt, due, session, cursorVars, intent, floor, cashSeen>>

BeginWork ==
    /\ rpc = "recheck" /\ todo = 0 /\ ControlCurrent /\ FundsCurrent
    /\ rpc' = "work"
    /\ UNCHANGED <<log, kept, streamVars, todo, hC, hF, capC, capF, capAt, due, session, cursorVars, intent, floor, cashSeen>>

EndWork ==
    /\ rpc = "work"
    /\ rpc' = "save"
    /\ UNCHANGED <<log, kept, streamVars, todo, hC, hF, capC, capF, capAt, due, session, cursorVars, intent, floor, cashSeen>>

SaveSnapshot ==
    /\ rpc = "save"
    /\ rpc' = "wait"
    /\ UNCHANGED <<log, kept, streamVars, todo, hC, hF, capC, capF, capAt, due, session, cursorVars, intent, floor, cashSeen>>

-----------------------------------------------------------------------------
(* Staging and sending under the fences *)

Stamp(state) == [state |-> state, session |-> session, c |-> capC, f |-> capF, at |-> capAt]

StageAction ==
    /\ rpc = "work" /\ intent.state = "none"
    /\ capC = pubC /\ capF = pubF
    /\ intent' = Stamp("staged")
    /\ UNCHANGED <<log, kept, streamVars, loopVars, cursorVars, floor, cashSeen>>

\* Mutant: the stamp is compared with the capture, not with what came since.
StagedControlAsCaptured == intent.c = capC

StagedControlValid == intent.c = capC /\ intent.c = pubC

\* Mutant: the epochs are compared, but not whose epochs they are.
StagedFundsValidAnySession == intent.f = capF /\ intent.f = pubF

StagedFundsValid == intent.session = session /\ intent.f = capF /\ intent.f = pubF

\* replanUnsentAction: an intent that an event overtook is dropped, or kept
\* with the stamps of the capture it is about to be judged by again.
ReplanUnsentAction ==
    /\ rpc = "work" /\ intent.state = "staged"
    /\ ~StagedControlValid \/ ~StagedFundsValid
    /\ intent' \in {NoIntent, Stamp("staged")}
    /\ UNCHANGED <<log, kept, streamVars, loopVars, cursorVars, floor, cashSeen>>

\* The last preflight of a first send passes.
SendFirst ==
    /\ rpc = "work" /\ intent.state = "staged"
    /\ StagedControlValid /\ StagedFundsValid
    /\ intent' = [intent EXCEPT !.state = "pending"]
    /\ UNCHANGED <<log, kept, streamVars, loopVars, cursorVars, floor, cashSeen>>

\* A pending request may be sent again whatever happened to the funds; its
\* answer, or evidence, settles it.
ResendAndResolve ==
    /\ rpc = "work" /\ intent.state = "pending"
    /\ capC = pubC
    /\ intent' = NoIntent
    /\ UNCHANGED <<log, kept, streamVars, loopVars, cursorVars, floor, cashSeen>>

-----------------------------------------------------------------------------
Stream == Handshake \/ Deliver \/ DeliverGap \/ PublishClosed \/ Enqueue

Loop ==
    \/ Start \/ Wake \/ HandleMessage \/ HandleAuthorizationEnded \/ Capture \/ RefreshDone
    \/ CaptureOvertaken \/ HoldWork \/ BeginWork \/ EndWork \/ SaveSnapshot

StreamNext ==
    \/ \E k \in EventKinds : Emit(k)
    \/ ForgetEvents \/ Break \/ Crash
    \/ Stream \/ Loop
    \/ StageAction \/ ReplanUnsentAction \/ SendFirst \/ ResendAndResolve

\* The stream's steps and the loop's are taken by running goroutines, and a
\* reconnect that is due is not put off for ever.  Nothing is assumed of
\* events, lost connections and crashes; identity reads do not fail for ever.
StreamFairness ==
    /\ WF_esvars(Stream) /\ WF_esvars(Loop)
    /\ SF_esvars(Capture /\ spc' = "handshake")
    /\ SF_esvars(BeginWork)

StreamSpec == StreamInit /\ [][StreamNext]_esvars /\ StreamFairness

-----------------------------------------------------------------------------
(* Properties *)

\* A mutation is never first sent on a capture that predates a cash movement
\* some stream, this run's or an earlier one's, had already reported.
FirstSendIsCurrent == SendFirst => \A e \in cashSeen : e <= intent.at
FirstSendOnCurrentFunds == [][FirstSendIsCurrent]_esvars

\* Whenever a request leaves, for the first time or again, no gap, no lost
\* connection and no end of authorization is waiting to be handled, however
\* many ordinary events are queued before it.
SendAfterControl ==
    SendFirst \/ ResendAndResolve =>
        /\ \A i \in DOMAIN queue : queue[i].c = 0
        /\ spc \in {"enqueue", "enqueueClosed"} => hand.c = 0
NoSendPastControl == [][SendAfterControl]_esvars

\* The durable cursor never passes an event that was not recorded, unless the
\* upstream itself no longer offered it: a crash, a full queue or a reconnect
\* loses nothing.
CursorBehindRecorded ==
    \A e \in Event : floor < e /\ e <= cursor => rowId[e] # 0

\* The fences never shut the runner out: once events stop it works again.
WorkResumes == []<>(rpc \in {"work", "stopped"})

-----------------------------------------------------------------------------
(* Why the properties hold: the parts of their inductive invariants *)

Offered == spc \in {"enqueue", "enqueueClosed"}

\* Every epoch in a message, and every one handled or captured, was published.
EpochsPublished ==
    /\ capC <= hC /\ hC <= pubC /\ hF <= pubF /\ capF <= pubF
    /\ \A i \in 1..Len(queue) : queue[i].c <= pubC /\ queue[i].f <= pubF
    /\ Offered => hand.c <= pubC /\ hand.f <= pubF

\* Control epochs wait in the order they were published, behind the handled one.
ControlsInOrder ==
    /\ \A i \in 1..Len(queue) : queue[i].c # 0 => hC < queue[i].c
    /\ \A i, j \in 1..Len(queue) : i < j /\ queue[i].c # 0 /\ queue[j].c # 0 => queue[i].c < queue[j].c
    /\ Offered /\ hand.c # 0 => hC < hand.c /\ \A i \in 1..Len(queue) : queue[i].c < hand.c

ControlInv == StreamTypeOK /\ EpochsPublished /\ ControlsInOrder

\* A capture whose financial epoch is the published one shows all cash reported.
CaptureCoversCash ==
    /\ cashSeen \subseteq 1..Len(log)
    /\ rpc \in {"refresh", "recheck", "work", "save"} /\ capF = pubF => \A e \in cashSeen : e <= capAt

\* So does an intent of this run with the published epoch.
IntentCoversCash ==
    /\ intent.session <= session
    /\ rpc \notin {"down", "stopped"} /\ intent.state = "staged" /\ intent.session = session =>
         /\ intent.f <= pubF
         /\ intent.f = pubF => \A e \in cashSeen : e <= intent.at

FundsInv == StreamTypeOK /\ EpochsPublished /\ CaptureCoversCash /\ IntentCoversCash

\* Recorded, or waiting in front of place n of the queue.
Safe(e, n) == rowId[e] # 0 \/ \E j \in 1..(n - 1) : queue[j].id = e

\* What is before a message in the log is recorded, or waits before it.
QueueComplete ==
    \A i \in 1..Len(queue) : \A e \in Event : floor < e /\ e < queue[i].id => Safe(e, i)

\* Everything up to the position of the stream is recorded, waits or is in hand.
StreamComplete ==
    /\ spc = "enqueueClosed" => hand.id = 0
    /\ spc = "handshake" => \A e \in Event : floor < e /\ e <= spos => rowId[e] # 0
    /\ spc = "open" => \A e \in Event : floor < e /\ e <= spos => Safe(e, Len(queue) + 1)
    /\ spc = "enqueue" =>
         /\ hand.id \in {0, spos}
         /\ \A e \in Event : floor < e /\ e <= spos /\ e # hand.id => Safe(e, Len(queue) + 1)

CursorInv == StreamTypeOK /\ CursorBehindRecorded /\ QueueComplete /\ StreamComplete
=============================================================================
