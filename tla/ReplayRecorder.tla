--------------------------- MODULE ReplayRecorder ---------------------------
(***************************************************************************)
(* internal/engine/replay_recorder.go: the runner hands plans, action      *)
(* links, events and frames to a writer goroutine over bounded buffers and *)
(* never waits for it.  Evidence is a key and a value: a mission with the   *)
(* digest of its plan, or an action with its one link.  Events and dropped  *)
(* events are counts; what a frame holds besides is not told apart.        *)
(***************************************************************************)
EXTENDS Naturals, Sequences, SequencesExt, FiniteSets

CONSTANTS
    Evidence,           \* <<key, value>> pairs the runner may hand over
    EvidenceLimit, EventLimit, FrameQueue,      \* the three buffers
    MaxSeen,            \* bounds the events
    MaxErrors           \* bounds the writes that fail

ASSUME RecorderAssumption == {EvidenceLimit, EventLimit, FrameQueue, MaxSeen, MaxErrors} \subseteq Nat

VARIABLES
    rec,        \* replayRecorder: buffers, dedupe maps, flags
    wri,        \* writeReplay: where it is and what it holds
    tape        \* what is stored, what was counted as an error, what was seen

rvars == <<rec, wri, tape>>

Keys == {e[1] : e \in Evidence}
Absent == 0

RecorderInit ==
    /\ rec = [kept |-> [k \in Keys |-> Absent], list |-> << >>, frames |-> << >>, wake |-> FALSE,
              n |-> 0, dropped |-> 0, stopped |-> FALSE, cancelled |-> FALSE, ended |-> FALSE]
    /\ wri = [pc |-> "idle", then |-> "idle", hand |-> << >>, cap |-> << >>]
    /\ tape = [stored |-> {}, n |-> 0, dropped |-> 0, seen |-> 0, lost |-> 0, lostFrames |-> 0, errors |-> 0]

\* replayError: every loss is counted.
Counted(t, k) == [t EXCEPT !.errors = @ + k]
Size(c) == c.n + c.dropped
Sizes(s) == FoldLeft(LAMBDA sum, c : sum + Size(c), 0, s)
FramesLost(t, s) == [t EXCEPT !.lost = @ + Sizes(s), !.lostFrames = @ + Len(s)]

\* A failed record is no longer remembered, unless a newer one has its place.
ForgetNone(kept, e) == kept
Forget(kept, e) == IF kept[e[1]] = e[2] THEN [kept EXCEPT ![e[1]] = Absent] ELSE kept

\* discardReplay
Discarded(r) == [r EXCEPT !.kept = FoldLeft(Forget, @, r.list), !.list = << >>, !.frames = << >>]
DiscardTape(t, r) == FramesLost(Counted(t, Len(r.list) + Len(r.frames)), r.frames)

-----------------------------------------------------------------------------
(* The runner *)

\* replayPlan and replayLink
RecordEvidence(e) ==
    /\ ~rec.stopped /\ rec.kept[e[1]] # e[2]
    /\ IF wri.pc = "done" \/ Len(rec.list) >= EvidenceLimit
       THEN tape.errors < MaxErrors /\ tape' = Counted(tape, 1) /\ rec' = rec
       ELSE rec' = [rec EXCEPT !.kept[e[1]] = e[2], !.list = Append(@, e), !.wake = TRUE] /\ tape' = tape
    /\ UNCHANGED wri

\* replayEvent
ReplayEvent ==
    /\ ~rec.stopped /\ tape.seen < MaxSeen
    /\ rec' = IF rec.n >= EventLimit THEN [rec EXCEPT !.dropped = @ + 1] ELSE [rec EXCEPT !.n = @ + 1]
    /\ tape' = [tape EXCEPT !.seen = @ + 1]
    /\ UNCHANGED wri

Full == wri.pc = "done" \/ Len(rec.frames) = FrameQueue
Captured == [rec EXCEPT !.frames = Append(@, [n |-> rec.n, dropped |-> rec.dropped]), !.n = 0, !.dropped = 0]

\* flushReplay: a full queue keeps the events for the next frame.
FlushForgets ==
    /\ ~rec.stopped
    /\ IF Full THEN tape.errors < MaxErrors /\ tape' = Counted(tape, 1) /\ rec' = [rec EXCEPT !.n = 0, !.dropped = 0]
       ELSE rec' = Captured /\ tape' = tape
    /\ UNCHANGED wri
FlushReplay ==
    /\ ~rec.stopped
    /\ IF Full THEN tape.errors < MaxErrors /\ tape' = Counted(tape, 1) /\ rec' = rec
       ELSE rec' = Captured /\ tape' = tape
    /\ UNCHANGED wri

\* stopReplay, up to its wait: the last events go in a frame or are given up.
StopReplay ==
    /\ ~rec.stopped
    /\ IF Size(rec) = 0 THEN rec' = [rec EXCEPT !.stopped = TRUE] /\ tape' = tape
       ELSE IF Full
       THEN /\ tape' = [Counted(tape, 2) EXCEPT !.lost = @ + Size(rec), !.lostFrames = @ + 1]
            /\ rec' = [rec EXCEPT !.stopped = TRUE, !.n = 0, !.dropped = 0]
       ELSE rec' = [Captured EXCEPT !.stopped = TRUE] /\ tape' = tape
    /\ UNCHANGED wri

\* The writer is done, or five seconds are over.
StopWaited ==
    /\ rec.stopped /\ ~rec.ended
    /\ \/ wri.pc = "done" /\ rec' = [rec EXCEPT !.ended = TRUE] /\ tape' = tape
       \/ /\ wri.pc # "done"
          /\ rec' = [Discarded(rec) EXCEPT !.ended = TRUE, !.cancelled = TRUE]
          /\ tape' = Counted(DiscardTape(tape, rec), 1)
    /\ UNCHANGED wri

-----------------------------------------------------------------------------
(* The writer *)

\* flushPlans takes the lists, then writes one record at a time.
TakeEvidence(then, cap) ==
    /\ wri' = [pc |-> "flush", then |-> then, hand |-> rec.list, cap |-> cap]

Woken ==
    /\ wri.pc = "idle" /\ rec.wake
    /\ TakeEvidence("idle", << >>)
    /\ rec' = [rec EXCEPT !.wake = FALSE, !.list = << >>] /\ UNCHANGED tape

TakeFrame ==
    /\ wri.pc = "idle" /\ rec.frames # << >>
    /\ TakeEvidence("frame", <<Head(rec.frames)>>)
    /\ rec' = [rec EXCEPT !.frames = Tail(@), !.list = << >>] /\ UNCHANGED tape

Stopping ==
    /\ wri.pc = "idle" /\ rec.stopped
    /\ IF rec.cancelled
       THEN rec' = Discarded(rec) /\ tape' = DiscardTape(tape, rec) /\ wri' = [wri EXCEPT !.pc = "done"]
       ELSE /\ TakeEvidence("drain", << >>)
            /\ rec' = [rec EXCEPT !.list = << >>] /\ UNCHANGED tape

\* write: five seconds each, and none once it was cancelled.
Fails == rec.cancelled \/ tape.errors < MaxErrors

WriteEvidence ==
    /\ wri.pc = "flush" /\ wri.hand # << >>
    /\ wri' = [wri EXCEPT !.hand = Tail(@)]
    /\ \/ /\ ~rec.cancelled /\ rec' = rec
          /\ tape' = [tape EXCEPT !.stored = @ \cup {Head(wri.hand)}]
       \/ /\ Fails /\ tape' = Counted(tape, 1)
          /\ rec' = [rec EXCEPT !.kept = Forget(@, Head(wri.hand))]

Flushed ==
    /\ wri.pc = "flush" /\ wri.hand = << >>
    /\ wri' = [wri EXCEPT !.pc = wri.then] /\ UNCHANGED <<rec, tape>>

\* writeFrame: the events and how many were dropped are in one row.
WriteFrame ==
    /\ wri.pc = "frame"
    /\ wri' = [wri EXCEPT !.pc = IF wri.then = "frame" THEN "idle" ELSE "drain", !.cap = << >>]
    /\ \/ /\ ~rec.cancelled
          /\ tape' = [tape EXCEPT !.n = @ + Head(wri.cap).n, !.dropped = @ + Head(wri.cap).dropped]
       \/ Fails /\ tape' = FramesLost(Counted(tape, 1), wri.cap)
    /\ UNCHANGED rec

\* drain: what is queued when the runner stops.
Drain ==
    /\ wri.pc = "drain"
    /\ \/ /\ rec.cancelled /\ rec' = Discarded(rec) /\ tape' = DiscardTape(tape, rec)
          /\ wri' = [wri EXCEPT !.pc = "done"]
       \/ /\ ~rec.cancelled /\ rec.frames # << >>
          /\ wri' = [wri EXCEPT !.pc = "frame", !.cap = <<Head(rec.frames)>>]
          /\ rec' = [rec EXCEPT !.frames = Tail(@)] /\ UNCHANGED tape
       \/ /\ ~rec.cancelled /\ rec.frames = << >>
          /\ wri' = [wri EXCEPT !.pc = "done"] /\ UNCHANGED <<rec, tape>>

\* A panic between two writes ends the writer.
WriterPanics ==
    /\ wri.pc \in {"idle", "drain"} /\ tape.errors < MaxErrors
    /\ rec' = Discarded(rec) /\ tape' = Counted(DiscardTape(tape, rec), 1)
    /\ wri' = [wri EXCEPT !.pc = "done"]

RecorderNext ==
    \/ \E e \in Evidence : RecordEvidence(e)
    \/ ReplayEvent \/ FlushReplay \/ StopReplay \/ StopWaited
    \/ Woken \/ TakeFrame \/ Stopping \/ WriteEvidence \/ Flushed \/ WriteFrame \/ Drain \/ WriterPanics

RecorderSpec == RecorderInit /\ [][RecorderNext]_rvars

-----------------------------------------------------------------------------
(* Properties *)

\* No event vanishes between the stream and the tape: it waits in a buffer, is
\* in a frame, was dropped and its frame says so, or was lost with a frame
\* whose loss was counted as an error.
EventsAccounted ==
    /\ tape.seen = Size(rec) + Sizes(rec.frames) + Sizes(wri.cap) + Size(tape) + tape.lost
    /\ tape.lostFrames <= tape.errors

\* A plan or link the runner remembers, and so will not hand over again, is
\* stored or still on its way: a write that failed or was discarded is
\* forgotten, however it raced with a newer plan of its mission.
RememberedIsKept ==
    wri.pc # "done" =>
        \A e \in Evidence : rec.kept[e[1]] = e[2] =>
            e \in tape.stored \/ Contains(rec.list, e) \/ Contains(wri.hand, e)
=============================================================================
