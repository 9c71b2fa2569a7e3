----------------------------- MODULE ShipLosses -----------------------------
(***************************************************************************)
(* The history of one lost hull: observeShipLosses of                      *)
(* internal/engine/ship_losses.go and SaveShipLosses of                    *)
(* internal/store/ship_losses.go.  The loss row is committed first and the *)
(* snapshot that carries the retries, the event cursor and the last afloat *)
(* observation is committed later, so a crash may keep only the former.    *)
(* Time is counted in confirmation units; 0 stands for "never".            *)
(***************************************************************************)
EXTENDS Naturals, Sequences

CONSTANTS
    NoLoss,         \* no loss, no observation
    ServerFates,    \* the fates the server reports; nothing reports as unknown
    Confirm,        \* how long a hull is absent before it is called missing
    Retry,          \* the pause after a failed read or write
    MaxNow, MaxMishaps

VoyageFates == {"lost_at_sea", "unknown"}       \* captured behaves as lost_at_sea
Vague == {"missing", "unknown"}
ShipLoss == [at : Nat, recovered : Nat, fate : ServerFates \cup VoyageFates \cup Vague,
             hazard : BOOLEAN, claim : BOOLEAN, last : Nat, voyage : Nat]

ASSUME LossAssumption == {Confirm, Retry, MaxNow, MaxMishaps} \subseteq Nat /\ NoLoss \notin ShipLoss

VARIABLES
    sea,            \* the hull as the server knows it, and the wall clock
    happened,       \* the recorded events of the hull, in the order of their ids
    row,            \* its row in ship_losses
    ram,            \* shipLosses and shipLossesDurable of the runner
    live, disk,     \* the snapshot in memory and its committed copy
    mishaps,        \* failures and crashes so far
    \* history
    overlaid        \* a loss was written over another one that the row still held

lossvars == <<sea, happened, row, ram, live, disk, mishaps, overlaid>>

EmptySnapshot ==
    [verified |-> NoLoss, missing |-> 0, pending |-> NoLoss, retry |-> 0,
     cursor |-> 0, backfill |-> FALSE, eventRetry |-> 0, loadRetry |-> 0]
Restarted == [losses |-> NoLoss, durable |-> NoLoss, held |-> FALSE, loaded |-> FALSE]

LossInit ==
    /\ \E sailing \in {0, 1}, others \in BOOLEAN :
         sea = [hull |-> "afloat", fate |-> "unknown", voyage |-> sailing, now |-> 1,
                struck |-> FALSE, paid |-> FALSE, others |-> others]
    /\ happened = << >> /\ row = NoLoss /\ ram = Restarted
    /\ live = EmptySnapshot /\ disk = EmptySnapshot
    /\ mishaps = 0 /\ overlaid = FALSE

\* The clamp of the row to its own episode: a new observation replaces a closed
\* episode only when it came after the recovery, and otherwise adds to it.
OneOf(a, b) == IF a # 0 THEN a ELSE b
Upsert(old, new) ==
    IF old = NoLoss THEN new
    ELSE CASE new.recovered # 0 /\ ~(old.fate = "missing" /\ new.recovered > old.at) -> old
           [] old.recovered # 0 /\ new.recovered = 0 /\ new.at > old.recovered -> new
           [] OTHER ->
                [at |-> IF old.at < new.at THEN old.at ELSE new.at,
                 recovered |-> OneOf(old.recovered, IF new.recovered > old.at THEN new.recovered ELSE 0),
                 last |-> OneOf(old.last, new.last),
                 voyage |-> OneOf(old.voyage, new.voyage),
                 fate |-> IF /\ old.recovered = 0 /\ old.fate \in Vague
                             /\ (new.fate \notin Vague \/ (old.fate = "missing" /\ new.fate = "unknown"))
                          THEN new.fate ELSE old.fate,
                 hazard |-> old.hazard \/ new.hazard,
                 claim |-> old.claim \/ new.claim]

Open(loss) == loss # NoLoss /\ loss.recovered = 0
\* The open row stays open and yet is of another observation than the one
\* written, so that it stands for two losses.
Overlays(loss) ==
    LET new == Upsert(row, loss)
    IN  /\ Open(row) /\ Open(new)
        /\ \/ ~Open(loss) \/ loss.fate # new.fate
           \/ \E d \in {"at", "last", "voyage"} : loss[d] # row[d]

NewShipLoss(fate, afloat) ==
    [at |-> sea.now, recovered |-> 0, fate |-> fate, hazard |-> FALSE, claim |-> FALSE,
     last |-> IF afloat = NoLoss THEN 0 ELSE afloat.at,
     voyage |-> IF afloat = NoLoss THEN 0 ELSE afloat.voyage]

-----------------------------------------------------------------------------
\* Load, once per connection: a failed load keeps what the last one read.
ForgetfulLoad(fresh, ok) ==
    [mem |-> IF ok /\ (fresh \/ ~ram.held) THEN [losses |-> row, durable |-> row, held |-> TRUE, loaded |-> TRUE]
             ELSE [ram EXCEPT !.held = TRUE],
     snap |-> live]
Load(fresh, ok) ==
    IF (ram.held /\ ~fresh) \/ sea.now < live.loadRetry
    THEN [mem |-> [ram EXCEPT !.held = TRUE], snap |-> live]
    ELSE IF ~ok THEN [mem |-> [ram EXCEPT !.held = TRUE], snap |-> [live EXCEPT !.loadRetry = sea.now + Retry]]
    ELSE [mem |-> [losses |-> row, durable |-> row, held |-> TRUE, loaded |-> TRUE],
          snap |-> [live EXCEPT !.loadRetry = 0, !.backfill = @ \/ (~ram.loaded /\ (row # NoLoss \/ sea.others))]]

\* A pending row that the durable one already outlived is dropped.
Outlived(pending, durable) ==
    durable # NoLoss /\ ((durable.recovered # 0 /\ pending.at <= durable.recovered)
                         \/ durable.last > pending.at)

\* The loss after this observation, and whether older events may concern it.
\* report is "absent", "empty" (a fleet without hulls), "afloat" or "sunk".
JudgePresent(report, loss) ==
    CASE report = "afloat" ->
           [backfill |-> FALSE, changed |-> loss # NoLoss /\ loss.fate = "missing" /\ loss.recovered = 0 /\ sea.now > loss.at,
            loss |-> IF loss # NoLoss /\ loss.fate = "missing" /\ loss.recovered = 0 /\ sea.now > loss.at
                     THEN [loss EXCEPT !.recovered = sea.now] ELSE loss]
      [] report = "sunk" /\ (loss = NoLoss \/ (loss.recovered # 0 /\ sea.now > loss.recovered)) ->
           [backfill |-> TRUE, changed |-> TRUE, loss |-> NewShipLoss(sea.fate, live.verified)]
      [] report = "sunk" /\ loss # NoLoss /\ loss.recovered = 0 /\ loss.fate \in Vague /\ loss.fate # sea.fate ->
           [backfill |-> TRUE, changed |-> TRUE, loss |-> [loss EXCEPT !.fate = sea.fate]]
      [] OTHER -> [backfill |-> FALSE, changed |-> FALSE, loss |-> loss]

\* Absence is confirmed only by a fleet that lists other hulls.
Since(report, loss) ==
    IF \/ report # "absent" \/ live.verified = NoLoss
       \/ (loss # NoLoss /\ (loss.recovered = 0 \/ sea.now <= loss.recovered))
    THEN 0 ELSE OneOf(live.missing, sea.now)
Confirmed(report, loss) ==
    live.missing # 0 /\ Since(report, loss) # 0 /\ sea.now >= live.missing + Confirm

\* enrichShipLosses: the hazard and the claim of this episode.
Fits(e, loss) ==
    /\ loss.recovered = 0 /\ e.at >= loss.last
    /\ IF e.kind = "hazard" THEN loss.fate \in VoyageFates \cup {"missing"}
       ELSE /\ loss.fate \in VoyageFates /\ loss.voyage \in {0, e.voyage}
            /\ (e.at >= loss.at \/ loss.voyage = e.voyage)
Enriched(loss, after) ==
    LET read == {i \in DOMAIN happened : i > after}
        struck(i) == \E j \in read : j < i /\ happened[j].kind = "hazard" /\ Fits(happened[j], loss)
        taken == {i \in read : Fits(happened[i], IF struck(i) THEN [loss EXCEPT !.fate = "lost_at_sea"] ELSE loss)}
        hazard == \E i \in taken : happened[i].kind = "hazard"
    IN  IF loss = NoLoss THEN NoLoss
        ELSE [loss EXCEPT !.hazard = @ \/ hazard,
                          !.claim = @ \/ \E i \in taken : happened[i].kind = "claim",
                          !.fate = IF hazard THEN "lost_at_sea" ELSE @]
\* Another lost hull without its claim keeps the events being read.
NeedsEvents(loss, loaded) ==
    \/ sea.others /\ loaded
    \/ /\ loss # NoLoss /\ loss.recovered = 0
       /\ (loss.fate = "missing" \/ (loss.fate \in VoyageFates /\ ~(loss.claim /\ loss.hazard)))

\* saveObservedShipLosses: how the write ended.
Tried(change, retry) == change # NoLoss /\ sea.now >= retry
NothingLeft(saved, change) == NoLoss
StillPending(saved, change) == IF saved THEN NoLoss ELSE change

\* One capture of the fleet or of the hull, the first of a connection when fresh:
\* everything up to the write of the row.
Observed(report, full, fresh, fault) ==
    LET l == Load(fresh, fault # "load")
        stale == l.snap.pending # NoLoss /\ Outlived(l.snap.pending, l.mem.durable)
        pend == IF stale THEN NoLoss ELSE l.snap.pending
        known == IF pend # NoLoss THEN pend ELSE l.mem.losses
        j == IF full /\ Confirmed(report, known)
             THEN [backfill |-> TRUE, changed |-> TRUE, loss |-> NewShipLoss("missing", live.verified)]
             ELSE JudgePresent(report, known)
        change == IF j.changed THEN j.loss ELSE pend
        back == l.snap.backfill \/ j.backfill
        asked == full \/ change # NoLoss
        needs == NeedsEvents(j.loss, l.mem.loaded)
        reads == asked /\ needs /\ (j.backfill \/ sea.now >= l.snap.eventRetry)
        fetched == reads /\ fault # "events"
        final == IF fetched THEN Enriched(j.loss, IF back THEN 0 ELSE l.snap.cursor) ELSE j.loss
        toSave == IF final # j.loss THEN final ELSE change
        retry == IF stale THEN 0 ELSE l.snap.retry
        tried == Tried(toSave, retry)
        saved == tried /\ fault \notin {"save", "lost"}
        rest == StillPending(saved, toSave)
    IN  [possible |-> /\ fault = "events" => reads
                      /\ fault \in {"save", "lost"} => tried,
         row |-> IF tried /\ fault # "save" THEN Upsert(row, toSave) ELSE row,
         overlaid |-> tried /\ fault # "save" /\ Overlays(toSave),
         ram |-> [l.mem EXCEPT !.losses = final, !.durable = IF saved THEN toSave ELSE @],
         live |-> [l.snap EXCEPT
              !.verified = CASE report = "sunk" -> NoLoss
                             [] report = "afloat" -> [at |-> sea.now, voyage |-> sea.voyage]
                             [] OTHER -> @,
              !.missing = IF ~full THEN IF report \in {"afloat", "sunk"} THEN 0 ELSE @
                          ELSE IF Confirmed(report, known) THEN 0 ELSE Since(report, known),
              !.pending = rest,
              !.retry = IF rest = NoLoss THEN 0 ELSE IF tried THEN sea.now + Retry ELSE retry,
              !.cursor = IF fetched THEN Len(happened) ELSE @,
              !.backfill = back /\ (asked => needs /\ ~fetched),
              !.eventRetry = IF (tried /\ ~saved) \/ (reads /\ ~fetched) THEN sea.now + Retry
                             ELSE IF fetched THEN 0 ELSE @]]

\* What a capture of the fleet, or of the hull itself, can report.
Reports(full) ==
    CASE sea.hull = "hidden" -> IF full THEN {"absent", "empty"} ELSE {}
      [] sea.hull = "sunk" -> IF full THEN {"absent", "empty", "sunk"} ELSE {"sunk"}
      [] OTHER -> {"afloat"}
ObserveShipLosses ==
    \E full, fresh \in BOOLEAN, fault \in {"ok", "load", "events", "save", "lost"} :
      /\ fresh => ram.held
      /\ fault # "ok" => mishaps < MaxMishaps
      /\ fault = "load" => (fresh \/ ~ram.held) /\ sea.now >= live.loadRetry
      /\ \E report \in Reports(full) : \E o \in {Observed(report, full, fresh, fault)} :
           /\ o.possible /\ row' = o.row /\ ram' = o.ram /\ live' = o.live
           /\ overlaid' = (overlaid \/ o.overlaid)
           /\ mishaps' = IF fault = "ok" THEN mishaps ELSE mishaps + 1
           /\ UNCHANGED <<sea, happened, disk>>

CommitSnapshot ==
    /\ disk' = live
    /\ UNCHANGED <<sea, happened, row, ram, live, mishaps, overlaid>>
CrashLosses ==
    /\ mishaps < MaxMishaps /\ mishaps' = mishaps + 1
    /\ live' = disk /\ ram' = Restarted /\ UNCHANGED <<sea, happened, row, disk, overlaid>>

\* The server and the clock.  Voyage 0 is a hull last seen in port.
HullMoves ==
    \/ sea.hull = "afloat" /\ sea' = [sea EXCEPT !.hull = "hidden"]
    \/ sea.hull = "hidden" /\ sea' = [sea EXCEPT !.hull = "afloat"]
    \/ \E f \in ServerFates : sea.hull # "sunk" /\ sea' = [sea EXCEPT !.hull = "sunk", !.fate = f]
    \/ sea.now < MaxNow /\ sea' = [sea EXCEPT !.now = @ + 1]
SeaMoves == HullMoves /\ UNCHANGED <<happened, row, ram, live, disk, mishaps, overlaid>>
\* The hazard that sank the hull and the claim it caused, in either order.
EventRecorded ==
    /\ sea.hull = "sunk" /\ sea.fate \in VoyageFates
    /\ \E kind \in {"hazard", "claim"} :
         /\ IF kind = "hazard" THEN ~sea.struck ELSE ~sea.paid
         /\ happened' = Append(happened, [kind |-> kind, at |-> sea.now, voyage |-> 1])
         /\ sea' = [sea EXCEPT !.struck = @ \/ kind = "hazard", !.paid = @ \/ kind = "claim"]
    /\ UNCHANGED <<row, ram, live, disk, mishaps, overlaid>>

LossNext == ObserveShipLosses \/ CommitSnapshot \/ CrashLosses \/ SeaMoves \/ EventRecorded
LossSpec == LossInit /\ [][LossNext]_lossvars

-----------------------------------------------------------------------------
\* A claim recorded before the hazard of its loss: read while the hull is only
\* missing, it is passed over.
Early(i) == happened[i].kind = "claim" /\ \E j \in DOMAIN happened : j > i /\ happened[j].kind = "hazard"
Told(loss, i) == IF happened[i].kind = "hazard" THEN loss.hazard ELSE loss.claim

\* As long as no loss was written over another one in an open row, an event that
\* belongs to the loss in the row is told there or is still going to be read for
\* it: neither a failed load, read or write nor a crash between the row and the
\* snapshot with the cursor hides it.  A claim recorded before its hazard is
\* excepted, and so is a loss while its row is still being retried.
NoCauseForgotten ==
    \A i \in DOMAIN happened :
      Open(row) /\ ~overlaid /\ ~Early(i) /\ Fits(happened[i], row)
      => \/ Told(row, i) \/ live.pending # NoLoss
         \/ ~ram.loaded \/ live.backfill \/ i > live.cursor
=============================================================================
