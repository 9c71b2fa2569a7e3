----------------------------- MODULE MCUpstream -----------------------------
(* What stands between an account and the game: two accounts behind one      *)
(* origin, the posts on the board, and what captures tell of a lost ship.    *)
(* Every behaviour is one of a single part, the one "part" names; the parts  *)
(* do not interact here, and the others stay in one initial state.           *)
EXTENDS ApiClient, BulletinPost, ShipLosses

CONSTANTS k1, k2

TwoKeys == {k1, k2}
ThreeCalls == 1..3
CallKeys == <<k1, k2, k1>>
TradeAndBulletin == <<"trade", "borrow", "bulletin">>

\* A count that may be stale, throttling with and without a deadline, in
\* another bucket than the request's too, a server error over a spent bucket
\* with a reset time, and the bulletin's own limit.
R(status, company, remaining, retry, reset) ==
    [status |-> status, company |-> company, id |-> "write", remaining |-> remaining, retry |-> retry, reset |-> reset]

SomeReplies ==
    { R("ok", FALSE, 1, None, None), R("unavailable", FALSE, 0, None, 2),
      R("throttled", FALSE, None, 2, None), [R("throttled", FALSE, 0, None, None) EXCEPT !.id = "auth"],
      R("throttled", TRUE, None, 2, None) }

VARIABLE part

UpstreamInit ==
    /\ part \in {"client", "bulletin", "losses"}
    /\ Init /\ BulletinInit
    /\ LossInit /\ (part = "losses" \/ (sea.voyage = 0 /\ ~sea.others))

UpstreamNext ==
    /\ UNCHANGED part
    /\ \/ part = "client" /\ Next /\ UNCHANGED <<btvars, lossvars>>
       \/ part = "bulletin" /\ BulletinNext /\ UNCHANGED <<vars, lossvars>>
       \/ part = "losses" /\ LossNext /\ UNCHANGED <<vars, btvars>>

UpstreamSpec == UpstreamInit /\ [][UpstreamNext]_<<part, vars, btvars, lossvars>>
=============================================================================
