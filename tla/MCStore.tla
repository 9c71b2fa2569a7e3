------------------------------ MODULE MCStore -------------------------------
(* What the processes keep in the database: the locks by which they own two  *)
(* accounts, one of which may be bound to the company, and what an owner     *)
(* stores: routes, futures and the replay.  Every behaviour is one of a      *)
(* single part, the one "part" names; the parts do not interact, and the     *)
(* others stay in one initial state.                                         *)
EXTENDS AccountLease, SnapshotStore, ReplayRecorder, ReplayTape, Futures

CONSTANTS o1, o2, a1, a2, c1

TwoOwners == {o1, o2}
TwoAccounts == {a1, a2}
OneCompany == {c1}
Symmetry == Permutations(TwoOwners) \cup Permutations(TwoAccounts)

\* Two values of one mission.
TwoPlans == {<<"m", 1>>, <<"m", 2>>}

\* The cross pair offered; the sale offered while the pair stands; the pair
\* standing over a berth whose lot may spoil.
Warehouses ==
    {[open |-> {"s1", "p1"}, standing |-> {}, stock |-> 0, leased |-> 0, spoil |-> 0],
     [open |-> {"s2"}, standing |-> {"s1", "p1"}, stock |-> 0, leased |-> 1, spoil |-> 0],
     [open |-> {}, standing |-> {"s1", "p1"}, stock |-> 0, leased |-> 1, spoil |-> 1]}

VARIABLE part

StoreInit ==
    /\ part \in {"locks", "snapshots", "recorder", "tape", "futures"}
    /\ Init /\ (part = "locks" \/ \A a \in Account : rowExists[a])
    /\ SnapshotInit /\ RecorderInit /\ TapeInit
    /\ FuturesInit /\ (part = "futures" \/ fw.leased = 0)

StoreNext ==
    /\ UNCHANGED part
    /\ \/ part = "locks" /\ Next /\ UNCHANGED <<ssvars, rvars, tvars, fvars>>
       \/ part = "snapshots" /\ SnapshotNext /\ UNCHANGED <<vars, rvars, tvars, fvars>>
       \/ part = "recorder" /\ RecorderNext /\ UNCHANGED <<vars, ssvars, tvars, fvars>>
       \/ part = "tape" /\ TapeNext /\ UNCHANGED <<vars, ssvars, rvars, fvars>>
       \/ part = "futures" /\ FuturesNext /\ UNCHANGED <<vars, ssvars, rvars, tvars>>

StoreSpec == StoreInit /\ [][StoreNext]_<<part, vars, ssvars, rvars, tvars, fvars>>
=============================================================================
