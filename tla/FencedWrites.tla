---------------------------- MODULE FencedWrites ----------------------------
(***************************************************************************)
(* What account ownership promises to the rest of the program, without     *)
(* sessions, advisory locks or transactions: every account has an epoch    *)
(* that only grows, and the only writes that take effect are the ones of   *)
(* the current epoch.  AccountLease implements it.                         *)
(***************************************************************************)
EXTENDS Integers

CONSTANT Account

VARIABLES
    epoch,    \* accounts.owner_generation
    written   \* the epoch of the last write that took effect

fwVars == <<epoch, written>>

FWInit ==
    /\ epoch = [a \in Account |-> 0]
    /\ written = [a \in Account |-> 0]

\* A new owner takes the account and fences every earlier one.
TakeOver(a) ==
    /\ epoch' = [epoch EXCEPT ![a] = @ + 1]
    /\ UNCHANGED written

\* The current owner writes.
Write(a) ==
    /\ written' = [written EXCEPT ![a] = epoch[a]]
    /\ UNCHANGED epoch

FWNext == \E a \in Account : TakeOver(a) \/ Write(a)

FWSpec == FWInit /\ [][FWNext]_fwVars
=============================================================================
