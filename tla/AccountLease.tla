---------------------------- MODULE AccountLease ----------------------------
(***************************************************************************)
(* internal/store/locks.go: ownership of an account by one process.        *)
(*                                                                         *)
(* An owner pins one PostgreSQL session that holds an advisory lock on the *)
(* account and, when the account is bound to a company, a second one on    *)
(* the company.  The server drops both when the session dies, and another  *)
(* process may then take them while the first still runs.  Two things      *)
(* protect the database from that first process: a monitor that cancels    *)
(* its context, and the write guard, which compares the generation of the  *)
(* lease with accounts.owner_generation under a FOR SHARE row lock that    *)
(* the next owner's UPDATE has to wait for.                                *)
(*                                                                         *)
(* An Owner is one Store with at most one lease; its write transaction     *)
(* runs on another connection and may outlive the lease, because a COMMIT  *)
(* already sent to the server cannot be called back.                       *)
(***************************************************************************)
EXTENDS Integers

CONSTANTS
    Owner,          \* processes that contend for the accounts
    Account,        \* account IDs, also the names of their advisory keys
    Company,        \* company IDs, also the names of their advisory keys
    None,           \* no owner, no account, no company
    MaxGeneration   \* bound on the takeovers of one account

ASSUME LeaseAssumption ==
    /\ MaxGeneration \in Nat
    /\ Account \cap Company = {}
    /\ None \notin Owner \cup Account \cup Company

VARIABLES
    \* the database
    rowExists,   \* the account has a row in table accounts
    ownerGen,    \* accounts.owner_generation
    company,     \* accounts.company_id
    advisory,    \* which owner's session holds each advisory key
    written,     \* history: generation of the last write committed under a row lock
    \* the process and its lease
    phase,       \* where AcquireAccountContext, or the lease it returned, stands
    acct,        \* accountLease.accountID
    comp,        \* the company read before locking: accountLease.companyKey
    sess,        \* the pinned session
    gen,         \* accountLease.generation
    closed,      \* Store.closed
    \* the process's write transaction
    txState,
    txAcct,
    txGen,
    txShared     \* the transaction holds the FOR SHARE lock of the account row

dbVars    == <<rowExists, ownerGen, company, written>>
leaseVars == <<phase, acct, comp, sess, gen>>
txVars    == <<txState, txAcct, txGen, txShared>>
vars      == <<dbVars, advisory, leaseVars, closed, txVars>>

Acquiring == {"account", "company", "fence"}
Phase == {"idle", "running", "cancelled"} \cup Acquiring

TypeOK ==
    /\ rowExists \in [Account -> BOOLEAN]
    /\ ownerGen \in [Account -> 0..MaxGeneration]
    /\ company \in [Account -> Company \cup {None}]
    /\ advisory \in [Account \cup Company -> Owner \cup {None}]
    /\ written \in [Account -> 0..MaxGeneration]
    /\ phase \in [Owner -> Phase]
    /\ acct \in [Owner -> Account \cup {None}]
    /\ comp \in [Owner -> Company \cup {None}]
    /\ sess \in [Owner -> {"none", "up", "dead"}]
    /\ gen \in [Owner -> 0..MaxGeneration]
    /\ closed \in [Owner -> BOOLEAN]
    /\ txState \in [Owner -> {"none", "begun", "owned", "guarded"}]
    /\ txAcct \in [Owner -> Account \cup {None}]
    /\ txGen \in [Owner -> 0..MaxGeneration]
    /\ txShared \in [Owner -> BOOLEAN]

\* No account is registered, or all of them are and none has been run yet.
Init ==
    /\ \E present \in BOOLEAN : rowExists = [a \in Account |-> present]
    /\ ownerGen = [a \in Account |-> 0]
    /\ company = [a \in Account |-> None]
    /\ advisory = [k \in Account \cup Company |-> None]
    /\ written = [a \in Account |-> 0]
    /\ phase = [o \in Owner |-> "idle"]
    /\ acct = [o \in Owner |-> None]
    /\ comp = [o \in Owner |-> None]
    /\ sess = [o \in Owner |-> "none"]
    /\ gen = [o \in Owner |-> 0]
    /\ closed = [o \in Owner |-> FALSE]
    /\ txState = [o \in Owner |-> "none"]
    /\ txAcct = [o \in Owner |-> None]
    /\ txGen = [o \in Owner |-> 0]
    /\ txShared = [o \in Owner |-> FALSE]

-----------------------------------------------------------------------------
(* The lock session *)

\* pg_advisory_unlock_all, or the server's cleanup when a session ends.
Unlocked(o) == [k \in DOMAIN advisory |-> IF advisory[k] = o THEN None ELSE advisory[k]]

\* conn.Close and lockDB.Close: no idle slot keeps the connection alive, so
\* closing the pool ends the session and frees whatever it held.
Abandon(o) ==
    /\ advisory' = Unlocked(o)
    /\ phase' = [phase EXCEPT ![o] = "idle"]
    /\ acct' = [acct EXCEPT ![o] = None]
    /\ comp' = [comp EXCEPT ![o] = None]
    /\ sess' = [sess EXCEPT ![o] = "none"]
    /\ UNCHANGED gen

\* Another transaction holds the account's row FOR SHARE.
RowShared(a) == \E o \in Owner : txState[o] = "guarded" /\ txShared[o] /\ txAcct[o] = a

-----------------------------------------------------------------------------
(* AcquireAccountContext *)

\* The company is read before any lock is taken.  A process runs one lease at
\* a time and its writes return before it asks for another.
ReadIdentity(o, a) ==
    /\ phase[o] = "idle" /\ ~closed[o]
    /\ txState[o] \in {"none", "guarded"}
    /\ phase' = [phase EXCEPT ![o] = "account"]
    /\ acct' = [acct EXCEPT ![o] = a]
    /\ comp' = [comp EXCEPT ![o] = company[a]]
    /\ sess' = [sess EXCEPT ![o] = "up"]
    /\ UNCHANGED <<dbVars, advisory, gen, closed, txVars>>

LockAccount(o) ==
    /\ phase[o] = "account" /\ sess[o] = "up"
    /\ advisory[acct[o]] = None
    /\ advisory' = [advisory EXCEPT ![acct[o]] = o]
    /\ phase' = [phase EXCEPT ![o] = IF comp[o] # None THEN "company" ELSE "fence"]
    /\ UNCHANGED <<dbVars, acct, comp, sess, gen, closed, txVars>>

LockCompany(o) ==
    /\ phase[o] = "company" /\ sess[o] = "up"
    /\ advisory[comp[o]] = None
    /\ advisory' = [advisory EXCEPT ![comp[o]] = o]
    /\ phase' = [phase EXCEPT ![o] = "fence"]
    /\ UNCHANGED <<dbVars, acct, comp, sess, gen, closed, txVars>>

\* ErrAccountLocked: somebody else holds the account or the company.
AccountLocked(o) ==
    /\ sess[o] = "up"
    /\ \/ phase[o] = "account" /\ advisory[acct[o]] # None
       \/ phase[o] = "company" /\ advisory[comp[o]] # None
    /\ Abandon(o)
    /\ UNCHANGED <<dbVars, closed, txVars>>

\* Mutant: the failed acquisition returns without closing its session.
AcquireFailsKeepsSession(o) ==
    /\ phase[o] \in Acquiring
    /\ phase' = [phase EXCEPT ![o] = "idle"]
    /\ UNCHANGED <<dbVars, advisory, acct, comp, sess, gen, closed, txVars>>

\* A query fails or runs into the five-second limit of the acquisition.
AcquireFails(o) ==
    /\ phase[o] \in Acquiring
    /\ Abandon(o)
    /\ UNCHANGED <<dbVars, closed, txVars>>

\* UPDATE accounts SET owner_generation = owner_generation + 1: it waits for
\* every transaction that holds the row, and matches nothing before the
\* account is registered (sql.ErrNoRows, generation 0).
FenceUpdate(a) ==
    /\ ~RowShared(a)
    /\ rowExists[a] => ownerGen[a] < MaxGeneration
    /\ ownerGen' = IF rowExists[a] THEN [ownerGen EXCEPT ![a] = @ + 1] ELSE ownerGen
    /\ UNCHANGED <<rowExists, company, written>>

FenceOwner(o) ==
    /\ phase[o] = "fence" /\ sess[o] = "up" /\ ~closed[o]
    /\ FenceUpdate(acct[o])
    /\ gen' = [gen EXCEPT ![o] = IF rowExists[acct[o]] THEN ownerGen[acct[o]] + 1 ELSE 0]
    /\ phase' = [phase EXCEPT ![o] = "running"]
    /\ UNCHANGED <<advisory, acct, comp, sess, closed, txVars>>

\* The UPDATE took effect, but its answer was lost or the store was closed
\* meanwhile: the generation moves on without an owner.
FenceWithoutOwner(o) ==
    /\ phase[o] = "fence" /\ sess[o] = "up"
    /\ FenceUpdate(acct[o])
    /\ Abandon(o)
    /\ UNCHANGED <<closed, txVars>>

-----------------------------------------------------------------------------
(* The lease: monitor, cancellation, release *)

\* The server loses the pinned session and frees its locks; the process is
\* not told.
SessionDies(o) ==
    /\ sess[o] = "up"
    /\ sess' = [sess EXCEPT ![o] = "dead"]
    /\ advisory' = Unlocked(o)
    /\ UNCHANGED <<dbVars, phase, acct, comp, gen, closed, txVars>>

\* Mutant: the lease trusts that it once took the locks.
OwnsByMemory(o) == sess[o] # "none"

\* accountLease.owns: the pinned session answers and still holds every key.
Owns(o) ==
    /\ sess[o] = "up"
    /\ advisory[acct[o]] = o
    /\ comp[o] # None => advisory[comp[o]] = o

\* The monitor's tick finds the session or a lock gone.
MonitorCancels(o) ==
    /\ phase[o] = "running"
    /\ ~Owns(o)
    /\ phase' = [phase EXCEPT ![o] = "cancelled"]
    /\ UNCHANGED <<dbVars, advisory, acct, comp, sess, gen, closed, txVars>>

\* release(), or the caller's context ends.
Release(o) ==
    /\ phase[o] = "running"
    /\ phase' = [phase EXCEPT ![o] = "cancelled"]
    /\ UNCHANGED <<dbVars, advisory, acct, comp, sess, gen, closed, txVars>>

\* Store.Close cancels the lease that is registered; one that is still being
\* acquired finds the store closed.
CloseStore(o) ==
    /\ ~closed[o]
    /\ closed' = [closed EXCEPT ![o] = TRUE]
    /\ phase' = [phase EXCEPT ![o] = IF @ = "running" THEN "cancelled" ELSE @]
    /\ UNCHANGED <<dbVars, advisory, acct, comp, sess, gen, txVars>>

\* The monitor leaves: unlock everything, close the session, drop the lease.
CloseConnection(o) ==
    /\ phase[o] = "cancelled"
    /\ Abandon(o)
    /\ UNCHANGED <<dbVars, closed, txVars>>

\* A new process takes the place of the one whose store was closed.
Restart(o) ==
    /\ closed[o] /\ phase[o] = "idle" /\ txState[o] = "none"
    /\ closed' = [closed EXCEPT ![o] = FALSE]
    /\ UNCHANGED <<dbVars, advisory, leaseVars, txVars>>

-----------------------------------------------------------------------------
(* writeOwned and guardOwner *)

NoTx(o) ==
    /\ txState' = [txState EXCEPT ![o] = "none"]
    /\ txAcct' = [txAcct EXCEPT ![o] = None]
    /\ txGen' = [txGen EXCEPT ![o] = 0]
    /\ txShared' = [txShared EXCEPT ![o] = FALSE]

CancelLease(o) == phase' = [phase EXCEPT ![o] = IF @ = "running" THEN "cancelled" ELSE @]

BeginWrite(o) ==
    /\ phase[o] = "running" /\ txState[o] = "none"
    /\ txState' = [txState EXCEPT ![o] = "begun"]
    /\ txAcct' = [txAcct EXCEPT ![o] = acct[o]]
    /\ txGen' = [txGen EXCEPT ![o] = gen[o]]
    /\ UNCHANGED <<dbVars, advisory, leaseVars, closed, txShared>>

\* The context is alive and the pinned session proves the locks ...
GuardSession(o) ==
    /\ txState[o] = "begun"
    /\ phase[o] = "running" /\ Owns(o)
    /\ txState' = [txState EXCEPT ![o] = "owned"]
    /\ UNCHANGED <<dbVars, advisory, leaseVars, closed, txAcct, txGen, txShared>>

\* ... or it does not, and the lease is cancelled.
GuardSessionFails(o) ==
    /\ txState[o] = "begun"
    /\ phase[o] = "running" => ~Owns(o)
    /\ NoTx(o) /\ CancelLease(o)
    /\ UNCHANGED <<dbVars, advisory, acct, comp, sess, gen, closed>>

\* Mutant: the generation is read and not compared.
GuardGenerationUnchecked(o) ==
    /\ txState[o] = "owned"
    /\ txState' = [txState EXCEPT ![o] = "guarded"]
    /\ txShared' = [txShared EXCEPT ![o] = rowExists[txAcct[o]]]
    /\ UNCHANGED <<dbVars, advisory, leaseVars, closed, txAcct, txGen>>

\* SELECT owner_generation ... FOR SHARE: the row carries this lease's
\* generation and stays locked until the transaction ends, or there is no row
\* yet and nothing is locked.
GuardGeneration(o) ==
    /\ txState[o] = "owned"
    /\ IF rowExists[txAcct[o]] THEN ownerGen[txAcct[o]] = txGen[o] ELSE txGen[o] = 0
    /\ txState' = [txState EXCEPT ![o] = "guarded"]
    /\ txShared' = [txShared EXCEPT ![o] = rowExists[txAcct[o]]]
    /\ UNCHANGED <<dbVars, advisory, leaseVars, closed, txAcct, txGen>>

GuardGenerationFails(o) ==
    /\ txState[o] = "owned"
    /\ IF rowExists[txAcct[o]] THEN ownerGen[txAcct[o]] # txGen[o] ELSE txGen[o] # 0
    /\ NoTx(o) /\ CancelLease(o)
    /\ UNCHANGED <<dbVars, advisory, acct, comp, sess, gen, closed>>

\* The transaction's own statements fail, its context ends, or its connection
\* is lost before the server sees COMMIT.
Rollback(o) ==
    /\ txState[o] # "none"
    /\ NoTx(o)
    /\ UNCHANGED <<dbVars, advisory, leaseVars, closed>>

\* The generation a committed write is recorded with.
Recorded(o) == IF txShared[o] THEN [written EXCEPT ![txAcct[o]] = txGen[o]] ELSE written

\* The COMMIT of any write that leaves the account row alone.
Commit(o) ==
    /\ txState[o] = "guarded"
    /\ written' = Recorded(o)
    /\ NoTx(o)
    /\ UNCHANGED <<rowExists, ownerGen, company, advisory, leaseVars, closed>>

\* SaveAccount: inserts the row, or updates it and possibly its company, to one
\* that no other account has (accounts.company_id is unique).  It locks the
\* row FOR UPDATE and so waits for other owners' transactions that share it.
\* Whether pending actions forbid the new company is left open.
CommitSaveAccount(o, c) ==
    LET a == txAcct[o] IN
    /\ txState[o] = "guarded"
    /\ \A p \in Owner \ {o} : ~(txState[p] = "guarded" /\ txShared[p] /\ txAcct[p] = a)
    /\ c # None => \A b \in Account \ {a} : company[b] # c
    /\ rowExists' = [rowExists EXCEPT ![a] = TRUE]
    /\ company' = [company EXCEPT ![a] = c]
    /\ written' = Recorded(o)
    /\ NoTx(o)
    /\ UNCHANGED <<ownerGen, advisory, leaseVars, closed>>

-----------------------------------------------------------------------------
Next ==
    \E o \in Owner :
        \/ \E a \in Account : ReadIdentity(o, a)
        \/ LockAccount(o) \/ LockCompany(o) \/ AccountLocked(o) \/ AcquireFails(o)
        \/ FenceOwner(o) \/ FenceWithoutOwner(o)
        \/ SessionDies(o) \/ MonitorCancels(o) \/ Release(o)
        \/ CloseStore(o) \/ CloseConnection(o) \/ Restart(o)
        \/ BeginWrite(o) \/ GuardSession(o) \/ GuardSessionFails(o)
        \/ GuardGeneration(o) \/ GuardGenerationFails(o)
        \/ Rollback(o) \/ Commit(o)
        \/ \E c \in Company \cup {None} : CommitSaveAccount(o, c)

\* The monitor goroutine ticks every second until it has cancelled and closed
\* its lease; the acquisition and the write guard are bounded by timeouts.
Fairness ==
    \A o \in Owner :
        /\ WF_vars(MonitorCancels(o))
        /\ WF_vars(CloseConnection(o))

Spec == Init /\ [][Next]_vars /\ Fairness

-----------------------------------------------------------------------------
(* Properties *)

\* A transaction that passed the generation check of guardOwner under the row
\* lock still is the newest owner of the account: no takeover can slip in
\* between the check and the COMMIT, whatever happened to its lock session.
GuardedIsCurrent ==
    \A o \in Owner :
        txState[o] = "guarded" /\ txShared[o] => ownerGen[txAcct[o]] = txGen[o]

\* Writes take effect in the order of ownership: once a later owner has
\* written, or has merely taken the account, no write of an earlier owner
\* commits.  (A write before the account row exists locks nothing and is
\* outside this promise: guardOwner lets a generation-0 lease through.)
CommitsFollowOwnership ==
    [][\A a \in Account :
          /\ written'[a] # written[a] => written'[a] = ownerGen[a]
          /\ written[a] <= written'[a]
          /\ ownerGen[a] <= ownerGen'[a]]_vars

\* The generation identifies the owner: two processes never run leases of one
\* account with the same generation, except before its row exists.
GenerationUnique ==
    \A o, p \in Owner :
        o # p /\ phase[o] = "running" /\ phase[p] = "running" /\ acct[o] = acct[p] /\ gen[o] = gen[p]
            => gen[o] = 0

\* Every early return of AcquireAccountContext gives back the locks it took:
\* a key is held only by a process that is acquiring or has a lease, and by a
\* lease only for its own account and company.
NoOrphanLock ==
    \A k \in DOMAIN advisory, o \in Owner :
        advisory[k] = o => /\ phase[o] # "idle"
                           /\ k \in {acct[o], comp[o]}

\* While its session lives, a lease excludes every other: no second process
\* runs the same account, nor another account that was bound to the same
\* company when it was acquired.
LiveLeaseExclusive ==
    \A o, p \in Owner :
        o # p /\ {phase[o], phase[p]} \subseteq {"running", "cancelled"} /\ sess[o] = "up" /\ sess[p] = "up"
            => /\ acct[o] # acct[p]
               /\ comp[o] # None => comp[o] # comp[p]

\* A lost lock session is noticed: the monitor cancels the lease.
LostOwnershipCancelled ==
    \A o \in Owner : (phase[o] = "running" /\ sess[o] = "dead") ~> phase[o] # "running"

\* Ownership promises what FencedWrites says.
Fenced == INSTANCE FencedWrites WITH epoch <- ownerGen, written <- written
ImplementsFencedWrites == Fenced!FWSpec
=============================================================================
