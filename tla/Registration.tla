---------------------------- MODULE Registration ----------------------------
(***************************************************************************)
(* The operator commands that create an account and its keys               *)
(* (cmd/tradewinds/register.go): register and underworld-key, both built   *)
(* on bootstrapAction, over the action journal and SaveAccount             *)
(* (internal/store/journal.go, store.go).  Both hold the account lease, so *)
(* one command runs at a time; it may fail or die anywhere and be run      *)
(* again.                                                                  *)
(*                                                                         *)
(* Steps is what the register command sends, in order; each mint of an     *)
(* observer key is an action of its own, named by its UnderworldMintID.    *)
(***************************************************************************)
EXTENDS Integers, FiniteSets

CONSTANTS
    Mints,          \* identities of observer-key mints (UnderworldMintID)
    NoMint,
    MaxTroubles,    \* bound on lost answers, throttling, refusals and deaths
    SlowUpstream    \* a request may still be carried out when it is repeated

Steps  == {"register", "playerKey", "company", "companyKey"}
Points == {"down", "profile", "saveKey", "bind", "saveObserver", "retire"}
Acts   == Steps \cup Mints

ASSUME RegistrationAssumption ==
    /\ MaxTroubles \in Nat /\ SlowUpstream \in BOOLEAN
    /\ NoMint \notin Mints /\ Mints \cap (Steps \cup Points) = {}

VARIABLES
    \* the store
    account,    \* the accounts row and its credentials exist
    apiKey,     \* Credentials.APIKey: none, player-wide or company-bound
    bound,      \* CompanyID is set and the account enabled
    mint,       \* UnderworldMintID, or NoMint
    observer,   \* UnderworldAPIKey, by its mint, or NoMint
    intents,        \* the journal row of each action
    aged,       \* actions whose row is older than ActionReplayWindow
    \* the running command
    at,         \* what it is about to do
    sending,    \* the request has been handed to the client
    \* the upstream
    reply,      \* what it keeps under each action's key
    carried,    \* how often each action was carried out
    revoked,    \* observer keys it no longer accepts
    troubles

accountVars == <<account, apiKey, bound, mint, observer>>
rgUpVars    == <<reply, carried, revoked>>
rgvars      == <<accountVars, intents, aged, at, sending, rgUpVars, troubles>>

RegistrationTypeOK ==
    /\ account \in BOOLEAN /\ bound \in BOOLEAN /\ sending \in BOOLEAN
    /\ apiKey \in {"none", "player", "company"}
    /\ mint \in Mints \cup {NoMint} /\ observer \in Mints \cup {NoMint}
    /\ intents \in [Acts -> {"absent", "pending", "ok", "rejected", "throttled"}]
    /\ aged \subseteq Acts
    /\ at \in Points \cup Acts
    /\ reply \in [Acts -> {"none", "busy", "ok", "rejected", "throttled"}]
    /\ carried \in [Acts -> Nat] /\ revoked \subseteq Mints /\ troubles \in 0..MaxTroubles

RegistrationInit ==
    /\ account = FALSE /\ apiKey = "none" /\ bound = FALSE /\ mint = NoMint /\ observer = NoMint
    /\ intents = [a \in Acts |-> "absent"] /\ aged = {}
    /\ at = "down" /\ sending = FALSE
    /\ reply = [a \in Acts |-> "none"] /\ carried = [a \in Acts |-> 0] /\ revoked = {} /\ troubles = 0

Trouble == troubles < MaxTroubles /\ troubles' = troubles + 1

-----------------------------------------------------------------------------
(* register *)

\* prepareAccount saves the credentials before anything is sent.
StartRegister ==
    /\ at = "down"
    /\ account' = TRUE
    /\ at' = IF apiKey = "none" THEN "register" ELSE "profile"
    /\ UNCHANGED <<apiKey, bound, mint, observer, intents, aged, sending, rgUpVars, troubles>>

\* The player-wide key is saved as soon as it is known.
SaveKey ==
    /\ at = "saveKey"
    /\ apiKey' = "player"
    /\ at' = "profile"
    /\ UNCHANGED <<account, bound, mint, observer, intents, aged, sending, rgUpVars, troubles>>

\* The profile decides: an existing company is never created again, and a
\* bound account with a good key is done.
LoadProfile ==
    /\ at = "profile"
    /\ at' = IF carried["company"] = 0 THEN "company" ELSE IF bound THEN "down" ELSE "companyKey"
    /\ UNCHANGED <<accountVars, intents, aged, sending, rgUpVars, troubles>>

\* SaveAccount binds the company, unless the account has pending actions
\* ("cannot change company with pending actions").
BindCompany ==
    /\ at = "bind"
    /\ IF \E a \in Acts : intents[a] = "pending"
       THEN UNCHANGED <<apiKey, bound>>
       ELSE apiKey' = "company" /\ bound' = TRUE
    /\ at' = "down"
    /\ UNCHANGED <<account, mint, observer, intents, aged, sending, rgUpVars, troubles>>

-----------------------------------------------------------------------------
(* underworld-key *)

\* A stored observer key is replaced only when the upstream refuses it for
\* good; a new mint's identity is saved before it is used.
StartUnderworldKey ==
    /\ at = "down" /\ bound
    /\ observer = NoMint \/ observer \in revoked
    /\ \/ mint # NoMint /\ mint' = mint
       \/ mint = NoMint /\ mint' \in {n \in Mints : intents[n] = "absent"}
    /\ at' = mint'
    /\ UNCHANGED <<account, apiKey, bound, observer, intents, aged, sending, rgUpVars, troubles>>

SaveObserver ==
    /\ at = "saveObserver"
    /\ observer' = mint /\ mint' = NoMint
    /\ at' = "down"
    /\ UNCHANGED <<account, apiKey, bound, intents, aged, sending, rgUpVars, troubles>>

\* A journaled refusal proves that this identity minted no key.
RetireMint ==
    /\ at = "retire"
    /\ mint' = NoMint
    /\ at' = "down"
    /\ UNCHANGED <<account, apiKey, bound, observer, intents, aged, sending, rgUpVars, troubles>>

-----------------------------------------------------------------------------
(* bootstrapAction *)

\* What the command does after action a succeeded.
FollowingStep(a) ==
    CASE a = "register"   -> "playerKey"
      [] a = "playerKey"  -> "saveKey"
      [] a = "company"    -> "companyKey"
      [] a = "companyKey" -> "bind"
      [] OTHER            -> "saveObserver"

\* What it does after a journaled refusal other than 429.
AfterRejection(a) == IF a \in Mints THEN "retire" ELSE "down"

\* Mutant: the age of a pending row is not looked at.
MayBeginAtAnyAge(a) == intents[a] \in {"absent", "pending"}

MayBegin(a) == intents[a] = "absent" \/ (intents[a] = "pending" /\ a \notin aged)

\* BeginAction stores the row, or finds the one to continue.
Begin(a) ==
    /\ at = a /\ ~sending /\ MayBegin(a)
    /\ intents' = [intents EXCEPT ![a] = "pending"]
    /\ sending' = TRUE
    /\ UNCHANGED <<accountVars, aged, at, rgUpVars, troubles>>

\* A stored 429 whose deadline has passed: the same request, a new identity.
BeginAfterThrottle(a) ==
    /\ at = a /\ ~sending /\ intents[a] = "throttled"
    /\ intents' = [intents EXCEPT ![a] = "pending"]
    /\ reply' = [reply EXCEPT ![a] = "none"]
    /\ aged' = aged \ {a}
    /\ sending' = TRUE
    /\ UNCHANGED <<accountVars, at, carried, revoked, troubles>>

\* The stored answer is used again, refused again, or the row is too old, or
\* the cooldown still runs.
UseStored(a) ==
    /\ at = a /\ ~sending
    /\ \/ intents[a] = "ok" /\ at' = FollowingStep(a)
       \/ intents[a] = "rejected" /\ at' = AfterRejection(a)
       \/ intents[a] = "pending" /\ a \in aged /\ at' = "down"
       \/ intents[a] = "throttled" /\ at' = "down"
    /\ UNCHANGED <<accountVars, intents, aged, sending, rgUpVars, troubles>>

\* A definitive answer is journaled before it is used.
CompleteIntent(a) ==
    /\ at = a /\ sending /\ reply[a] \in {"ok", "rejected", "throttled"}
    /\ intents' = [intents EXCEPT ![a] = reply[a]]
    /\ sending' = FALSE
    /\ at' = CASE reply[a] = "ok" -> FollowingStep(a) [] reply[a] = "rejected" -> AfterRejection(a) [] OTHER -> "down"
    /\ UNCHANGED <<accountVars, aged, rgUpVars, troubles>>

\* HTTP 409: not journaled.  Only the register step goes on after it.
Conflict(a) ==
    /\ at = a /\ sending /\ reply[a] = "busy" /\ SlowUpstream
    /\ sending' = FALSE
    /\ at' = IF a = "register" THEN FollowingStep(a) ELSE "down"
    /\ UNCHANGED <<accountVars, intents, aged, rgUpVars, troubles>>

\* No answer within the attempts or the deadline, or the process dies.
Fail ==
    /\ at # "down" /\ Trouble
    /\ at' = "down" /\ sending' = FALSE
    /\ UNCHANGED <<accountVars, intents, aged, rgUpVars>>

\* ActionReplayWindow passes; no command runs that long.
Age(a) ==
    /\ intents[a] = "pending" /\ ~sending /\ Trouble
    /\ aged' = aged \cup {a}
    /\ UNCHANGED <<accountVars, intents, at, sending, rgUpVars>>

-----------------------------------------------------------------------------
(* The upstream (external) *)

\* What a request needs to be carried out.
Possible(a) ==
    CASE a = "register"  -> TRUE
      [] a = "playerKey" -> carried["register"] > 0
      [] OTHER           -> apiKey # "none"

ReachUpstream(a) ==
    /\ at = a /\ sending /\ reply[a] = "none"
    /\ reply' = [reply EXCEPT ![a] = "busy"]
    /\ UNCHANGED <<accountVars, intents, aged, at, sending, carried, revoked, troubles>>

Carry(a) ==
    /\ reply[a] = "busy" /\ Possible(a)
    /\ reply' = [reply EXCEPT ![a] = "ok"]
    /\ carried' = [carried EXCEPT ![a] = @ + 1]
    /\ UNCHANGED <<accountVars, intents, aged, at, sending, revoked, troubles>>

RefuseIntent(a) ==
    /\ reply[a] = "busy" /\ Trouble
    /\ \E answer \in {"rejected", "throttled"} : reply' = [reply EXCEPT ![a] = answer]
    /\ UNCHANGED <<accountVars, intents, aged, at, sending, carried, revoked>>

\* The key of an old request is forgotten.
ForgetKey(a) ==
    /\ a \in aged /\ reply[a] \in {"ok", "rejected", "throttled"} /\ ~sending
    /\ reply' = [reply EXCEPT ![a] = "none"]
    /\ UNCHANGED <<accountVars, intents, aged, at, sending, carried, revoked, troubles>>

Revoke ==
    /\ observer # NoMint /\ observer \notin revoked
    /\ revoked' = revoked \cup {observer}
    /\ UNCHANGED <<accountVars, intents, aged, at, sending, reply, carried, troubles>>

-----------------------------------------------------------------------------
Register == StartRegister \/ SaveKey \/ LoadProfile \/ BindCompany

Command == Register \/ SaveObserver \/ RetireMint \/ \E a \in Acts : Begin(a) \/ BeginAfterThrottle(a) \/ UseStored(a) \/ CompleteIntent(a) \/ Conflict(a)

RegistrationNext ==
    \/ Command \/ StartUnderworldKey \/ Fail \/ Revoke
    \/ \E a \in Acts : Age(a) \/ ReachUpstream(a) \/ Carry(a) \/ RefuseIntent(a) \/ ForgetKey(a)

\* The operator runs register again after every failure, the cooldown of a
\* 429 ends, and the upstream answers.
RegistrationFairness ==
    /\ WF_rgvars(Command)
    /\ \A a \in Steps : /\ WF_rgvars(ReachUpstream(a)) /\ WF_rgvars(Carry(a))
                        /\ SF_rgvars(BeginAfterThrottle(a)) /\ SF_rgvars(CompleteIntent(a))

RegistrationSpec == RegistrationInit /\ [][RegistrationNext]_rgvars /\ RegistrationFairness

-----------------------------------------------------------------------------
(* Properties *)

\* However often the commands are run again, each intent is carried out once:
\* one player, one company, one key per step and per mint.
EachIntentOnce == \A a \in Acts : carried[a] <= 1

\* Running register again finishes it: once the player is authenticated the
\* account gets bound, unless the company or its key was refused for good or
\* left unresolved past the replay window.
RegisterResumes ==
    apiKey # "none" ~> bound \/ \E a \in {"company", "companyKey"} : intents[a] = "rejected" \/ a \in aged
=============================================================================
