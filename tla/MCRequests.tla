----------------------------- MODULE MCRequests -----------------------------
(* Requests that are carried out once: two processes that take an account    *)
(* from each other and dispatch one action (time keeps the order of the real *)
(* intervals: a request under way is short against the distance between the  *)
(* replay window and the key's lifetime), the registration of an account,    *)
(* and what the controls ask the game for.  Every behaviour is one of a      *)
(* single part, the one "part" names; the parts do not interact here, and    *)
(* those that take no steps stay in one initial state.                       *)
EXTENDS ActionJournal, Registration, Marque, VoyageInsurance, FleetWork, Underwriting

CONSTANTS p1, p2

TwoProcs == {p1, p2}
TwoShips == <<"s1", "s2">>

VARIABLE part

RequestsInit ==
    /\ part \in {"journal", "registration", "marques", "insurance", "work", "underwriting"}
    /\ Init /\ RegistrationInit /\ MarqueInit
    /\ CoverInit /\ (part = "insurance" \/ policies = <<>>)
    /\ WorkInit /\ (part = "work" \/ (due = 0 /\ \A c \in StartCash : cash <= c))
    /\ UnderwritingInit /\ (part = "underwriting" \/ foreign = {})

RequestsNext ==
    /\ UNCHANGED part
    /\ \/ part = "journal" /\ Next /\ UNCHANGED <<rgvars, mqvars, vivars, fwvars, uwvars>>
       \/ UNCHANGED vars /\ (
          \/ part = "registration" /\ RegistrationNext /\ UNCHANGED <<mqvars, vivars, fwvars, uwvars>>
          \/ part = "marques" /\ MarqueNext /\ UNCHANGED <<rgvars, vivars, fwvars, uwvars>>
          \/ part = "insurance" /\ CoverNext /\ UNCHANGED <<rgvars, mqvars, fwvars, uwvars>>
          \/ part = "work" /\ WorkNext /\ UNCHANGED <<rgvars, mqvars, vivars, uwvars>>
          \/ part = "underwriting" /\ UnderwritingNext /\ UNCHANGED <<rgvars, mqvars, vivars, fwvars>>)

RequestsSpec ==
    /\ RequestsInit /\ [][RequestsNext]_<<part, vars, rgvars, mqvars, vivars, fwvars, uwvars>>
    /\ \A p \in Proc : WF_vars(part = "journal" /\ p = owner /\ Work(p))
=============================================================================
