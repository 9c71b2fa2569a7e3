-------------------------- MODULE MCAccountLease ---------------------------
(* Two processes that contend for one account, which belongs to a company.  *)
EXTENDS AccountLease

CONSTANTS o1, o2, a1, c1

TwoOwners == {o1, o2}
OneAccount == {a1}
OneCompany == {c1}
=============================================================================
