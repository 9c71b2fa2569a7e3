-------------------------- MODULE MCLoanRefinance ---------------------------
(* A company with hulls to pledge and no lender, and one with lenders only. *)
EXTENDS LoanRefinance

MCMarkets == {[hulls |-> 2, lenders |-> 0], [hulls |-> 0, lenders |-> 2]}
=============================================================================
