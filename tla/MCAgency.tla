------------------------------ MODULE MCAgency ------------------------------
(* Instances of Agency for TLC: one customer, and the people of a branch. *)
EXTENDS Agency

CONSTANTS buyer, boss, approver, clerk, auditor, k1, q1

Staff == {buyer, boss, approver, clerk, auditor}
OneCustomer == {k1}
OneQuote == {q1}
MCCustomerOf == [q \in Quotes |-> k1]
MCUserOf == [k \in Customers |-> buyer]

(* The customer also works for the branch; the clerk has been an auditor too. *)
MCRoles == [p \in People |->
    CASE p = buyer -> {"approver"}
      [] p = boss -> {"manager", "approver"}
      [] p = approver -> {"approver"}
      [] p = clerk -> {"booking_operator", "finance", "auditor"}
      [] p = auditor -> {"auditor"}]
=============================================================================
