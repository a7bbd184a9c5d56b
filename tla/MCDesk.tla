------------------------------- MODULE MCDesk -------------------------------
(* Two branches, two customers, two approvers of whom one is a customer too, one *)
(* advisor, an owner and a branch manager, and five days at the desk.           *)
EXTENDS DeskLocks, TLC

CONSTANTS k1, k2, a1, a2, v1, u1, owner, manager, t1, t2

MCBranches == {1, 2}
MCAccounts == {a1, u1, manager}

Ask(cmd, k, b, p, actor) == [cmd |-> cmd, k |-> k, b |-> b, p |-> p, actor |-> actor]

Settled(b, u) == [branch |-> b, status |-> "active", account |-> u]
Order(status, b) == [status |-> status, case |-> FALSE, branch |-> b]

(* A branch is closed while customers come, leave and trade *)
Closing ==
    [customer |-> k1 :> Settled(1, u1) @@ k2 :> NoCustomer,
     work |-> k1 :> NoWork @@ k2 :> NoWork,
     grants |-> {},
     asked |-> {Ask("deactivate_branch", k1, 1, Nobody, owner),
                Ask("close_branch", k1, 1, Nobody, owner),
                Ask("transfer_customer_branch", k1, 2, Nobody, owner),
                Ask("create_customer", k2, 1, Nobody, manager),
                Ask("create_quote", k1, 1, Nobody, manager),
                Ask("create_order", k1, 1, Nobody, u1),
                Ask("create_branch_role_grant", k1, 1, v1, owner),
                Ask("revoke_branch_role_grant", k1, 1, v1, owner)}]

(* An order is submitted and decided while approvers and the customer leave *)
Reviewing ==
    [customer |-> k1 :> Settled(1, a1) @@ k2 :> NoCustomer,
     work |-> k1 :> Order("draft", 1) @@ k2 :> NoWork,
     grants |-> {<<a1, 1>>, <<a2, 1>>},
     asked |-> {Ask("submit_order", k1, 1, Nobody, a1),
                Ask("approve_order", k1, 1, Nobody, a2),
                Ask("reject_order", k1, 1, Nobody, a2),
                Ask("revoke_branch_role_grant", k1, 1, a2, owner),
                Ask("deactivate_customer", k1, 1, Nobody, manager),
                Ask("activate_customer", k1, 1, Nobody, manager),
                Ask("transfer_customer_branch", k1, 2, Nobody, owner)}]

(* The same order is to be cancelled *)
Cancelling ==
    [customer |-> k1 :> Settled(1, a1) @@ k2 :> NoCustomer,
     work |-> k1 :> Order("draft", 1) @@ k2 :> NoWork,
     grants |-> {<<a1, 1>>, <<a2, 1>>},
     asked |-> {Ask("request_cancellation", k1, 1, Nobody, a1),
                Ask("submit_order", k1, 1, Nobody, a1),
                Ask("approve_cancellation", k1, 1, Nobody, a2),
                Ask("reject_cancellation", k1, 1, Nobody, a2),
                Ask("revoke_branch_role_grant", k1, 1, a2, owner),
                Ask("withdraw_consent", k1, 1, Nobody, a1),
                Ask("transfer_customer_branch", k1, 2, Nobody, owner)}]

(* Two prospects are invited under one account, the manager's own *)
Inviting ==
    [customer |-> k1 :> NoCustomer @@ k2 :> NoCustomer,
     work |-> k1 :> NoWork @@ k2 :> NoWork,
     grants |-> {},
     asked |-> {Ask("create_customer", k1, 1, Nobody, manager),
                Ask("create_customer", k2, 1, Nobody, owner),
                Ask("issue_customer_claim_invitation", k1, 1, manager, owner),
                Ask("issue_customer_claim_invitation", k2, 1, manager, owner),
                Ask("revoke_customer_claim_invitation", k1, 1, Nobody, manager),
                Ask("claim_customer", k1, 1, Nobody, manager),
                Ask("claim_customer", k2, 1, Nobody, manager),
                Ask("transfer_customer_branch", k1, 2, Nobody, owner)}]

(* Customers cross between the branches, with their advisor or without *)
Moving ==
    [customer |-> k1 :> Settled(1, u1) @@ k2 :> Settled(2, a1),
     work |-> k1 :> NoWork @@ k2 :> NoWork,
     grants |-> {<<v1, 1>>, <<v1, 2>>},
     asked |-> {Ask("assign_customer_advisor", k1, 1, v1, manager),
                Ask("end_customer_advisor_assignment", k1, 1, Nobody, manager),
                Ask("revoke_branch_role_grant", k1, 1, v1, owner),
                Ask("transfer_customer_branch", k1, 2, v1, owner),
                Ask("transfer_customer_branch", k2, 1, Nobody, owner)}]

MCScenarios == {Closing, Reviewing, Cancelling, Inviting, Moving}

MCSymmetry == Permutations(Txns)
=============================================================================
