-------------------------------- MODULE Desk --------------------------------
(* The desk of a travel agency as its people see it.  Every command of           *)
(* branch_administration.py, customer_branch_transfer.py,                        *)
(* customer_claim_service.py and customer_lifecycle_service.py is one atomic      *)
(* step here, and so are the commands on quotes, orders and cases as far as the  *)
(* branch matters to them.  DeskLocks takes the same commands apart into the     *)
(* row locks and reads the services make, and implements this module.           *)
EXTENDS DeskTables

-----------------------------------------------------------------------------
(* The commands: what each asks, and what it writes *)

create_customer(k, b) ==
    /\ ~Exists(k) /\ branch[b] = "active"
    /\ CustomerCreated(k, b)

issue_customer_claim_invitation(k, u) ==
    /\ InActiveBranch(k)
    /\ customer[k].status = "prospect"
    /\ ~BoundElsewhere(k, u) /\ ~InvitedElsewhere(u)
    /\ invitation[k].status # "pending"
    /\ InvitationIssued(k, u)

revoke_customer_claim_invitation(k) ==
    /\ Exists(k) /\ invitation[k].branch = customer[k].branch
    /\ invitation[k].status = "pending"
    /\ InvitationRevoked(k)

claim_customer(k, u) ==
    /\ InActiveBranch(k) /\ invitation[k].branch = customer[k].branch
    /\ invitation[k].status = "pending" /\ ~invitation[k].expired
    /\ invitation[k].target = u
    /\ customer[k].status = "prospect" /\ ~BoundElsewhere(k, u)
    /\ CustomerClaimed(k, u)

activate_customer(k) ==
    /\ InActiveBranch(k)
    /\ customer[k].status \in {"invited", "inactive"} /\ customer[k].account # Nobody
    /\ work[k].status # "review"
    /\ CustomerActivated(k)

deactivate_customer(k) ==
    /\ Exists(k) /\ customer[k].status # "inactive"
    /\ RelationshipEnded(k)

(* record_customer_consent, `revoke` of an active customer *)
withdraw_consent(k) == Active(k) /\ RelationshipEnded(k)

assign_customer_advisor(k, p) ==
    /\ Active(k) /\ InActiveBranch(k)
    /\ <<p, customer[k].branch>> \in grants
    /\ advisor[k] # <<p, customer[k].branch>>
    /\ AdvisorAssigned(k, p)

end_customer_advisor_assignment(k) ==
    /\ advisor[k] # NoAdvisor
    /\ AdvisorUnassigned(k)

transfer_customer_branch(k, b, p) ==
    /\ Exists(k) /\ b # customer[k].branch
    /\ InOpenBranch(k) /\ branch[b] = "active"
    /\ invitation[k].status # "pending" /\ ~OpenWork(k)
    /\ p # Nobody => Active(k) /\ <<p, b>> \in grants
    /\ CustomerTransferred(k, b, p)

deactivate_branch(b) == branch[b] = "active" /\ BranchMoved(b, "inactive")

close_branch(b) ==
    /\ branch[b] = "inactive"
    /\ NoCustomers(b) /\ NoPendingInvitation(b) /\ NoAssignment(b) /\ NoGrant(b)
    /\ NoReview(b) /\ NoOpenQuote(b) /\ NoOpenOrder(b) /\ NoOpenCase(b)
    /\ BranchMoved(b, "closed")

create_branch_role_grant(p, b) ==
    /\ branch[b] = "active" /\ <<p, b>> \notin grants
    /\ GrantsAre(grants \union {<<p, b>>})

revoke_branch_role_grant(p, b) ==
    /\ <<p, b>> \in grants
    /\ ~Assigned(p, b) /\ Replaceable(p, b)
    /\ GrantsAre(grants \ {<<p, b>>})

create_quote(k) ==
    /\ Active(k) /\ InActiveBranch(k) /\ ~OpenWork(k)
    /\ WorkIs(k, [status |-> "quote", case |-> FALSE, branch |-> customer[k].branch])

create_order(k) ==
    /\ Active(k) /\ InActiveBranch(k) /\ work[k].status = "quote"
    /\ WorkMoved(k, "draft")

submit_order(k) ==
    /\ Active(k) /\ InActiveBranch(k)
    /\ work[k].status = "draft" /\ ~work[k].case
    /\ IndependentApprovers(k, work[k].branch) # {}
    /\ WorkMoved(k, "review")

approve_order(k, p) ==
    /\ Active(k) /\ InActiveBranch(k) /\ work[k].status = "review"
    /\ p \in IndependentApprovers(k, work[k].branch)
    /\ WorkMoved(k, "approved")

reject_order(k, p) ==
    /\ work[k].status = "review"
    /\ p \in IndependentApprovers(k, work[k].branch)
    /\ WorkMoved(k, "ended")

request_cancellation(k) ==
    /\ InOpenBranch(k) /\ work[k].status \in {"draft", "approved"} /\ ~work[k].case
    /\ IndependentApprovers(k, work[k].branch) # {}
    /\ WorkIs(k, [work[k] EXCEPT !.case = TRUE])

(* The order is as it was when the case was filed: nothing shows outside. *)
approve_cancellation(k, p) ==
    /\ work[k].case /\ work[k].status \in {"draft", "approved"}
    /\ p \in IndependentApprovers(k, work[k].branch)
    /\ WorkIs(k, [work[k] EXCEPT !.case = FALSE, !.status = "ended"])

reject_cancellation(k, p) ==
    /\ work[k].case
    /\ p \in IndependentApprovers(k, work[k].branch)
    /\ WorkIs(k, [work[k] EXCEPT !.case = FALSE])

-----------------------------------------------------------------------------
(* An agency at rest: every branch active, established customers with an        *)
(* account of their own, nothing pending but perhaps an order.                 *)
Init ==
    /\ branch = [b \in Branches |-> "active"]
    /\ grants \subseteq Members \X Branches
    /\ customer \in [Customers -> [branch : Branches, status : {"active"}, account : Accounts]
                                    \union {NoCustomer}]
    /\ \A k, c \in Customers :
         k # c => customer[k].account = Nobody \/ customer[k].account # customer[c].account
    /\ work \in [Customers -> WorkRow]
    /\ \A k \in Customers :
         work[k] # NoWork =>
           /\ Exists(k) /\ work[k].branch = customer[k].branch
           /\ work[k].status \in {"draft", "approved"} /\ ~work[k].case
    /\ invitation = [k \in Customers |-> NoInvitation]
    /\ advisor = [k \in Customers |-> NoAdvisor]

CustomerCommands ==
    \E k \in Customers :
       \/ \E b \in Branches : create_customer(k, b)
       \/ \E u \in Accounts : issue_customer_claim_invitation(k, u) \/ claim_customer(k, u)
       \/ revoke_customer_claim_invitation(k) \/ InvitationRunsOut(k)
       \/ activate_customer(k) \/ deactivate_customer(k) \/ withdraw_consent(k)
       \/ \E p \in Advisors : assign_customer_advisor(k, p)
       \/ end_customer_advisor_assignment(k)
       \/ \E b \in Branches, p \in Advisors \union {Nobody} : transfer_customer_branch(k, b, p)

BranchCommands ==
    \E b \in Branches :
       \/ deactivate_branch(b) \/ close_branch(b)
       \/ \E p \in Members : create_branch_role_grant(p, b) \/ revoke_branch_role_grant(p, b)

WorkCommands ==
    \E k \in Customers :
       \/ create_quote(k) \/ create_order(k) \/ submit_order(k) \/ request_cancellation(k)
       \/ \E p \in Approvers : \/ approve_order(k, p) \/ reject_order(k, p)
                               \/ approve_cancellation(k, p) \/ reject_cancellation(k, p)

Next == CustomerCommands \/ BranchCommands \/ WorkCommands

Spec == Init /\ [][Next]_tables
=============================================================================
