----------------------------- MODULE DeskGuards -----------------------------
(* What the triggers of migrations 0004, 0005, 0007 and 0008 accept on the tables *)
(* of the desk, whoever writes there.  A row trigger looks at a changed row and    *)
(* its old version and locks and reads other rows, a deferred one at the rows as  *)
(* they are at the end of the transaction.  The events every change needs, the    *)
(* revisions, the timestamps and the consent records are left out.               *)
EXTENDS DeskTables

(* A customer who may be sold something, where he is now *)
Trades(k) ==
    Active(k) /\ InActiveBranch(k) /\ customer[k].account # Nobody /\ work[k].branch = customer[k].branch

SomeApprover(b) == \E p \in Approvers : <<p, b>> \in grants

-----------------------------------------------------------------------------
(* zhixing_guard_agency_branch_lifecycle counts what is left in a branch.          *)
Deserted(b) ==
    /\ \A k \in Customers :
         /\ customer[k].branch # b /\ advisor[k][2] # b
         /\ invitation[k].branch = b => invitation[k].status # "pending"
         /\ work[k].branch = b => ~OpenWork(k)
    /\ \A p \in Members : <<p, b>> \notin grants

BranchGuard(b) ==
    \/ branch[b] = "active" /\ branch'[b] = "inactive"
    \/ branch[b] = "inactive" /\ branch'[b] = "closed" /\ Deserted(b)

-----------------------------------------------------------------------------
(* zhixing_guard_customer_branch_transfer_insert, on the transfer's row, and the  *)
(* deferred zhixing_validate_customer_branch_transfer                            *)
TransferGuard(k) ==
    LET old == customer[k]  new == customer'[k] IN
    /\ <<new.status, new.account>> = <<old.status, old.account>>
    /\ branch[old.branch] \in {"active", "inactive"} /\ branch[new.branch] = "active"
    /\ invitation[k].status # "pending" /\ ~OpenWork(k)
    /\ advisor'[k] # NoAdvisor => advisor'[k][2] = new.branch /\ new.status = "active"

(* An account comes with a claimed invitation and never changes. *)
BindingGuard(k) ==
    LET old == customer[k]  new == customer'[k] IN
    /\ new.account # old.account => old.account = Nobody /\ new.status = "invited"
    /\ new.account # Nobody /\ invitation'[k].status # "none" =>
         invitation'[k].status = "claimed" /\ invitation'[k].target = new.account

(* An active customer is served by an active branch; in an inactive one nothing  *)
(* about him changes.                                                           *)
ActiveGuard(k) ==
    LET old == customer[k]  new == customer'[k] IN
    new.status = "active" =>
      /\ new.account # Nobody
      /\ branch[new.branch] = "active" \/ (branch[new.branch] = "inactive" /\ new = old)
      /\ old.status # "active" => work[k].status # "review"

(* zhixing_guard_agency_customer_lifecycle and the deferred                       *)
(* zhixing_validate_agency_customer_claim_consent                                *)
CustomerGuard(k) ==
    LET old == customer[k]  new == customer'[k] IN
    IF old = NoCustomer
    THEN new.account = Nobody /\ new.status # "active" /\ branch[new.branch] = "active"
    ELSE /\ new # NoCustomer
         /\ new.branch # old.branch => TransferGuard(k)
         /\ BindingGuard(k) /\ ActiveGuard(k)

(* zhixing_guard_agency_customer_invitation, its deferred companion, and two      *)
(* unique indexes: one pending invitation of a customer, one of a target         *)
InvitationGuard(k) ==
    LET old == invitation[k]  new == invitation'[k] IN
    IF old.status # "pending"
    THEN /\ new.status = "pending" /\ InActiveBranch(k) /\ new.branch = customer[k].branch
         /\ customer'[k].account \in {Nobody, new.target}
         /\ \A c \in Customers \ {k} :
              invitation'[c].status = "pending" => invitation'[c].target # new.target
    ELSE /\ <<new.branch, new.target>> = <<old.branch, old.target>>
         /\ new.status \in {"claimed", "revoked"}
         /\ new.status = "claimed" =>
              /\ ~old.expired /\ InActiveBranch(k) /\ new.branch = customer[k].branch
              /\ customer'[k].account = new.target

-----------------------------------------------------------------------------
(* zhixing_guard_customer_advisor_assignment and the deferred                     *)
(* zhixing_validate_customer_advisor_assignment_current_branch                   *)
AssignmentGuard(k) ==
    LET new == advisor'[k] IN
    new # NoAdvisor =>
      /\ new \in grants /\ branch[new[2]] = "active"
      /\ customer'[k].status = "active" /\ customer'[k].branch = new[2]

(* zhixing_guard_agency_branch_role_grant and                                     *)
(* zhixing_guard_cancellation_approver_availability                              *)
GrantGuard(p, b) ==
    IF <<p, b>> \in grants'
    THEN branch[b] = "active"
    ELSE /\ ~Assigned(p, b)
         /\ p \in Approvers =>
              \A k \in Customers : AwaitsApproval(k) /\ work[k].branch = b =>
                \E q \in Approvers \ {p} : <<q, b>> \in grants /\ q # customer[k].account

-----------------------------------------------------------------------------
(* zhixing_guard_agency_quote_mutation, zhixing_guard_agency_order_mutation and   *)
(* zhixing_guard_secure_customer_transaction_0005 on a new quote or order, and    *)
(* the deferred zhixing_validate_agency_order_review_consistency.  An order or a  *)
(* quote may end by settlement in any branch.                                    *)
StatusGuard(k) ==
    LET from == work[k].status  to == work'[k].status  home == work'[k].branch IN
    \/ from \notin OpenStatuses /\ to = "quote" /\ Trades(k)'
    \/ from = "quote" /\ to = "draft" /\ Trades(k)'
    \/ from = "draft" /\ to = "review" /\ ~work'[k].case
       /\ branch[home] = "active" /\ SomeApprover(home)
    \/ from = "review" /\ to = "approved" /\ Trades(k)' /\ IndependentApprovers(k, home) # {}
    \/ from = "review" /\ to = "ended"
       /\ branch[home] # "closed" /\ IndependentApprovers(k, home) # {}
    \/ from \in {"quote", "draft", "approved"} /\ to = "ended"

(* zhixing_guard_agency_order_cancellation_case: filed and decided while the      *)
(* branch is not closed, on an order that is not under review                    *)
CaseGuard(k) ==
    /\ branch[work[k].branch] # "closed" /\ IndependentApprovers(k, work[k].branch) # {}
    /\ work'[k].case => work'[k].status = work[k].status /\ work[k].status \in {"draft", "approved"}

WorkGuard(k) ==
    /\ work'[k].branch # work[k].branch => work'[k].status = "quote" /\ ~OpenWork(k)
    /\ work'[k].status # work[k].status => StatusGuard(k)
    /\ work'[k].case # work[k].case => CaseGuard(k)

-----------------------------------------------------------------------------
(* The triggers that fire for a transaction that changes these rows.  To assign   *)
(* an advisor or end that advances the customer's revision, so it updates his row  *)
(* as well; that an invitation runs out is no update.                             *)
AcceptedStep ==
    /\ \A b \in Branches : branch'[b] # branch[b] => BranchGuard(b)
    /\ \A p \in Members, b \in Branches :
         (<<p, b>> \in grants') # (<<p, b>> \in grants) => GrantGuard(p, b)
    /\ \A k \in Customers :
         /\ customer'[k] # customer[k] \/ advisor'[k] # advisor[k] => CustomerGuard(k)
         /\ invitation'[k].status # invitation[k].status => InvitationGuard(k)
         /\ advisor'[k] # advisor[k] => AssignmentGuard(k)
         /\ work'[k] # work[k] => WorkGuard(k)

GuardedDesk == [][AcceptedStep]_tables
=============================================================================
