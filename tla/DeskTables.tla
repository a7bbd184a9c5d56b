----------------------------- MODULE DeskTables -----------------------------
(* The tables of a travel agency's desk: its branches, the people granted a role *)
(* there, and the customers who belong to a branch, with their invitation, their *)
(* advisor and their open work; what the commands ask of these rows, and what    *)
(* each of them writes.                                                         *)
(*                                                                            *)
(* A customer has one piece of work at a time.  issue_quote and accept_quote    *)
(* leave a quote a quote here; what an order shows outside is AgencyOrders'.    *)
(* Consent is granted throughout and only its withdrawal is a command; blocked    *)
(* customers, and those bound before there were invitations, are left out.      *)
CONSTANTS
    Branches,       (* of one agency *)
    Customers,
    Approvers,      (* members with the role `approver` *)
    Advisors,       (* members with the role `travel_advisor` *)
    Accounts,       (* users; a member may be a customer as well *)
    NoBranch,
    Nobody

ASSUME DeskConstants ==
    /\ NoBranch \notin Branches
    /\ Nobody \notin Accounts \union Advisors

VARIABLES
    branch,         (* branch.status *)
    grants,         (* active role grants, <<member, branch>> *)
    customer,       (* branch, status and account of a customer *)
    invitation,     (* the latest invitation: status, branch and target *)
    advisor,        (* the active advisor assignment: <<advisor, branch>> *)
    work            (* status of the quote or order, open case, branch *)

tables == <<branch, grants, customer, invitation, advisor, work>>

Members == Approvers \union Advisors

NoCustomer == [branch |-> NoBranch, status |-> "none", account |-> Nobody]
NoInvitation == [status |-> "none", branch |-> NoBranch, target |-> Nobody, expired |-> FALSE]
NoWork == [status |-> "none", case |-> FALSE, branch |-> NoBranch]
NoAdvisor == <<Nobody, NoBranch>>

CustomerStatuses == {"prospect", "invited", "active", "inactive"}
OpenStatuses == {"quote", "draft", "review", "approved"}

CustomerRow ==
    [branch : Branches, status : CustomerStatuses, account : Accounts \union {Nobody}]
InvitationRow ==
    [status : {"none", "pending", "claimed", "revoked"}, branch : Branches \union {NoBranch},
     target : Accounts \union {Nobody}, expired : BOOLEAN]
WorkRow ==
    [status : OpenStatuses \union {"none", "ended"}, case : BOOLEAN, branch : Branches \union {NoBranch}]

TypeOK ==
    /\ branch \in [Branches -> {"active", "inactive", "closed"}]
    /\ grants \subseteq Members \X Branches
    /\ customer \in [Customers -> CustomerRow \union {NoCustomer}]
    /\ invitation \in [Customers -> InvitationRow]
    /\ advisor \in [Customers -> (Advisors \X Branches) \union {NoAdvisor}]
    /\ work \in [Customers -> WorkRow]

-----------------------------------------------------------------------------
(* What the commands ask *)

Exists(k) == customer[k] # NoCustomer
InActiveBranch(k) == Exists(k) /\ branch[customer[k].branch] = "active"
InOpenBranch(k) == Exists(k) /\ branch[customer[k].branch] # "closed"
Active(k) == customer[k].status = "active"
OpenWork(k) == work[k].status \in OpenStatuses \/ work[k].case
AwaitsApproval(k) == work[k].status = "review" \/ work[k].case

(* _ensure_branch_has_active_approver: somebody beside the customer *)
IndependentApprovers(k, b) == {p \in Approvers : <<p, b>> \in grants /\ p # customer[k].account}

BoundElsewhere(k, u) == \E c \in Customers \ {k} : customer[c].account = u
InvitedElsewhere(u) ==
    \E c \in Customers : invitation[c].status = "pending" /\ invitation[c].target = u

Assigned(p, b) == \E k \in Customers : advisor[k] = <<p, b>>

(* Mutant: any other approver counts, the customer himself included. *)
ReplaceableByAnyone(p, b) ==
    p \in Approvers =>
      \A k \in Customers :
         AwaitsApproval(k) /\ work[k].branch = b => \E q \in Approvers \ {p} : <<q, b>> \in grants

(* revoke_branch_role_grant: what awaits approval keeps somebody to decide it *)
Replaceable(p, b) ==
    p \in Approvers =>
      \A k \in Customers :
         AwaitsApproval(k) /\ work[k].branch = b => IndependentApprovers(k, b) \ {p} # {}

(* _branch_closure_readiness, the counts one by one *)
NoCustomers(b) == \A k \in Customers : customer[k].branch # b
NoPendingInvitation(b) ==
    \A k \in Customers : invitation[k].branch = b => invitation[k].status # "pending"
NoAssignment(b) == \A k \in Customers : advisor[k][2] # b
NoGrant(b) == \A p \in Members : <<p, b>> \notin grants
NoReview(b) == \A k \in Customers : work[k].branch = b => work[k].status # "review"
NoOpenQuote(b) == \A k \in Customers : work[k].branch = b => work[k].status # "quote"
NoOpenOrder(b) ==
    \A k \in Customers : work[k].branch = b => work[k].status \notin {"draft", "review", "approved"}
NoOpenCase(b) == \A k \in Customers : work[k].branch = b => ~work[k].case

-----------------------------------------------------------------------------
(* What the commands write.  Each of these is the whole write of its command.  *)

CustomerCreated(k, b) ==
    /\ customer' = [customer EXCEPT ![k] = [branch |-> b, status |-> "prospect", account |-> Nobody]]
    /\ UNCHANGED <<branch, grants, invitation, advisor, work>>

InvitationIssued(k, u) ==
    /\ invitation' = [invitation EXCEPT ![k] =
                        [status |-> "pending", branch |-> customer[k].branch, target |-> u,
                         expired |-> FALSE]]
    /\ UNCHANGED <<branch, grants, customer, advisor, work>>

InvitationRevoked(k) ==
    /\ invitation' = [invitation EXCEPT ![k].status = "revoked"]
    /\ UNCHANGED <<branch, grants, customer, advisor, work>>

(* claimed_at lies before expires_at, whatever the time is at the commit. *)
CustomerClaimed(k, u) ==
    /\ invitation' = [invitation EXCEPT ![k].status = "claimed", ![k].expired = FALSE]
    /\ customer' = [customer EXCEPT ![k].status = "invited", ![k].account = u]
    /\ UNCHANGED <<branch, grants, advisor, work>>

CustomerActivated(k) ==
    /\ customer' = [customer EXCEPT ![k].status = "active"]
    /\ UNCHANGED <<branch, grants, invitation, advisor, work>>

(* _end_active_assignment and _settle_customer_transactions: an order under     *)
(* review, or a case on an order, is left for its approver.                    *)
RelationshipEnded(k) ==
    /\ customer' = [customer EXCEPT ![k].status = "inactive"]
    /\ advisor' = [advisor EXCEPT ![k] = NoAdvisor]
    /\ work' = IF work[k].status \in {"quote", "draft", "approved"}
               THEN [work EXCEPT ![k].status = "ended"] ELSE work
    /\ UNCHANGED <<branch, grants, invitation>>

AdvisorAssigned(k, p) ==
    /\ advisor' = [advisor EXCEPT ![k] = <<p, customer[k].branch>>]
    /\ UNCHANGED <<branch, grants, customer, invitation, work>>

AdvisorUnassigned(k) ==
    /\ advisor' = [advisor EXCEPT ![k] = NoAdvisor]
    /\ UNCHANGED <<branch, grants, customer, invitation, work>>

(* With an advisor of the target branch, or with Nobody *)
CustomerTransferred(k, b, p) ==
    /\ customer' = [customer EXCEPT ![k].branch = b]
    /\ advisor' = [advisor EXCEPT ![k] = IF p = Nobody THEN NoAdvisor ELSE <<p, b>>]
    /\ UNCHANGED <<branch, grants, invitation, work>>

(* expires_at passes; the row stays pending. *)
InvitationRunsOut(k) ==
    /\ invitation[k].status = "pending" /\ ~invitation[k].expired
    /\ invitation' = [invitation EXCEPT ![k].expired = TRUE]
    /\ UNCHANGED <<branch, grants, customer, advisor, work>>

BranchMoved(b, status) ==
    /\ branch' = [branch EXCEPT ![b] = status]
    /\ UNCHANGED <<grants, customer, invitation, advisor, work>>

GrantsAre(new) ==
    /\ grants' = new
    /\ UNCHANGED <<branch, customer, invitation, advisor, work>>

WorkIs(k, new) ==
    /\ work' = [work EXCEPT ![k] = new]
    /\ UNCHANGED <<branch, grants, customer, invitation, advisor>>

WorkMoved(k, status) == WorkIs(k, [work[k] EXCEPT !.status = status])

-----------------------------------------------------------------------------
(* Properties *)

(* Open work, a pending invitation and an advisor are of the branch where the    *)
(* customer is, wherever transfers have taken the customer meanwhile: otherwise  *)
(* nobody of the new branch could finish, revoke or claim them, and the old one   *)
(* could not close.                                                            *)
WorkIsAtHome ==
    \A k \in Customers :
        /\ OpenWork(k) => Exists(k) /\ work[k].branch = customer[k].branch
        /\ advisor[k] # NoAdvisor => advisor[k][2] = customer[k].branch
        /\ invitation[k].status = "pending" =>
             Exists(k) /\ invitation[k].branch = customer[k].branch

(* Closing a branch is final, so it leaves nobody and nothing behind: not by a  *)
(* command that was under way, nor by one that comes later.                    *)
ClosedIsEmpty ==
    \A b \in Branches : branch[b] = "closed" =>
        /\ NoCustomers(b) /\ NoPendingInvitation(b) /\ NoAssignment(b) /\ NoGrant(b)
        /\ \A k \in Customers : work[k].branch = b => ~OpenWork(k)

(* Whatever is submitted for approval can be decided: an approver of its branch *)
(* who is not the customer stays, although roles are revoked, customers move    *)
(* and branches close meanwhile.                                               *)
ApprovalsHaveAnApprover ==
    \A k \in Customers : AwaitsApproval(k) => IndependentApprovers(k, work[k].branch) # {}

(* An advisor in charge of a customer still holds the role in that branch. *)
AdvisorsHoldTheirRole ==
    \A k \in Customers : advisor[k] # NoAdvisor => advisor[k] \in grants

(* An account is bound to one customer of the agency at most, and two pending   *)
(* invitations name different accounts, whoever issues and claims at once.     *)
OneCustomerPerAccount ==
    \A k, c \in Customers : k # c =>
        /\ customer[k].account = Nobody \/ customer[k].account # customer[c].account
        /\ invitation[k].status = "pending" /\ invitation[c].status = "pending"
             => invitation[k].target # invitation[c].target
=============================================================================
