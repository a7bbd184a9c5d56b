----------------------------- MODULE DeskProofs -----------------------------
(* Theorems about Desk, for any branches, customers, accounts, advisors and     *)
(* approvers: its properties, and that the triggers accept its commands.        *)
EXTENDS Desk, DeskGuards, TLAPS

-----------------------------------------------------------------------------
(* Rows *)

LEMMA Existing ==
    ASSUME TypeOK, NEW k \in Customers
    PROVE  /\ Exists(k) <=> customer[k] \in CustomerRow
           /\ Exists(k) <=> customer[k].branch \in Branches
           /\ Exists(k) <=> customer[k].status \in CustomerStatuses
           /\ ~Exists(k) => customer[k].branch = NoBranch /\ customer[k].status = "none"
                              /\ customer[k].account = Nobody
BY DeskConstants DEF TypeOK, Exists, CustomerRow, NoCustomer, CustomerStatuses

-----------------------------------------------------------------------------
(* Type correctness *)

LEMMA RowTypes ==
    ASSUME TypeOK, NEW k \in Customers
    PROVE  /\ \A new \in CustomerRow :
                [customer EXCEPT ![k] = new] \in [Customers -> CustomerRow \union {NoCustomer}]
           /\ \A new \in InvitationRow :
                [invitation EXCEPT ![k] = new] \in [Customers -> InvitationRow]
           /\ \A new \in WorkRow : [work EXCEPT ![k] = new] \in [Customers -> WorkRow]
           /\ invitation[k] \in InvitationRow /\ work[k] \in WorkRow
BY DEF TypeOK

LEMMA TypeInit == Init => TypeOK
<1> SUFFICES ASSUME Init PROVE TypeOK
  OBVIOUS
<1>1. customer \in [Customers -> CustomerRow \union {NoCustomer}]
  BY DEF Init, CustomerRow, CustomerStatuses
<1>2. NoInvitation \in InvitationRow
  BY DEF NoInvitation, InvitationRow
<1> QED BY <1>1, <1>2 DEF Init, TypeOK

LEMMA CustomerTypes ==
    ASSUME TypeOK, NEW k \in Customers, Exists(k)
    PROVE  /\ [customer EXCEPT ![k].status = "active"] \in [Customers -> CustomerRow \union {NoCustomer}]
           /\ [customer EXCEPT ![k].status = "inactive"] \in [Customers -> CustomerRow \union {NoCustomer}]
           /\ \A u \in Accounts : [customer EXCEPT ![k].status = "invited", ![k].account = u]
                \in [Customers -> CustomerRow \union {NoCustomer}]
           /\ \A b \in Branches :
                [customer EXCEPT ![k].branch = b] \in [Customers -> CustomerRow \union {NoCustomer}]
<1>1. customer[k] \in CustomerRow
  BY Existing
<1>2. /\ [customer[k] EXCEPT !.status = "active"] \in CustomerRow
      /\ [customer[k] EXCEPT !.status = "inactive"] \in CustomerRow
      /\ \A u \in Accounts : [customer[k] EXCEPT !.status = "invited", !.account = u] \in CustomerRow
      /\ \A b \in Branches : [customer[k] EXCEPT !.branch = b] \in CustomerRow
  BY <1>1 DEF CustomerRow, CustomerStatuses
<1> QED BY <1>2, RowTypes DEF TypeOK

LEMMA InvitationTypes ==
    ASSUME TypeOK, NEW k \in Customers
    PROVE  /\ [invitation EXCEPT ![k].status = "revoked"] \in [Customers -> InvitationRow]
           /\ [invitation EXCEPT ![k].status = "claimed", ![k].expired = FALSE]
                \in [Customers -> InvitationRow]
           /\ [invitation EXCEPT ![k].expired = TRUE] \in [Customers -> InvitationRow]
           /\ \A u \in Accounts :
                [invitation EXCEPT ![k] = [status |-> "pending", branch |-> customer[k].branch,
                                           target |-> u, expired |-> FALSE]]
                  \in [Customers -> InvitationRow]
<1>1. /\ [invitation[k] EXCEPT !.status = "revoked"] \in InvitationRow
      /\ [invitation[k] EXCEPT !.status = "claimed", !.expired = FALSE] \in InvitationRow
      /\ [invitation[k] EXCEPT !.expired = TRUE] \in InvitationRow
  BY DEF TypeOK, InvitationRow
<1>2. \A u \in Accounts :
        [status |-> "pending", branch |-> customer[k].branch, target |-> u, expired |-> FALSE]
          \in InvitationRow
  <2>1. customer[k].branch \in Branches \union {NoBranch}
    BY Existing
  <2> QED BY <2>1 DEF InvitationRow
<1> QED BY <1>1, <1>2, RowTypes DEF TypeOK

LEMMA WorkTypes ==
    ASSUME TypeOK, NEW k \in Customers, NEW s \in OpenStatuses \union {"ended"}, NEW c \in BOOLEAN
    PROVE  /\ [work[k] EXCEPT !.status = s] \in WorkRow
           /\ [work[k] EXCEPT !.case = c] \in WorkRow
           /\ [work[k] EXCEPT !.case = c, !.status = s] \in WorkRow
           /\ \A b \in Branches : [status |-> "quote", case |-> FALSE, branch |-> b] \in WorkRow
BY DEF TypeOK, WorkRow, OpenStatuses

LEMMA WorkIsTyped ==
    ASSUME TypeOK, NEW k \in Customers, NEW new \in WorkRow, WorkIs(k, new)
    PROVE  TypeOK'
BY RowTypes DEF TypeOK, WorkIs

LEMMA TypeNext == ASSUME TypeOK, [Next]_tables PROVE TypeOK'
<1>1. ASSUME NEW k \in Customers, NEW b \in Branches, create_customer(k, b) PROVE TypeOK'
  <2>1. [branch |-> b, status |-> "prospect", account |-> Nobody] \in CustomerRow
    BY DEF CustomerRow, CustomerStatuses
  <2> QED BY <1>1, <2>1, RowTypes DEF create_customer, CustomerCreated, TypeOK
<1>2. ASSUME NEW k \in Customers, NEW u \in Accounts, issue_customer_claim_invitation(k, u) PROVE TypeOK'
  BY <1>2, InvitationTypes DEF issue_customer_claim_invitation, InvitationIssued, TypeOK
<1>3. ASSUME NEW k \in Customers, revoke_customer_claim_invitation(k) PROVE TypeOK'
  BY <1>3, InvitationTypes DEF revoke_customer_claim_invitation, InvitationRevoked, TypeOK
<1>4. ASSUME NEW k \in Customers, InvitationRunsOut(k) PROVE TypeOK'
  BY <1>4, InvitationTypes DEF InvitationRunsOut, TypeOK
<1>5. ASSUME NEW k \in Customers, NEW u \in Accounts, claim_customer(k, u) PROVE TypeOK'
  <2>1. Exists(k)
    BY <1>5 DEF claim_customer, InActiveBranch
  <2> QED BY <1>5, <2>1, CustomerTypes, InvitationTypes DEF claim_customer, CustomerClaimed, TypeOK
<1>6. ASSUME NEW k \in Customers, activate_customer(k) PROVE TypeOK'
  BY <1>6, CustomerTypes DEF activate_customer, CustomerActivated, InActiveBranch, TypeOK
<1>7. ASSUME NEW k \in Customers, deactivate_customer(k) \/ withdraw_consent(k) PROVE TypeOK'
  <2>1. Exists(k) /\ RelationshipEnded(k)
    BY <1>7 DEF deactivate_customer, withdraw_consent, Active, Exists, NoCustomer
  <2>2. customer' \in [Customers -> CustomerRow \union {NoCustomer}]
    BY <2>1, CustomerTypes DEF RelationshipEnded
  <2>3. work' \in [Customers -> WorkRow]
    BY <2>1, WorkTypes, RowTypes DEF RelationshipEnded, TypeOK
  <2> QED BY <2>1, <2>2, <2>3 DEF RelationshipEnded, TypeOK
<1>8. ASSUME NEW k \in Customers, NEW p \in Advisors, assign_customer_advisor(k, p) PROVE TypeOK'
  <2>1. customer[k].branch \in Branches
    BY <1>8, Existing DEF assign_customer_advisor, InActiveBranch
  <2> QED BY <1>8, <2>1 DEF assign_customer_advisor, AdvisorAssigned, TypeOK
<1>9. ASSUME NEW k \in Customers, end_customer_advisor_assignment(k) PROVE TypeOK'
  BY <1>9 DEF end_customer_advisor_assignment, AdvisorUnassigned, TypeOK
<1>10. ASSUME NEW k \in Customers, NEW b \in Branches, NEW p \in Advisors \union {Nobody},
              transfer_customer_branch(k, b, p)
       PROVE TypeOK'
  <2>1. Exists(k) /\ CustomerTransferred(k, b, p)
    BY <1>10 DEF transfer_customer_branch
  <2>2. customer' \in [Customers -> CustomerRow \union {NoCustomer}]
    BY <2>1, CustomerTypes DEF CustomerTransferred
  <2>3. advisor' \in [Customers -> (Advisors \X Branches) \union {NoAdvisor}]
    BY <2>1 DEF CustomerTransferred, TypeOK
  <2> QED BY <2>1, <2>2, <2>3 DEF CustomerTransferred, TypeOK
<1>11. ASSUME NEW b \in Branches, deactivate_branch(b) \/ close_branch(b) PROVE TypeOK'
  BY <1>11 DEF deactivate_branch, close_branch, BranchMoved, TypeOK
<1>12. ASSUME NEW b \in Branches, NEW p \in Members,
              create_branch_role_grant(p, b) \/ revoke_branch_role_grant(p, b)
       PROVE TypeOK'
  <2>1. grants' \subseteq Members \X Branches
    BY <1>12 DEF create_branch_role_grant, revoke_branch_role_grant, GrantsAre, TypeOK
  <2> QED BY <1>12, <2>1 DEF create_branch_role_grant, revoke_branch_role_grant, GrantsAre, TypeOK
<1>13. ASSUME NEW k \in Customers, create_quote(k) PROVE TypeOK'
  <2>1. customer[k].branch \in Branches
    BY <1>13, Existing DEF create_quote, InActiveBranch
  <2> QED BY <1>13, <2>1, WorkTypes, WorkIsTyped DEF create_quote, OpenStatuses
<1>14. ASSUME NEW k \in Customers, create_order(k) \/ submit_order(k) PROVE TypeOK'
  BY <1>14, WorkTypes, WorkIsTyped DEF create_order, submit_order, WorkMoved, OpenStatuses
<1>15. ASSUME NEW k \in Customers, request_cancellation(k) PROVE TypeOK'
  BY <1>15, WorkTypes, WorkIsTyped DEF request_cancellation, OpenStatuses
<1>16. ASSUME NEW k \in Customers, NEW p \in Approvers, approve_order(k, p) \/ reject_order(k, p)
       PROVE TypeOK'
  BY <1>16, WorkTypes, WorkIsTyped DEF approve_order, reject_order, WorkMoved, OpenStatuses
<1>17. ASSUME NEW k \in Customers, NEW p \in Approvers,
              approve_cancellation(k, p) \/ reject_cancellation(k, p)
       PROVE TypeOK'
  BY <1>17, WorkTypes, WorkIsTyped DEF approve_cancellation, reject_cancellation, OpenStatuses
<1>18. CASE UNCHANGED tables
  BY <1>18 DEF tables, TypeOK
<1> QED
  BY <1>1, <1>2, <1>3, <1>4, <1>5, <1>6, <1>7, <1>8, <1>9, <1>10, <1>11, <1>12, <1>13, <1>14,
     <1>15, <1>16, <1>17, <1>18
     DEF Next, CustomerCommands, BranchCommands, WorkCommands

(* Rows keep the columns and the values that the tables give them. *)
THEOREM TypeCorrect == Spec => []TypeOK
BY TypeInit, TypeNext, PTL DEF Spec

-----------------------------------------------------------------------------
(* What a step may do to one customer *)

WorkNeedsACustomer ==
    \A k \in Customers : OpenWork(k) => customer[k].status \in {"active", "inactive"}

(* the commands on work that is there *)
WorkMove(k) ==
    \/ create_order(k) \/ submit_order(k) \/ request_cancellation(k)
    \/ \E p \in Approvers : \/ approve_order(k, p) \/ reject_order(k, p)
                            \/ approve_cancellation(k, p) \/ reject_cancellation(k, p)

LEMMA WorkMoves ==
    ASSUME TypeOK, NEW k \in Customers, WorkMove(k)
    PROVE  /\ UNCHANGED <<branch, grants, customer, invitation, advisor>>
           /\ OpenWork(k)
           /\ work' = [work EXCEPT ![k] = work'[k]] /\ work'[k].branch = work[k].branch
<1> USE DEF OpenWork, OpenStatuses
<1>1. work[k] \in WorkRow /\ DOMAIN work = Customers
  BY DEF TypeOK
<1>2. CASE create_order(k)
  BY <1>1, <1>2 DEF create_order, WorkMoved, WorkIs, WorkRow
<1>3. CASE submit_order(k)
  BY <1>1, <1>3 DEF submit_order, WorkMoved, WorkIs, WorkRow
<1>4. CASE request_cancellation(k)
  BY <1>1, <1>4 DEF request_cancellation, WorkIs, WorkRow
<1>5. ASSUME NEW p \in Approvers, approve_order(k, p) \/ reject_order(k, p)
      PROVE  /\ UNCHANGED <<branch, grants, customer, invitation, advisor>>
             /\ OpenWork(k)
             /\ work' = [work EXCEPT ![k] = work'[k]] /\ work'[k].branch = work[k].branch
  BY <1>1, <1>5 DEF approve_order, reject_order, WorkMoved, WorkIs, WorkRow
<1>6. ASSUME NEW p \in Approvers, approve_cancellation(k, p) \/ reject_cancellation(k, p)
      PROVE  /\ UNCHANGED <<branch, grants, customer, invitation, advisor>>
             /\ OpenWork(k)
             /\ work' = [work EXCEPT ![k] = work'[k]] /\ work'[k].branch = work[k].branch
  BY <1>1, <1>6 DEF approve_cancellation, reject_cancellation, WorkIs, WorkRow
<1> QED BY <1>2, <1>3, <1>4, <1>5, <1>6 DEF WorkMove

(* A claim, an activation and the end of a relationship keep customer and branch. *)
LEMMA HomesStay ==
    ASSUME TypeOK, NEW k \in Customers,
           \/ \E u \in Accounts : claim_customer(k, u)
           \/ activate_customer(k) \/ deactivate_customer(k) \/ withdraw_consent(k)
    PROVE  \A c \in Customers : /\ customer'[c].branch = customer[c].branch
                                /\ Exists(c)' <=> Exists(c)
<1>1. Exists(k) /\ DOMAIN customer = Customers /\ DOMAIN customer[k] = {"branch", "status", "account"}
  BY DEF claim_customer, activate_customer, deactivate_customer, withdraw_consent, Active,
         InActiveBranch, Exists, NoCustomer, TypeOK, CustomerRow
<1>2. /\ customer'[k].branch = customer[k].branch
      /\ \A c \in Customers \ {k} : customer'[c] = customer[c]
  BY <1>1 DEF claim_customer, activate_customer, deactivate_customer, withdraw_consent,
              CustomerClaimed, CustomerActivated, RelationshipEnded
<1>3. customer'[k] # NoCustomer
  BY <1>1, <1>2, Existing, DeskConstants DEF NoCustomer
<1> QED BY <1>1, <1>2, <1>3 DEF Exists

LEMMA RelationshipEnds ==
    ASSUME TypeOK, NEW k \in Customers, deactivate_customer(k) \/ withdraw_consent(k)
    PROVE  /\ UNCHANGED <<branch, grants, invitation>>
           /\ advisor' = [advisor EXCEPT ![k] = NoAdvisor]
           /\ \A c \in Customers :
                /\ customer'[c].account = customer[c].account
                /\ work'[c].branch = work[c].branch /\ work'[c].case = work[c].case
                /\ work'[c].status \in {work[c].status, "ended"}
<1>1. RelationshipEnded(k) /\ DOMAIN customer = Customers /\ work \in [Customers -> WorkRow]
  BY DEF deactivate_customer, withdraw_consent, TypeOK
<1>2. DOMAIN customer[k] = {"branch", "status", "account"}
  BY DEF TypeOK, CustomerRow, NoCustomer
<1> QED BY <1>1, <1>2 DEF RelationshipEnded, WorkRow

LEMMA AccountsStay ==
    ASSUME TypeOK, NEW k \in Customers,
           \/ activate_customer(k)
           \/ \E b \in Branches, p \in Advisors \union {Nobody} : transfer_customer_branch(k, b, p)
    PROVE  /\ UNCHANGED <<grants, invitation, work>>
           /\ \A c \in Customers : customer'[c].account = customer[c].account
<1>1. DOMAIN customer = Customers /\ DOMAIN customer[k] = {"branch", "status", "account"}
  BY DEF TypeOK, CustomerRow, NoCustomer
<1>2. CASE activate_customer(k)
  BY <1>1, <1>2 DEF activate_customer, CustomerActivated
<1>3. ASSUME NEW b \in Branches, NEW p \in Advisors \union {Nobody}, transfer_customer_branch(k, b, p)
      PROVE  /\ UNCHANGED <<grants, invitation, work>>
             /\ \A c \in Customers : customer'[c].account = customer[c].account
  BY <1>1, <1>3 DEF transfer_customer_branch, CustomerTransferred
<1> QED BY <1>2, <1>3

LEMMA NoWorkBefore ==
    ASSUME TypeOK, WorkIsAtHome, NEW k \in Customers, ~Exists(k)
    PROVE  ~OpenWork(k) /\ advisor[k] = NoAdvisor /\ invitation[k].status # "pending"
BY Existing, DeskConstants DEF TypeOK, WorkIsAtHome, NoAdvisor

(* An invitation that is pending after one of these was so before, in its branch. *)
LEMMA PendingBefore ==
    ASSUME TypeOK, NEW k \in Customers,
           \/ revoke_customer_claim_invitation(k) \/ InvitationRunsOut(k)
           \/ \E u \in Accounts : claim_customer(k, u)
    PROVE  \A c \in Customers : invitation'[c].status = "pending" =>
             invitation[c].status = "pending" /\ invitation'[c].branch = invitation[c].branch
BY DEF revoke_customer_claim_invitation, InvitationRevoked, InvitationRunsOut, claim_customer,
       CustomerClaimed, TypeOK, InvitationRow

LEMMA WorkIsAtHomeNext == ASSUME TypeOK, WorkIsAtHome, [Next]_tables PROVE WorkIsAtHome'
<1> USE DEF WorkIsAtHome, OpenWork, Exists, TypeOK
<1>1. ASSUME NEW k \in Customers, NEW b \in Branches, create_customer(k, b) PROVE WorkIsAtHome'
  BY <1>1, NoWorkBefore DEF create_customer, CustomerCreated, NoCustomer
<1>2. ASSUME NEW k \in Customers, NEW u \in Accounts, issue_customer_claim_invitation(k, u)
      PROVE WorkIsAtHome'
  BY <1>2 DEF issue_customer_claim_invitation, InvitationIssued, InActiveBranch
<1>3. ASSUME NEW k \in Customers, revoke_customer_claim_invitation(k) \/ InvitationRunsOut(k)
      PROVE WorkIsAtHome'
  BY <1>3, PendingBefore DEF revoke_customer_claim_invitation, InvitationRevoked, InvitationRunsOut
<1>4. ASSUME NEW k \in Customers, NEW u \in Accounts, claim_customer(k, u) PROVE WorkIsAtHome'
  <2>1. \A c \in Customers : invitation'[c].status = "pending" =>
          invitation[c].status = "pending" /\ invitation'[c].branch = invitation[c].branch
    BY <1>4, PendingBefore
  <2>2. UNCHANGED <<advisor, work>>
    BY <1>4 DEF claim_customer, CustomerClaimed
  <2>3. \A c \in Customers : /\ customer'[c].branch = customer[c].branch
                             /\ Exists(c)' <=> Exists(c)
    BY <1>4, HomesStay
  <2> QED BY <2>1, <2>2, <2>3
<1>5. ASSUME NEW k \in Customers, activate_customer(k) PROVE WorkIsAtHome'
  BY <1>5, HomesStay DEF activate_customer, CustomerActivated
<1>6. ASSUME NEW k \in Customers, deactivate_customer(k) \/ withdraw_consent(k) PROVE WorkIsAtHome'
  BY <1>6, HomesStay, RelationshipEnds DEF OpenStatuses
<1>7. ASSUME NEW k \in Customers, NEW p \in Advisors, assign_customer_advisor(k, p) PROVE WorkIsAtHome'
  BY <1>7 DEF assign_customer_advisor, AdvisorAssigned
<1>8. ASSUME NEW k \in Customers, end_customer_advisor_assignment(k) PROVE WorkIsAtHome'
  BY <1>8 DEF end_customer_advisor_assignment, AdvisorUnassigned
<1>9. ASSUME NEW k \in Customers, NEW b \in Branches, NEW p \in Advisors \union {Nobody},
             transfer_customer_branch(k, b, p)
      PROVE WorkIsAtHome'
  BY <1>9 DEF transfer_customer_branch, CustomerTransferred
<1>10. ASSUME NEW b \in Branches, deactivate_branch(b) \/ close_branch(b) PROVE WorkIsAtHome'
  BY <1>10 DEF deactivate_branch, close_branch, BranchMoved
<1>11. ASSUME NEW b \in Branches, NEW p \in Members,
              create_branch_role_grant(p, b) \/ revoke_branch_role_grant(p, b)
       PROVE WorkIsAtHome'
  BY <1>11 DEF create_branch_role_grant, revoke_branch_role_grant, GrantsAre
<1>12. ASSUME NEW k \in Customers, create_quote(k) PROVE WorkIsAtHome'
  BY <1>12 DEF create_quote, WorkIs, InActiveBranch
<1>13. ASSUME NEW k \in Customers, WorkMove(k) PROVE WorkIsAtHome'
  BY <1>13, WorkMoves
<1>14. CASE UNCHANGED tables
  BY <1>14 DEF tables
<1> QED BY <1>1, <1>2, <1>3, <1>4, <1>5, <1>6, <1>7, <1>8, <1>9, <1>10, <1>11, <1>12, <1>13, <1>14
           DEF Next, CustomerCommands, BranchCommands, WorkCommands, WorkMove

LEMMA ClosedIsEmptyNext ==
    ASSUME TypeOK, WorkIsAtHome, ClosedIsEmpty, [Next]_tables PROVE ClosedIsEmpty'
<1> USE DEF ClosedIsEmpty, NoCustomers, NoPendingInvitation, NoAssignment, NoGrant, OpenWork, TypeOK
<1>1. ASSUME NEW k \in Customers, NEW b \in Branches, create_customer(k, b) PROVE ClosedIsEmpty'
  BY <1>1, NoWorkBefore DEF create_customer, CustomerCreated
<1>2. ASSUME UNCHANGED <<branch, grants, customer, advisor, work>>,
             \A k \in Customers : invitation'[k].status = "pending" =>
               \/ invitation[k].status = "pending" /\ invitation'[k].branch = invitation[k].branch
               \/ branch[invitation'[k].branch] = "active"
      PROVE ClosedIsEmpty'
  BY <1>2
<1>3. ASSUME NEW k \in Customers, NEW u \in Accounts, claim_customer(k, u) PROVE ClosedIsEmpty'
  <2>1. \A c \in Customers : invitation'[c].status = "pending" =>
          invitation[c].status = "pending" /\ invitation'[c].branch = invitation[c].branch
    BY <1>3, PendingBefore
  <2>2. UNCHANGED <<branch, grants, advisor, work>>
    BY <1>3 DEF claim_customer, CustomerClaimed
  <2>3. \A c \in Customers : customer'[c].branch = customer[c].branch
    BY <1>3, HomesStay
  <2> QED BY <2>1, <2>2, <2>3
<1>4. ASSUME NEW k \in Customers, activate_customer(k) PROVE ClosedIsEmpty'
  BY <1>4, HomesStay DEF activate_customer, CustomerActivated
<1>5. ASSUME NEW k \in Customers, deactivate_customer(k) \/ withdraw_consent(k) PROVE ClosedIsEmpty'
  <2>1. NoAdvisor[2] \notin Branches /\ "ended" \notin OpenStatuses
    BY DeskConstants DEF NoAdvisor, OpenStatuses
  <2>2. \A c \in Customers : /\ OpenWork(c)' => OpenWork(c) /\ work'[c].branch = work[c].branch
                             /\ advisor'[c] \in {advisor[c], NoAdvisor}
    BY <1>5, <2>1, RelationshipEnds
  <2>3. UNCHANGED <<branch, grants, invitation>> /\ \A c \in Customers : customer'[c].branch = customer[c].branch
    BY <1>5, HomesStay, RelationshipEnds
  <2>4. ASSUME NEW b \in Branches, branch[b] = "closed" PROVE NoAssignment(b)'
    BY <2>1, <2>2, <2>4
  <2> QED BY <2>2, <2>3, <2>4
<1>6. ASSUME NEW k \in Customers, NEW p \in Advisors, assign_customer_advisor(k, p) PROVE ClosedIsEmpty'
  BY <1>6 DEF assign_customer_advisor, AdvisorAssigned
<1>7. ASSUME NEW k \in Customers, end_customer_advisor_assignment(k) PROVE ClosedIsEmpty'
  BY <1>7, DeskConstants DEF end_customer_advisor_assignment, AdvisorUnassigned, NoAdvisor
<1>8. ASSUME NEW k \in Customers, NEW b \in Branches, NEW p \in Advisors \union {Nobody},
             transfer_customer_branch(k, b, p)
      PROVE ClosedIsEmpty'
  BY <1>8, DeskConstants DEF transfer_customer_branch, CustomerTransferred, NoAdvisor
<1>9. ASSUME NEW b \in Branches, deactivate_branch(b) PROVE ClosedIsEmpty'
  BY <1>9 DEF deactivate_branch, BranchMoved
<1>10. ASSUME NEW b \in Branches, close_branch(b) PROVE ClosedIsEmpty'
  BY <1>10 DEF close_branch, BranchMoved, NoReview, NoOpenQuote, NoOpenOrder, NoOpenCase, OpenStatuses
<1>11. ASSUME NEW b \in Branches, NEW p \in Members,
              create_branch_role_grant(p, b) \/ revoke_branch_role_grant(p, b)
       PROVE ClosedIsEmpty'
  BY <1>11 DEF create_branch_role_grant, revoke_branch_role_grant, GrantsAre
<1>12. ASSUME NEW k \in Customers, create_quote(k) PROVE ClosedIsEmpty'
  BY <1>12 DEF create_quote, WorkIs, InActiveBranch
<1>13. ASSUME NEW k \in Customers, WorkMove(k) PROVE ClosedIsEmpty'
  BY <1>13, WorkMoves
<1>14. ASSUME NEW k \in Customers, NEW u \in Accounts, issue_customer_claim_invitation(k, u)
       PROVE ClosedIsEmpty'
  BY <1>14, <1>2 DEF issue_customer_claim_invitation, InvitationIssued, InActiveBranch
<1>15. ASSUME NEW k \in Customers, revoke_customer_claim_invitation(k) \/ InvitationRunsOut(k)
       PROVE ClosedIsEmpty'
  <2>1. UNCHANGED <<branch, grants, customer, advisor, work>>
    BY <1>15 DEF revoke_customer_claim_invitation, InvitationRevoked, InvitationRunsOut
  <2> QED BY <1>2, <1>15, <2>1, PendingBefore
<1>16. CASE UNCHANGED tables
  BY <1>16 DEF tables
<1> QED BY <1>1, <1>3, <1>4, <1>5, <1>6, <1>7, <1>8, <1>9, <1>10, <1>11, <1>12, <1>13, <1>14, <1>15,
           <1>16
           DEF Next, CustomerCommands, BranchCommands, WorkCommands, WorkMove, tables

LEMMA WorkNeedsACustomerNext ==
    ASSUME TypeOK, WorkIsAtHome, WorkNeedsACustomer, [Next]_tables PROVE WorkNeedsACustomer'
<1> USE DEF WorkNeedsACustomer, OpenWork, TypeOK
<1>1. ASSUME NEW k \in Customers, NEW b \in Branches, create_customer(k, b) PROVE WorkNeedsACustomer'
  BY <1>1, NoWorkBefore DEF create_customer, CustomerCreated
<1>2. ASSUME UNCHANGED <<customer, work>> PROVE WorkNeedsACustomer'
  BY <1>2
<1>3. ASSUME NEW k \in Customers, NEW u \in Accounts, claim_customer(k, u) PROVE WorkNeedsACustomer'
  BY <1>3 DEF claim_customer, CustomerClaimed
<1>4. ASSUME NEW k \in Customers, activate_customer(k) PROVE WorkNeedsACustomer'
  <2>1. \A c \in Customers : customer'[c].status \in {customer[c].status, "active"}
    BY <1>4 DEF activate_customer, CustomerActivated, CustomerRow, NoCustomer
  <2> QED BY <1>4, <2>1 DEF activate_customer, CustomerActivated
<1>5. ASSUME NEW k \in Customers, deactivate_customer(k) \/ withdraw_consent(k) PROVE WorkNeedsACustomer'
  <2>1. \A c \in Customers : customer'[c].status \in {customer[c].status, "inactive"}
    BY <1>5 DEF deactivate_customer, withdraw_consent, RelationshipEnded, CustomerRow, NoCustomer
  <2> QED BY <1>5, <2>1, RelationshipEnds DEF OpenStatuses
<1>6. ASSUME NEW k \in Customers, NEW b \in Branches, NEW p \in Advisors \union {Nobody},
             transfer_customer_branch(k, b, p)
      PROVE WorkNeedsACustomer'
  BY <1>6 DEF transfer_customer_branch, CustomerTransferred
<1>7. ASSUME NEW k \in Customers, create_quote(k) PROVE WorkNeedsACustomer'
  BY <1>7 DEF create_quote, WorkIs, Active
<1>8. ASSUME NEW k \in Customers, WorkMove(k) PROVE WorkNeedsACustomer'
  BY <1>8, WorkMoves
<1>9. ASSUME NEW k \in Customers,
             \/ \E u \in Accounts : issue_customer_claim_invitation(k, u)
             \/ revoke_customer_claim_invitation(k) \/ InvitationRunsOut(k)
             \/ \E p \in Advisors : assign_customer_advisor(k, p)
             \/ end_customer_advisor_assignment(k)
      PROVE UNCHANGED <<customer, work>>
  BY <1>9 DEF issue_customer_claim_invitation, InvitationIssued,
        revoke_customer_claim_invitation, InvitationRevoked, InvitationRunsOut,
        assign_customer_advisor, AdvisorAssigned, end_customer_advisor_assignment, AdvisorUnassigned
<1>10. BranchCommands => UNCHANGED <<customer, work>>
  BY DEF BranchCommands, deactivate_branch, close_branch, BranchMoved,
         create_branch_role_grant, revoke_branch_role_grant, GrantsAre
<1> QED BY <1>1, <1>2, <1>3, <1>4, <1>5, <1>6, <1>7, <1>8, <1>9, <1>10
           DEF Next, CustomerCommands, WorkCommands, WorkMove, tables

(* What may come to await approval, and what it relies on *)
LEMMA Submissions ==
    ASSUME TypeOK, NEW k \in Customers, WorkMove(k), AwaitsApproval(k)'
    PROVE  AwaitsApproval(k) \/ IndependentApprovers(k, work[k].branch) # {}
<1> USE DEF AwaitsApproval, TypeOK
<1>1. CASE create_order(k)
  BY <1>1 DEF create_order, WorkMoved, WorkIs, WorkRow
<1>2. CASE submit_order(k)
  BY <1>2 DEF submit_order
<1>3. CASE request_cancellation(k)
  BY <1>3 DEF request_cancellation
<1>4. ASSUME NEW p \in Approvers,
             \/ approve_order(k, p) \/ reject_order(k, p)
             \/ approve_cancellation(k, p) \/ reject_cancellation(k, p)
      PROVE  IndependentApprovers(k, work[k].branch) # {}
  BY <1>4 DEF approve_order, reject_order, approve_cancellation, reject_cancellation
<1> QED BY <1>1, <1>2, <1>3, <1>4 DEF WorkMove

LEMMA ApprovalsHaveAnApproverNext ==
    ASSUME TypeOK, WorkIsAtHome, WorkNeedsACustomer, ApprovalsHaveAnApprover, [Next]_tables
    PROVE  ApprovalsHaveAnApprover'
<1> USE DEF ApprovalsHaveAnApprover, TypeOK
<1>a. \A c \in Customers : AwaitsApproval(c) => OpenWork(c)
  BY DEF AwaitsApproval, OpenWork, OpenStatuses
(* It is enough that what awaits approval did so before, on the same branch, and *)
(* that its customer's account and its branch's approvers are the same.          *)
<1>b. ASSUME \A c \in Customers : AwaitsApproval(c)' =>
                /\ AwaitsApproval(c) /\ work'[c].branch = work[c].branch
                /\ customer'[c].account = customer[c].account,
             grants \subseteq grants'
      PROVE  ApprovalsHaveAnApprover'
  BY <1>b DEF IndependentApprovers
<1>1. ASSUME NEW k \in Customers, NEW b \in Branches, create_customer(k, b)
      PROVE ApprovalsHaveAnApprover'
  <2>1. ~AwaitsApproval(k)
    BY <1>1, <1>a, NoWorkBefore DEF create_customer
  <2> QED BY <1>1, <1>b, <2>1 DEF create_customer, CustomerCreated, AwaitsApproval
<1>2. ASSUME UNCHANGED <<grants, customer, work>> PROVE ApprovalsHaveAnApprover'
  BY <1>2, <1>b DEF AwaitsApproval
<1>3. ASSUME NEW k \in Customers, NEW u \in Accounts, claim_customer(k, u)
      PROVE ApprovalsHaveAnApprover'
  <2>1. ~AwaitsApproval(k)
    BY <1>3, <1>a DEF claim_customer, WorkNeedsACustomer
  <2>2. \A c \in Customers \ {k} : customer'[c] = customer[c]
    BY <1>3 DEF claim_customer, CustomerClaimed
  <2>3. UNCHANGED <<grants, work>>
    BY <1>3 DEF claim_customer, CustomerClaimed
  <2> QED BY <1>b, <2>1, <2>2, <2>3 DEF AwaitsApproval
<1>4. ASSUME NEW k \in Customers,
             \/ activate_customer(k)
             \/ \E b \in Branches, p \in Advisors \union {Nobody} : transfer_customer_branch(k, b, p)
      PROVE ApprovalsHaveAnApprover'
  BY <1>4, <1>b, AccountsStay DEF AwaitsApproval
<1>5. ASSUME NEW k \in Customers, deactivate_customer(k) \/ withdraw_consent(k)
      PROVE ApprovalsHaveAnApprover'
  BY <1>5, <1>b, RelationshipEnds DEF AwaitsApproval
<1>6. ASSUME NEW b \in Branches, NEW p \in Members, create_branch_role_grant(p, b)
      PROVE ApprovalsHaveAnApprover'
  BY <1>6, <1>b DEF create_branch_role_grant, GrantsAre, AwaitsApproval
<1>7. ASSUME NEW b \in Branches, NEW p \in Members, revoke_branch_role_grant(p, b)
      PROVE ApprovalsHaveAnApprover'
  <2>1. UNCHANGED <<customer, work>> /\ grants' = grants \ {<<p, b>>} /\ Replaceable(p, b)
    BY <1>7 DEF revoke_branch_role_grant, GrantsAre
  <2>2. SUFFICES ASSUME NEW c \in Customers, AwaitsApproval(c)
                 PROVE  IndependentApprovers(c, work[c].branch)' # {}
    BY <2>1 DEF AwaitsApproval
  <2>3. CASE p \in Approvers /\ work[c].branch = b
    <3>1. PICK q \in IndependentApprovers(c, b) : q # p
      BY <2>1, <2>2, <2>3 DEF Replaceable
    <3> QED BY <2>1, <2>3, <3>1 DEF IndependentApprovers
  <2>4. CASE ~(p \in Approvers /\ work[c].branch = b)
    BY <2>1, <2>2, <2>4 DEF IndependentApprovers
  <2> QED BY <2>3, <2>4
<1>8. ASSUME NEW k \in Customers, create_quote(k) PROVE ApprovalsHaveAnApprover'
  <2>1. UNCHANGED <<grants, customer>> /\ \A c \in Customers \ {k} : work'[c] = work[c]
    BY <1>8 DEF create_quote, WorkIs
  <2>2. ~AwaitsApproval(k)'
    BY <1>8 DEF create_quote, WorkIs, AwaitsApproval
  <2> QED BY <1>b, <2>1, <2>2 DEF AwaitsApproval
<1>9. ASSUME NEW k \in Customers, WorkMove(k) PROVE ApprovalsHaveAnApprover'
  <2>1. /\ UNCHANGED <<grants, customer>> /\ work'[k].branch = work[k].branch
        /\ \A c \in Customers \ {k} : work'[c] = work[c]
    BY <1>9, WorkMoves
  <2>2. AwaitsApproval(k)' => IndependentApprovers(k, work[k].branch) # {}
    BY <1>9, Submissions
  <2> QED BY <2>1, <2>2 DEF AwaitsApproval, IndependentApprovers
<1>10. ASSUME NEW k \in Customers,
              \/ \E u \in Accounts : issue_customer_claim_invitation(k, u)
              \/ revoke_customer_claim_invitation(k) \/ InvitationRunsOut(k)
              \/ \E p \in Advisors : assign_customer_advisor(k, p)
              \/ end_customer_advisor_assignment(k)
       PROVE UNCHANGED <<grants, customer, work>>
  BY <1>10 DEF issue_customer_claim_invitation, InvitationIssued,
        revoke_customer_claim_invitation, InvitationRevoked, InvitationRunsOut,
        assign_customer_advisor, AdvisorAssigned, end_customer_advisor_assignment, AdvisorUnassigned
<1>11. ASSUME NEW b \in Branches, deactivate_branch(b) \/ close_branch(b)
       PROVE UNCHANGED <<grants, customer, work>>
  BY <1>11 DEF deactivate_branch, close_branch, BranchMoved
<1> QED BY <1>1, <1>2, <1>3, <1>4, <1>5, <1>6, <1>7, <1>8, <1>9, <1>10, <1>11
           DEF Next, CustomerCommands, BranchCommands, WorkCommands, WorkMove, tables

LEMMA AdvisorsHoldTheirRoleNext ==
    ASSUME TypeOK, AdvisorsHoldTheirRole, [Next]_tables PROVE AdvisorsHoldTheirRole'
<1> USE DEF AdvisorsHoldTheirRole, TypeOK
<1>1. ASSUME UNCHANGED <<grants, advisor>> PROVE AdvisorsHoldTheirRole'
  BY <1>1
<1>2. ASSUME NEW k \in Customers,
             deactivate_customer(k) \/ withdraw_consent(k) \/ end_customer_advisor_assignment(k)
      PROVE AdvisorsHoldTheirRole'
  BY <1>2, RelationshipEnds DEF end_customer_advisor_assignment, AdvisorUnassigned
<1>3. ASSUME NEW k \in Customers, NEW p \in Advisors, assign_customer_advisor(k, p)
      PROVE AdvisorsHoldTheirRole'
  BY <1>3 DEF assign_customer_advisor, AdvisorAssigned
<1>4. ASSUME NEW k \in Customers, NEW b \in Branches, NEW p \in Advisors \union {Nobody},
             transfer_customer_branch(k, b, p)
      PROVE AdvisorsHoldTheirRole'
  BY <1>4 DEF transfer_customer_branch, CustomerTransferred
<1>5. ASSUME NEW b \in Branches, NEW p \in Members, create_branch_role_grant(p, b)
      PROVE AdvisorsHoldTheirRole'
  BY <1>5 DEF create_branch_role_grant, GrantsAre
<1>6. ASSUME NEW b \in Branches, NEW p \in Members, revoke_branch_role_grant(p, b)
      PROVE AdvisorsHoldTheirRole'
  BY <1>6 DEF revoke_branch_role_grant, GrantsAre, Assigned
<1>7. ASSUME NEW k \in Customers,
             \/ \E b \in Branches : create_customer(k, b)
             \/ \E u \in Accounts : issue_customer_claim_invitation(k, u) \/ claim_customer(k, u)
             \/ revoke_customer_claim_invitation(k) \/ InvitationRunsOut(k) \/ activate_customer(k)
      PROVE UNCHANGED <<grants, advisor>>
  BY <1>7 DEF create_customer, CustomerCreated, issue_customer_claim_invitation, InvitationIssued,
        claim_customer, CustomerClaimed, revoke_customer_claim_invitation, InvitationRevoked,
        InvitationRunsOut, activate_customer, CustomerActivated
<1>8. ASSUME NEW b \in Branches, deactivate_branch(b) \/ close_branch(b)
      PROVE UNCHANGED <<grants, advisor>>
  BY <1>8 DEF deactivate_branch, close_branch, BranchMoved
<1>9. ASSUME NEW k \in Customers, create_quote(k) \/ WorkMove(k) PROVE UNCHANGED <<grants, advisor>>
  BY <1>9, WorkMoves DEF create_quote, WorkIs
<1> QED BY <1>1, <1>2, <1>3, <1>4, <1>5, <1>6, <1>7, <1>8, <1>9
           DEF Next, CustomerCommands, BranchCommands, WorkCommands, WorkMove, tables

LEMMA OneCustomerPerAccountNext ==
    ASSUME TypeOK, OneCustomerPerAccount, [Next]_tables PROVE OneCustomerPerAccount'
<1> USE DEF OneCustomerPerAccount, TypeOK
<1>1. ASSUME UNCHANGED invitation,
             \A c \in Customers : customer'[c].account \in {customer[c].account, Nobody}
      PROVE  OneCustomerPerAccount'
  BY <1>1
<1>2. ASSUME NEW k \in Customers, NEW b \in Branches, create_customer(k, b)
      PROVE OneCustomerPerAccount'
  BY <1>1, <1>2 DEF create_customer, CustomerCreated
<1>3. ASSUME NEW k \in Customers, NEW u \in Accounts, issue_customer_claim_invitation(k, u)
      PROVE OneCustomerPerAccount'
  BY <1>3 DEF issue_customer_claim_invitation, InvitationIssued, InvitedElsewhere
<1>4. ASSUME NEW k \in Customers, revoke_customer_claim_invitation(k) \/ InvitationRunsOut(k)
      PROVE OneCustomerPerAccount'
  <2>1. \A c \in Customers : /\ invitation'[c].target = invitation[c].target
                             /\ invitation'[c].status = "pending" => invitation[c].status = "pending"
    BY <1>4 DEF revoke_customer_claim_invitation, InvitationRevoked, InvitationRunsOut, InvitationRow
  <2> QED BY <1>4, <2>1 DEF revoke_customer_claim_invitation, InvitationRevoked, InvitationRunsOut
<1>5. ASSUME NEW k \in Customers, NEW u \in Accounts, claim_customer(k, u)
      PROVE OneCustomerPerAccount'
  <2>1. \A c \in Customers : /\ invitation'[c].target = invitation[c].target
                             /\ invitation'[c].status = "pending" => invitation[c].status = "pending"
    BY <1>5 DEF claim_customer, CustomerClaimed, InvitationRow
  <2>2. \A c \in Customers : customer'[c].account = IF c = k THEN u ELSE customer[c].account
    BY <1>5, Existing DEF claim_customer, CustomerClaimed, InActiveBranch, CustomerRow
  <2> QED BY <1>5, <2>1, <2>2 DEF claim_customer, BoundElsewhere
<1>6. ASSUME NEW k \in Customers,
             \/ activate_customer(k)
             \/ \E b \in Branches, p \in Advisors \union {Nobody} : transfer_customer_branch(k, b, p)
      PROVE OneCustomerPerAccount'
  BY <1>1, <1>6, AccountsStay
<1>7. ASSUME NEW k \in Customers, deactivate_customer(k) \/ withdraw_consent(k)
      PROVE OneCustomerPerAccount'
  BY <1>1, <1>7, RelationshipEnds
<1>8. ASSUME UNCHANGED <<customer, invitation>> PROVE OneCustomerPerAccount'
  BY <1>8
<1>9. ASSUME NEW k \in Customers,
             \/ \E p \in Advisors : assign_customer_advisor(k, p)
             \/ end_customer_advisor_assignment(k) \/ create_quote(k) \/ WorkMove(k)
      PROVE UNCHANGED <<customer, invitation>>
  BY <1>9, WorkMoves DEF assign_customer_advisor, AdvisorAssigned, end_customer_advisor_assignment,
        AdvisorUnassigned, create_quote, WorkIs
<1>10. BranchCommands => UNCHANGED <<customer, invitation>>
  BY DEF BranchCommands, deactivate_branch, close_branch, BranchMoved,
         create_branch_role_grant, revoke_branch_role_grant, GrantsAre
<1> QED BY <1>1, <1>2, <1>3, <1>4, <1>5, <1>6, <1>7, <1>8, <1>9, <1>10
           DEF Next, CustomerCommands, WorkCommands, WorkMove, tables

-----------------------------------------------------------------------------
(* The theorems *)

DeskInv ==
    /\ TypeOK /\ WorkIsAtHome /\ ClosedIsEmpty /\ WorkNeedsACustomer
    /\ ApprovalsHaveAnApprover /\ AdvisorsHoldTheirRole /\ OneCustomerPerAccount

LEMMA DeskInvInit == Init => DeskInv
<1> SUFFICES ASSUME Init PROVE DeskInv
  OBVIOUS
<1>1. TypeOK
  BY TypeInit
<1>2. WorkIsAtHome /\ WorkNeedsACustomer
  BY <1>1, Existing DEF Init, WorkIsAtHome, WorkNeedsACustomer, OpenWork, OpenStatuses, NoWork,
                        NoInvitation, Exists, NoCustomer
<1>3. ClosedIsEmpty
  BY DEF Init, ClosedIsEmpty
<1>4. ApprovalsHaveAnApprover
  BY DEF Init, ApprovalsHaveAnApprover, AwaitsApproval, NoWork
<1>5. AdvisorsHoldTheirRole /\ OneCustomerPerAccount
  BY DEF Init, AdvisorsHoldTheirRole, OneCustomerPerAccount, NoInvitation
<1> QED BY <1>1, <1>2, <1>3, <1>4, <1>5 DEF DeskInv

LEMMA DeskInvNext == DeskInv /\ [Next]_tables => DeskInv'
BY TypeNext, WorkIsAtHomeNext, ClosedIsEmptyNext, WorkNeedsACustomerNext,
   ApprovalsHaveAnApproverNext, AdvisorsHoldTheirRoleNext, OneCustomerPerAccountNext DEF DeskInv

(* Every property of the tables that the run checks, for any number of branches, *)
(* customers and people.  WorkNeedsACustomer is what is missing: somebody who     *)
(* claims a customer can only be the approver of his own work if a prospect could *)
(* have work.                                                                  *)
THEOREM DeskStaysInOrder == Spec => []DeskInv
BY DeskInvInit, DeskInvNext, PTL DEF Spec

(* Open work, a pending invitation and an advisor are of the branch where the customer
   is: they move with him or hold him back (customer_branch_transfer.py). *)
THEOREM WorkStaysAtHome == Spec => []WorkIsAtHome
<1>1. DeskInv => WorkIsAtHome
  BY DEF DeskInv
<1> QED BY <1>1, DeskStaysInOrder, PTL

(* Nothing is left in a closed branch, and nothing gets there later. *)
THEOREM ClosedBranchesAreEmpty == Spec => []ClosedIsEmpty
<1>1. DeskInv => ClosedIsEmpty
  BY DEF DeskInv
<1> QED BY <1>1, DeskStaysInOrder, PTL

(* Whatever awaits approval has an approver other than its customer. *)
THEOREM ApprovalsCanBeDecided == Spec => []ApprovalsHaveAnApprover
<1>1. DeskInv => ApprovalsHaveAnApprover
  BY DEF DeskInv
<1> QED BY <1>1, DeskStaysInOrder, PTL

(* A role is not taken from an advisor who is in charge of a customer. *)
THEOREM AdvisorsKeepTheirRole == Spec => []AdvisorsHoldTheirRole
<1>1. DeskInv => AdvisorsHoldTheirRole
  BY DEF DeskInv
<1> QED BY <1>1, DeskStaysInOrder, PTL

(* Two customers never share an account, nor two open invitations. *)
THEOREM AccountsAreNotShared == Spec => []OneCustomerPerAccount
<1>1. DeskInv => OneCustomerPerAccount
  BY DEF DeskInv
<1> QED BY <1>1, DeskStaysInOrder, PTL

-----------------------------------------------------------------------------
(* Services and database never disagree about the desk: the triggers accept every *)
(* command.                                                                    *)

(* What binds a customer to an account.  Triggers compare a customer with his     *)
(* claimed invitation whenever his row changes, so this has to hold throughout.   *)
Bindings ==
    \A k \in Customers :
        /\ customer[k].account # Nobody =>
             /\ customer[k].status # "prospect"
             /\ invitation[k].status \in {"none", "claimed"}
        /\ Active(k) => customer[k].account # Nobody
        /\ invitation[k].status = "claimed" => customer[k].account = invitation[k].target

LEMMA BindingsInit == Init => Bindings
<1> SUFFICES ASSUME Init PROVE Bindings
  OBVIOUS
<1>1. \A k \in Customers : customer[k] = NoCustomer \/
         (customer[k].status = "active" /\ customer[k].account \in Accounts)
  BY DEF Init
<1>2. \A k \in Customers : invitation[k].status = "none"
  BY DEF Init, NoInvitation
<1> QED BY <1>1, <1>2, DeskConstants DEF Bindings, Active, NoCustomer

LEMMA BindingsNext == ASSUME TypeOK, Bindings, [Next]_tables PROVE Bindings'
<1>1. ASSUME UNCHANGED <<customer, invitation>> PROVE Bindings'
  BY <1>1 DEF Bindings, Active
<1>2. ASSUME NEW k \in Customers, NEW b \in Branches, create_customer(k, b) PROVE Bindings'
  BY <1>2 DEF create_customer, CustomerCreated, Bindings, Active, Exists, NoCustomer, TypeOK
<1>3. ASSUME NEW k \in Customers, NEW u \in Accounts, issue_customer_claim_invitation(k, u)
      PROVE Bindings'
  BY <1>3 DEF issue_customer_claim_invitation, InvitationIssued, Bindings, Active, TypeOK
<1>4. ASSUME NEW k \in Customers, revoke_customer_claim_invitation(k) \/ InvitationRunsOut(k)
      PROVE Bindings'
  BY <1>4 DEF revoke_customer_claim_invitation, InvitationRevoked, InvitationRunsOut, Bindings,
              Active, TypeOK, InvitationRow
<1>5. ASSUME NEW k \in Customers, NEW u \in Accounts, claim_customer(k, u) PROVE Bindings'
  <2>1. customer[k] \in CustomerRow
    BY <1>5, Existing DEF claim_customer, InActiveBranch
  <2> QED BY <1>5, <2>1, DeskConstants
          DEF claim_customer, CustomerClaimed, Bindings, Active, TypeOK, InvitationRow, CustomerRow
<1>6. ASSUME NEW k \in Customers, activate_customer(k) PROVE Bindings'
  <2>1. customer[k] \in CustomerRow
    BY <1>6, Existing DEF activate_customer, InActiveBranch
  <2> QED BY <1>6, <2>1 DEF activate_customer, CustomerActivated, Bindings, Active, TypeOK, CustomerRow
<1>7. ASSUME NEW k \in Customers, deactivate_customer(k) \/ withdraw_consent(k) PROVE Bindings'
  <2>1. customer[k] \in CustomerRow /\ RelationshipEnded(k)
    BY <1>7, Existing DEF deactivate_customer, withdraw_consent, Active, Exists, NoCustomer
  <2> QED BY <2>1 DEF RelationshipEnded, Bindings, Active, TypeOK, CustomerRow
<1>8. ASSUME NEW k \in Customers, NEW b \in Branches, NEW p \in Advisors \union {Nobody},
             transfer_customer_branch(k, b, p)
      PROVE Bindings'
  <2>1. customer[k] \in CustomerRow /\ CustomerTransferred(k, b, p)
    BY <1>8, Existing DEF transfer_customer_branch
  <2> QED BY <2>1 DEF CustomerTransferred, Bindings, Active, TypeOK, CustomerRow
<1>9. ASSUME NEW k \in Customers, NEW p \in Advisors, assign_customer_advisor(k, p) PROVE Bindings'
  BY <1>9, <1>1 DEF assign_customer_advisor, AdvisorAssigned
<1>10. ASSUME NEW k \in Customers, end_customer_advisor_assignment(k) PROVE Bindings'
  BY <1>10, <1>1 DEF end_customer_advisor_assignment, AdvisorUnassigned
<1>11. ASSUME BranchCommands PROVE Bindings'
  BY <1>11, <1>1 DEF BranchCommands, deactivate_branch, close_branch, BranchMoved,
                     create_branch_role_grant, revoke_branch_role_grant, GrantsAre
<1>12. ASSUME WorkCommands PROVE Bindings'
  BY <1>12, <1>1 DEF WorkCommands, create_quote, create_order, submit_order, request_cancellation,
       approve_order, reject_order, approve_cancellation, reject_cancellation, WorkMoved, WorkIs
<1> QED BY <1>1, <1>2, <1>3, <1>4, <1>5, <1>6, <1>7, <1>8, <1>9, <1>10, <1>11, <1>12
        DEF Next, CustomerCommands, tables

-----------------------------------------------------------------------------
(* Commands on customers *)

LEMMA CreationAccepted ==
    ASSUME TypeOK, NEW k \in Customers, NEW b \in Branches, create_customer(k, b)
    PROVE  AcceptedStep
<1>1. customer' = [customer EXCEPT ![k] = [branch |-> b, status |-> "prospect", account |-> Nobody]]
  BY DEF create_customer, CustomerCreated
<1>2. CustomerGuard(k)
  BY <1>1 DEF create_customer, CustomerGuard, Exists, TypeOK
<1> QED BY <1>1, <1>2 DEF create_customer, CustomerCreated, AcceptedStep, TypeOK

LEMMA InvitationAccepted ==
    ASSUME TypeOK, Bindings, NEW k \in Customers,
           \/ \E u \in Accounts : issue_customer_claim_invitation(k, u)
           \/ revoke_customer_claim_invitation(k)
           \/ InvitationRunsOut(k)
    PROVE  AcceptedStep
<1>1. CASE \E u \in Accounts : issue_customer_claim_invitation(k, u)
  <2>1. PICK u \in Accounts : issue_customer_claim_invitation(k, u)
    BY <1>1
  <2>2. /\ invitation' = [invitation EXCEPT ![k] =
                            [status |-> "pending", branch |-> customer[k].branch, target |-> u,
                             expired |-> FALSE]]
        /\ UNCHANGED <<branch, grants, customer, advisor, work>>
    BY <2>1 DEF issue_customer_claim_invitation, InvitationIssued
  <2>3. InvitationGuard(k)
    <3>1. /\ invitation'[k].status = "pending" /\ invitation'[k].target = u
          /\ invitation'[k].branch = customer[k].branch
      BY <2>2 DEF TypeOK
    <3>2. customer'[k].account = Nobody
      BY <2>1, <2>2 DEF issue_customer_claim_invitation, Bindings
    <3>3. \A c \in Customers \ {k} : invitation'[c].status = "pending" => invitation'[c].target # u
      BY <2>1, <2>2 DEF issue_customer_claim_invitation, InvitedElsewhere, TypeOK
    <3> QED BY <2>1, <3>1, <3>2, <3>3 DEF issue_customer_claim_invitation, InvitationGuard
  <2> QED BY <2>2, <2>3 DEF AcceptedStep, TypeOK
<1>2. CASE revoke_customer_claim_invitation(k)
  <2>1. InvitationGuard(k)
    BY <1>2 DEF revoke_customer_claim_invitation, InvitationRevoked, InvitationGuard, TypeOK,
                InvitationRow
  <2> QED BY <1>2, <2>1 DEF revoke_customer_claim_invitation, InvitationRevoked, AcceptedStep, TypeOK
<1>3. CASE InvitationRunsOut(k)
  BY <1>3 DEF InvitationRunsOut, AcceptedStep, TypeOK, InvitationRow
<1> QED BY <1>1, <1>2, <1>3

LEMMA ClaimAccepted ==
    ASSUME TypeOK, Bindings, NEW k \in Customers, NEW u \in Accounts, claim_customer(k, u)
    PROVE  AcceptedStep
<1>1. customer[k] \in CustomerRow /\ customer[k] # NoCustomer
  BY Existing DEF claim_customer, InActiveBranch, Exists
<1>2. /\ customer' = [customer EXCEPT ![k] = [customer[k] EXCEPT !.status = "invited", !.account = u]]
      /\ invitation' = [invitation EXCEPT ![k] =
                          [invitation[k] EXCEPT !.status = "claimed", !.expired = FALSE]]
      /\ UNCHANGED <<branch, grants, advisor, work>>
  BY DEF claim_customer, CustomerClaimed
<1>3. /\ customer'[k] = [customer[k] EXCEPT !.status = "invited", !.account = u]
      /\ invitation'[k] = [invitation[k] EXCEPT !.status = "claimed", !.expired = FALSE]
  BY <1>2 DEF TypeOK
<1>4. /\ customer'[k].branch = customer[k].branch /\ customer'[k].account = u
      /\ customer'[k].status = "invited"
      /\ invitation'[k].status = "claimed" /\ invitation'[k].target = u
      /\ invitation'[k].branch = invitation[k].branch
  BY <1>1, <1>3 DEF claim_customer, TypeOK, CustomerRow, InvitationRow
<1>5. customer[k].account = Nobody
  BY DEF claim_customer, Bindings
<1>6. CustomerGuard(k)
  <2>1. customer'[k] # NoCustomer
    BY <1>4 DEF NoCustomer
  <2>2. BindingGuard(k)
    BY <1>4, <1>5 DEF BindingGuard
  <2>3. ActiveGuard(k)
    BY <1>4 DEF ActiveGuard
  <2> QED BY <1>1, <1>4, <2>1, <2>2, <2>3 DEF CustomerGuard
<1>7. InvitationGuard(k)
  BY <1>4 DEF claim_customer, InvitationGuard
<1> QED BY <1>2, <1>6, <1>7 DEF AcceptedStep, TypeOK

(* What an update of a customer's status has to respect *)
LEMMA StatusUpdateAccepted ==
    ASSUME TypeOK, Bindings, NEW k \in Customers, NEW s \in {"active", "inactive"}, Exists(k),
           customer' = [customer EXCEPT ![k].status = s], invitation' = invitation,
           s = "active" =>
             customer[k].account # Nobody /\ InActiveBranch(k) /\ work[k].status # "review"
    PROVE  CustomerGuard(k) /\ \A c \in Customers \ {k} : customer'[c] = customer[c]
<1>1. customer[k] \in CustomerRow
  BY Existing
<1>2. /\ customer'[k].branch = customer[k].branch /\ customer'[k].account = customer[k].account
      /\ customer'[k].status = s
  BY <1>1 DEF TypeOK, CustomerRow
<1>3. CustomerGuard(k)
  <2>1. customer'[k] # NoCustomer /\ customer[k] # NoCustomer
    BY <1>2 DEF NoCustomer, Exists
  <2>2. BindingGuard(k)
    BY <1>2 DEF BindingGuard, Bindings
  <2>3. ActiveGuard(k)
    BY <1>2 DEF ActiveGuard, InActiveBranch
  <2> QED BY <1>2, <2>1, <2>2, <2>3 DEF CustomerGuard
<1> QED BY <1>3 DEF TypeOK

LEMMA ActivationAccepted ==
    ASSUME TypeOK, Bindings, NEW k \in Customers, activate_customer(k)
    PROVE  AcceptedStep
<1>1. CustomerGuard(k) /\ \A c \in Customers \ {k} : customer'[c] = customer[c]
  BY StatusUpdateAccepted DEF activate_customer, CustomerActivated, InActiveBranch
<1> QED BY <1>1 DEF activate_customer, CustomerActivated, AcceptedStep

LEMMA EndAccepted ==
    ASSUME TypeOK, Bindings, NEW k \in Customers, deactivate_customer(k) \/ withdraw_consent(k)
    PROVE  AcceptedStep
<1>1. Exists(k) /\ RelationshipEnded(k)
  BY DEF deactivate_customer, withdraw_consent, Active, Exists, NoCustomer
<1>2. CustomerGuard(k) /\ \A c \in Customers \ {k} : customer'[c] = customer[c]
  BY <1>1, StatusUpdateAccepted DEF RelationshipEnded
<1>3. AssignmentGuard(k) /\ \A c \in Customers \ {k} : advisor'[c] = advisor[c]
  BY <1>1 DEF RelationshipEnded, AssignmentGuard, TypeOK
<1>4. \A c \in Customers : work'[c] # work[c] => WorkGuard(c)
  <2>1. CASE work[k].status \in {"quote", "draft", "approved"}
    <3>1. work' = [work EXCEPT ![k].status = "ended"]
      BY <1>1, <2>1 DEF RelationshipEnded
    <3>2. /\ work'[k].status = "ended" /\ work'[k].branch = work[k].branch
          /\ work'[k].case = work[k].case
      BY <3>1 DEF TypeOK, WorkRow
    <3>3. WorkGuard(k)
      BY <2>1, <3>2 DEF WorkGuard, StatusGuard
    <3> QED BY <3>1, <3>3 DEF TypeOK
  <2>2. CASE work[k].status \notin {"quote", "draft", "approved"}
    BY <1>1, <2>2 DEF RelationshipEnded
  <2> QED BY <2>1, <2>2
<1> QED BY <1>1, <1>2, <1>3, <1>4 DEF RelationshipEnded, AcceptedStep

(* The customer's row is written again as it is. *)
LEMMA UnchangedRowAccepted ==
    ASSUME TypeOK, Bindings, ClosedIsEmpty, NEW k \in Customers, Exists(k), customer' = customer,
           invitation' = invitation
    PROVE  CustomerGuard(k)
<1>1. customer[k].branch \in Branches
  BY Existing
<1>2. branch[customer[k].branch] \in {"active", "inactive"}
  BY <1>1 DEF ClosedIsEmpty, NoCustomers, TypeOK
<1>3. BindingGuard(k) /\ ActiveGuard(k)
  BY <1>2 DEF BindingGuard, ActiveGuard, Bindings, Active
<1> QED BY <1>3 DEF CustomerGuard, Exists

LEMMA AssignmentAccepted ==
    ASSUME TypeOK, Bindings, WorkIsAtHome, ClosedIsEmpty, NEW k \in Customers,
           (\E p \in Advisors : assign_customer_advisor(k, p)) \/ end_customer_advisor_assignment(k)
    PROVE  AcceptedStep
<1>1. CASE \E p \in Advisors : assign_customer_advisor(k, p)
  <2>1. PICK p \in Advisors : assign_customer_advisor(k, p)
    BY <1>1
  <2>2. /\ advisor' = [advisor EXCEPT ![k] = <<p, customer[k].branch>>]
        /\ UNCHANGED <<branch, grants, customer, invitation, work>>
    BY <2>1 DEF assign_customer_advisor, AdvisorAssigned
  <2>3. AssignmentGuard(k)
    BY <2>1, <2>2 DEF assign_customer_advisor, AssignmentGuard, Active, InActiveBranch, TypeOK
  <2>4. CustomerGuard(k)
    BY <2>1, <2>2, UnchangedRowAccepted DEF assign_customer_advisor, InActiveBranch
  <2> QED BY <2>2, <2>3, <2>4 DEF AcceptedStep, TypeOK
<1>2. CASE end_customer_advisor_assignment(k)
  <2>1. AssignmentGuard(k)
    BY <1>2 DEF end_customer_advisor_assignment, AdvisorUnassigned, AssignmentGuard, TypeOK
  <2>2. Exists(k)
    <3>1. advisor[k] \in Advisors \X Branches /\ advisor[k][2] = customer[k].branch
      BY <1>2 DEF end_customer_advisor_assignment, WorkIsAtHome, TypeOK
    <3> QED BY <3>1, Existing
  <2>3. CustomerGuard(k)
    BY <1>2, <2>2, UnchangedRowAccepted DEF end_customer_advisor_assignment, AdvisorUnassigned
  <2> QED BY <1>2, <2>1, <2>3 DEF end_customer_advisor_assignment, AdvisorUnassigned, AcceptedStep, TypeOK
<1> QED BY <1>1, <1>2

LEMMA TransferAccepted ==
    ASSUME TypeOK, Bindings, NEW k \in Customers, NEW b \in Branches,
           NEW p \in Advisors \union {Nobody}, transfer_customer_branch(k, b, p)
    PROVE  AcceptedStep
<1>1. customer[k] \in CustomerRow /\ customer[k] # NoCustomer
  BY Existing DEF transfer_customer_branch, Exists
<1>2. /\ customer' = [customer EXCEPT ![k].branch = b]
      /\ advisor' = [advisor EXCEPT ![k] = IF p = Nobody THEN NoAdvisor ELSE <<p, b>>]
      /\ UNCHANGED <<branch, grants, invitation, work>>
  BY DEF transfer_customer_branch, CustomerTransferred
<1>3. /\ customer'[k].branch = b /\ customer'[k].status = customer[k].status
      /\ customer'[k].account = customer[k].account
      /\ advisor'[k] = (IF p = Nobody THEN NoAdvisor ELSE <<p, b>>)
  BY <1>1, <1>2 DEF TypeOK, CustomerRow
<1>4. p # Nobody => customer[k].status = "active" /\ <<p, b>> \in grants
  BY DEF transfer_customer_branch, Active
<1>5. CustomerGuard(k)
  <2>1. TransferGuard(k)
    <3>1. branch[customer[k].branch] \in {"active", "inactive"}
      BY <1>1 DEF transfer_customer_branch, InOpenBranch, TypeOK, CustomerRow
    <3>2. advisor'[k] # NoAdvisor => advisor'[k][2] = b /\ customer'[k].status = "active"
      BY <1>3, <1>4
    <3> QED BY <1>3, <3>1, <3>2 DEF transfer_customer_branch, TransferGuard
  <2>2. BindingGuard(k)
    BY <1>2, <1>3 DEF BindingGuard, Bindings
  <2>3. ActiveGuard(k)
    BY <1>3 DEF ActiveGuard, Bindings, Active, transfer_customer_branch
  <2>4. customer'[k] # NoCustomer
    BY <1>3, DeskConstants DEF NoCustomer
  <2> QED BY <1>1, <2>1, <2>2, <2>3, <2>4 DEF CustomerGuard
<1>6. AssignmentGuard(k)
  BY <1>3, <1>4 DEF AssignmentGuard, transfer_customer_branch
<1> QED BY <1>2, <1>5, <1>6 DEF AcceptedStep, TypeOK

-----------------------------------------------------------------------------
(* Commands on branches and roles *)

LEMMA BranchAccepted ==
    ASSUME TypeOK, NEW b \in Branches, deactivate_branch(b) \/ close_branch(b)
    PROVE  AcceptedStep
<1>1. CASE deactivate_branch(b)
  <2>1. BranchGuard(b)
    BY <1>1 DEF deactivate_branch, BranchMoved, BranchGuard, TypeOK
  <2> QED BY <1>1, <2>1 DEF deactivate_branch, BranchMoved, AcceptedStep, TypeOK
<1>2. CASE close_branch(b)
  <2>1. Deserted(b)
    BY <1>2 DEF close_branch, NoCustomers, NoPendingInvitation, NoAssignment, NoGrant, NoReview,
                NoOpenQuote, NoOpenOrder, NoOpenCase, Deserted, OpenWork, OpenStatuses
  <2>2. BranchGuard(b)
    BY <1>2, <2>1 DEF close_branch, BranchMoved, BranchGuard, TypeOK
  <2> QED BY <1>2, <2>2 DEF close_branch, BranchMoved, AcceptedStep, TypeOK
<1> QED BY <1>1, <1>2

LEMMA GrantAccepted ==
    ASSUME TypeOK, NEW p \in Members, NEW b \in Branches,
           create_branch_role_grant(p, b) \/ revoke_branch_role_grant(p, b)
    PROVE  AcceptedStep
<1>1. CASE create_branch_role_grant(p, b)
  <2>1. GrantGuard(p, b)
    BY <1>1 DEF create_branch_role_grant, GrantsAre, GrantGuard
  <2> QED BY <1>1, <2>1 DEF create_branch_role_grant, GrantsAre, AcceptedStep
<1>2. CASE revoke_branch_role_grant(p, b)
  <2>1. p \in Approvers =>
          \A k \in Customers : AwaitsApproval(k) /\ work[k].branch = b =>
            \E q \in Approvers \ {p} : <<q, b>> \in grants /\ q # customer[k].account
    BY <1>2 DEF revoke_branch_role_grant, Replaceable, IndependentApprovers
  <2>2. GrantGuard(p, b)
    BY <1>2, <2>1 DEF revoke_branch_role_grant, GrantsAre, GrantGuard
  <2> QED BY <1>2, <2>2 DEF revoke_branch_role_grant, GrantsAre, AcceptedStep
<1> QED BY <1>1, <1>2

-----------------------------------------------------------------------------
(* Commands on quotes, orders and cases *)

(* Only the row of work changes, and only its status or its case. *)
LEMMA WorkAccepted ==
    ASSUME TypeOK, NEW k \in Customers, NEW new \in WorkRow, WorkIs(k, new),
           new.branch # work[k].branch => new.status = "quote" /\ ~OpenWork(k),
           new.status # work[k].status => StatusGuard(k),
           new.case # work[k].case => CaseGuard(k)
    PROVE  AcceptedStep
<1>1. /\ work' = [work EXCEPT ![k] = new]
      /\ UNCHANGED <<branch, grants, customer, invitation, advisor>>
  BY DEF WorkIs
<1>2. work'[k] = new
  BY <1>1 DEF TypeOK
<1>3. WorkGuard(k)
  BY <1>2 DEF WorkGuard
<1> QED BY <1>1, <1>3 DEF AcceptedStep, TypeOK

LEMMA QuoteAccepted ==
    ASSUME TypeOK, Bindings, NEW k \in Customers, create_quote(k)
    PROVE  AcceptedStep
<1> DEFINE new == [status |-> "quote", case |-> FALSE, branch |-> customer[k].branch]
<1>1. customer[k].branch \in Branches
  BY Existing DEF create_quote, InActiveBranch
<1>2. new \in WorkRow
  BY <1>1, WorkTypes DEF OpenStatuses
<1>3. WorkIs(k, new) /\ work'[k] = new /\ UNCHANGED <<branch, customer>>
  BY DEF create_quote, WorkIs, TypeOK
<1>4. Trades(k)'
  BY <1>3 DEF Trades, create_quote, Active, InActiveBranch, Exists, WorkIs, Bindings
<1>5. StatusGuard(k)
  BY <1>3, <1>4 DEF StatusGuard, create_quote, OpenWork
<1>6. work[k].case = FALSE
  BY DEF create_quote, OpenWork, TypeOK, WorkRow
<1> QED BY <1>2, <1>3, <1>5, <1>6, WorkAccepted DEF create_quote

LEMMA OrderAccepted ==
    ASSUME TypeOK, Bindings, WorkIsAtHome, NEW k \in Customers, create_order(k) \/ submit_order(k)
    PROVE  AcceptedStep
<1> DEFINE s == IF create_order(k) THEN "draft" ELSE "review"
           new == [work[k] EXCEPT !.status = s]
<1>1. new \in WorkRow
  BY WorkTypes DEF OpenStatuses
<1>2. WorkIs(k, new)
  BY DEF create_order, submit_order, WorkMoved
<1>3. /\ new.status = s /\ new.case = work[k].case /\ new.branch = work[k].branch
      /\ work'[k] = new /\ UNCHANGED <<branch, grants, customer>>
  BY <1>2 DEF WorkIs, TypeOK, WorkRow
<1>4. Active(k) /\ InActiveBranch(k) /\ work[k].branch = customer[k].branch
  BY DEF create_order, submit_order, WorkIsAtHome, OpenWork, OpenStatuses
<1>5. StatusGuard(k)
  <2>1. CASE create_order(k)
    <3>1. Trades(k)'
      BY <1>3, <1>4 DEF Trades, Active, InActiveBranch, Exists, Bindings
    <3> QED BY <2>1, <1>3, <3>1 DEF StatusGuard, create_order
  <2>2. CASE submit_order(k) /\ ~create_order(k)
    <3>1. SomeApprover(work[k].branch)
      BY <2>2 DEF submit_order, SomeApprover, IndependentApprovers
    <3> QED BY <2>2, <1>3, <1>4, <3>1 DEF StatusGuard, submit_order, InActiveBranch
  <2> QED BY <2>1, <2>2
<1> QED BY <1>1, <1>2, <1>3, <1>5, WorkAccepted

LEMMA DecisionAccepted ==
    ASSUME TypeOK, Bindings, WorkIsAtHome, ClosedIsEmpty, NEW k \in Customers, NEW p \in Approvers,
           approve_order(k, p) \/ reject_order(k, p)
    PROVE  AcceptedStep
<1> DEFINE s == IF approve_order(k, p) THEN "approved" ELSE "ended"
           new == [work[k] EXCEPT !.status = s]
<1>1. new \in WorkRow
  BY WorkTypes DEF OpenStatuses
<1>2. WorkIs(k, new)
  BY DEF approve_order, reject_order, WorkMoved
<1>3. /\ new.status = s /\ new.case = work[k].case /\ new.branch = work[k].branch
      /\ work'[k] = new /\ UNCHANGED <<branch, grants, customer>>
  BY <1>2 DEF WorkIs, TypeOK, WorkRow
<1>4. /\ Exists(k) /\ work[k].branch = customer[k].branch
      /\ IndependentApprovers(k, work[k].branch) # {} /\ work[k].status = "review"
  BY DEF approve_order, reject_order, WorkIsAtHome, OpenWork, OpenStatuses
<1>5. StatusGuard(k)
  <2>1. CASE approve_order(k, p)
    <3>1. Trades(k)'
      BY <2>1, <1>3, <1>4 DEF Trades, approve_order, Active, InActiveBranch, Exists, Bindings
    <3> QED BY <2>1, <1>3, <1>4, <3>1 DEF StatusGuard, approve_order
  <2>2. CASE ~approve_order(k, p)
    <3>1. work[k].branch \in Branches
      BY <1>4, Existing
    <3>2. branch[work[k].branch] # "closed"
      BY <1>4, <3>1 DEF ClosedIsEmpty, OpenWork, OpenStatuses
    <3> QED BY <2>2, <1>3, <1>4, <3>2 DEF StatusGuard
  <2> QED BY <2>1, <2>2
<1> QED BY <1>1, <1>2, <1>3, <1>5, WorkAccepted

LEMMA CaseAccepted ==
    ASSUME TypeOK, WorkIsAtHome, ClosedIsEmpty, NEW k \in Customers,
           \/ request_cancellation(k)
           \/ \E p \in Approvers : approve_cancellation(k, p) \/ reject_cancellation(k, p)
    PROVE  AcceptedStep
<1>1. /\ work[k].branch \in Branches /\ branch[work[k].branch] # "closed"
      /\ IndependentApprovers(k, work[k].branch) # {}
  <2>1. OpenWork(k) /\ IndependentApprovers(k, work[k].branch) # {}
    BY DEF request_cancellation, approve_cancellation, reject_cancellation, OpenWork, OpenStatuses
  <2>2. work[k].branch \in Branches
    BY <2>1, Existing DEF WorkIsAtHome
  <2> QED BY <2>1, <2>2 DEF ClosedIsEmpty
<1>2. CASE request_cancellation(k)
  <2> DEFINE new == [work[k] EXCEPT !.case = TRUE]
  <2>1. new \in WorkRow /\ WorkIs(k, new)
    BY <1>2, WorkTypes DEF request_cancellation, OpenStatuses
  <2>2. /\ new.status = work[k].status /\ new.branch = work[k].branch /\ work'[k] = new
    BY <2>1 DEF WorkIs, TypeOK, WorkRow
  <2>3. CaseGuard(k)
    BY <1>1, <1>2, <2>2 DEF CaseGuard, request_cancellation
  <2> QED BY <2>1, <2>2, <2>3, WorkAccepted
<1>3. CASE \E p \in Approvers : approve_cancellation(k, p) \/ reject_cancellation(k, p)
  <2>1. PICK p \in Approvers : approve_cancellation(k, p) \/ reject_cancellation(k, p)
    BY <1>3
  <2>2. CASE reject_cancellation(k, p)
    <3> DEFINE new == [work[k] EXCEPT !.case = FALSE]
    <3>1. new \in WorkRow /\ WorkIs(k, new)
      BY <2>2, WorkTypes DEF reject_cancellation, OpenStatuses
    <3>2. /\ new.status = work[k].status /\ new.branch = work[k].branch /\ work'[k] = new
          /\ ~new.case
      BY <3>1 DEF WorkIs, TypeOK, WorkRow
    <3>3. CaseGuard(k)
      BY <1>1, <3>2 DEF CaseGuard
    <3> QED BY <3>1, <3>2, <3>3, WorkAccepted
  <2>3. CASE approve_cancellation(k, p)
    <3> DEFINE new == [work[k] EXCEPT !.case = FALSE, !.status = "ended"]
    <3>1. new \in WorkRow /\ WorkIs(k, new)
      BY <2>3, WorkTypes DEF approve_cancellation, OpenStatuses
    <3>2. /\ new.status = "ended" /\ new.branch = work[k].branch /\ work'[k] = new /\ ~new.case
      BY <3>1 DEF WorkIs, TypeOK, WorkRow
    <3>3. CaseGuard(k)
      BY <1>1, <3>2 DEF CaseGuard
    <3>4. StatusGuard(k)
      BY <2>3, <3>2 DEF StatusGuard, approve_cancellation
    <3> QED BY <3>1, <3>2, <3>3, <3>4, WorkAccepted
  <2> QED BY <2>1, <2>2, <2>3
<1> QED BY <1>2, <1>3

-----------------------------------------------------------------------------
LEMMA CommandsAccepted == DeskInv /\ Bindings /\ [Next]_tables => [AcceptedStep]_tables
<1> SUFFICES ASSUME DeskInv, Bindings, Next PROVE AcceptedStep
  OBVIOUS
<1>1. TypeOK /\ WorkIsAtHome /\ ClosedIsEmpty
  BY DEF DeskInv
<1>2. CASE CustomerCommands
  BY <1>1, <1>2, CreationAccepted, InvitationAccepted, ClaimAccepted, ActivationAccepted,
     EndAccepted, AssignmentAccepted, TransferAccepted DEF CustomerCommands
<1>3. CASE BranchCommands
  BY <1>1, <1>3, BranchAccepted, GrantAccepted DEF BranchCommands
<1>4. CASE WorkCommands
  BY <1>1, <1>4, QuoteAccepted, OrderAccepted, DecisionAccepted, CaseAccepted DEF WorkCommands
<1> QED BY <1>2, <1>3, <1>4 DEF Next

(* Accounts and invitations never contradict each other. *)
THEOREM BoundByInvitation == Spec => []Bindings
<1>1. DeskInv /\ Bindings /\ [Next]_tables => Bindings'
  BY BindingsNext DEF DeskInv
<1> QED BY <1>1, BindingsInit, DeskStaysInOrder, PTL DEF Spec

(* No command of the services is ever refused by a trigger of the desk's tables. *)
THEOREM TriggersAcceptCommands == Spec => GuardedDesk
<1> QED BY CommandsAccepted, BoundByInvitation, DeskStaysInOrder, PTL DEF Spec, GuardedDesk
=============================================================================
