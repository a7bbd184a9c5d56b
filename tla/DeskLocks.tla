----------------------------- MODULE DeskLocks -----------------------------
(* The commands of Desk as the services run them: one database transaction each, *)
(* READ COMMITTED, that takes row locks one after another and reads in between,   *)
(* while other transactions do the same.  A request may be sent again with its    *)
(* Idempotency-Key at any time, also while its first attempt still runs.          *)
(*                                                                            *)
(* A lock is taken in one of PostgreSQL's modes.  Nothing is queued: a shared     *)
(* lock is granted past a waiting writer, which is what PostgreSQL does, and any  *)
(* waiter may be the next, which allows every order it could produce.            *)
EXTENDS DeskTables, Integers, Sequences

CONSTANTS
    Txns,           (* database transactions under way at a time *)
    Scenarios,      (* agencies at rest with the requests sent to them *)
    Idle

(* transfer_customer_branch locks its two branches ORDER BY id. *)
ASSUME BranchIds == Branches \subseteq Nat /\ NoBranch \in Int

Commands ==
    {"create_customer", "issue_customer_claim_invitation", "revoke_customer_claim_invitation",
     "claim_customer", "activate_customer", "deactivate_customer", "withdraw_consent",
     "assign_customer_advisor", "end_customer_advisor_assignment", "transfer_customer_branch",
     "deactivate_branch", "close_branch", "create_branch_role_grant", "revoke_branch_role_grant",
     "create_quote", "create_order", "submit_order", "approve_order", "reject_order",
     "request_cancellation", "approve_cancellation", "reject_cancellation"}

(* A request names rows of the agency, and people who may be what it makes them.  *)
RequestOK(r) ==
    /\ r.cmd \in Commands /\ r.k \in Customers /\ r.b \in Branches /\ r.actor # Nobody
    /\ r.cmd = "claim_customer" => r.actor \in Accounts
    /\ r.cmd = "issue_customer_claim_invitation" => r.p \in Accounts
    /\ r.cmd = "assign_customer_advisor" => r.p \in Advisors
    /\ r.cmd = "transfer_customer_branch" => r.p \in Advisors \union {Nobody}
    /\ r.cmd \in {"create_branch_role_grant", "revoke_branch_role_grant"} => r.p \in Members

(* An agency at rest is one Desk may start with.  The id of a new customer is     *)
(* drawn for the request that creates him.                                      *)
ASSUME ScenariosAssumption ==
    \A s \in Scenarios :
        /\ s.grants \subseteq Members \X Branches
        /\ s.customer \in [Customers -> [branch : Branches, status : {"active"}, account : Accounts]
                                          \union {NoCustomer}]
        /\ \A k, c \in Customers :
             k # c => s.customer[k].account = Nobody \/ s.customer[k].account # s.customer[c].account
        /\ s.work \in [Customers -> WorkRow]
        /\ \A k \in Customers :
             s.work[k] # NoWork =>
               /\ s.customer[k] # NoCustomer /\ s.work[k].branch = s.customer[k].branch
               /\ s.work[k].status \in {"draft", "approved"} /\ ~s.work[k].case
        /\ \A r \in s.asked : RequestOK(r)
        /\ \A r, q \in s.asked :
             r.cmd = "create_customer" /\ q.cmd = "create_customer" /\ r.k = q.k => r = q

(* Idle is no transaction. *)
ASSUME IdleAssumption ==
    \A s \in Scenarios : Idle \notin [req : s.asked, pc : Nat, seen : Branches \union {NoBranch}]

VARIABLES
    asked,          (* the requests of the scenario *)
    txn,            (* what a transaction runs: request, next step, home read first *)
    locks,          (* rows locked by a transaction, with the mode *)
    times           (* how often a request has taken effect *)

vars == <<tables, asked, txn, locks, times>>

-----------------------------------------------------------------------------
(* Row locks *)

Lock(row, mode) == [row |-> row, mode |-> mode]

(* FOR UPDATE, FOR SHARE and the FOR KEY SHARE of a foreign key *)
Conflict(m, n) == (m = "update" \/ n = "update")

Blocks(s, lock) == \E l \in locks[s] : l.row = lock.row /\ Conflict(l.mode, lock.mode)

Free(t, lock) == \A s \in Txns \ {t} : ~Blocks(s, lock)

Customer(k) == <<"customer", k>>
BranchRow(b) == <<"branch", b>>
Member(p) == <<"member", p>>
Grant(p, b) == <<"grant", p, b>>
User(u) == <<"user", u>>
Invitation(k) == <<"invitation", k>>
Work(k) == <<"work", k>>
KeyRow(r) == <<"key", r>>

-----------------------------------------------------------------------------
(* The steps of a command: a lock to take, or none, and what must hold of the    *)
(* rows at that moment for the command to go on.                                *)

Takes(lock, ok) == [lock |-> {lock}, ok |-> ok]
Reads(ok) == [lock |-> {}, ok |-> ok]

AnyStatus == {"active", "inactive", "closed"}
New == {"active"}                   (* BRANCH_NEW_WORK_STATUSES *)
Drain == {"active", "inactive"}     (* BRANCH_DRAIN_STATUSES *)

(* _get_customer, for_update=True *)
OwnCustomer(r) == Takes(Lock(Customer(r.k), "update"), Exists(r.k))

(* _get_customer_binding, or the comparison with the preview of an invitation: the *)
(* row only counts in the branch read before                                     *)
BoundCustomer(r, seen) ==
    Takes(Lock(Customer(r.k), "update"), Exists(r.k) /\ customer[r.k].branch = seen)

(* _get_transaction_customer.  The branch it joins is not locked, and a wait for  *)
(* the customer's row re-reads that row only: it fails if the customer has moved. *)
TradingCustomer(r, seen) ==
    Takes(Lock(Customer(r.k), "update"), Active(r.k) /\ customer[r.k].branch = seen)

(* Mutant: the branch is read without FOR SHARE. *)
ScopeUnlocked(r, statuses) ==
    Reads(Exists(r.k) /\ branch[customer[r.k].branch] \in statuses)

(* lock_branch_scope and the branch part of require_branch_role *)
Scope(r, statuses) ==
    LET home == customer[r.k].branch IN
    Takes(Lock(BranchRow(home), "share"), Exists(r.k) /\ branch[home] \in statuses)

(* _get_branch, for_update=True *)
OwnBranch(b, statuses) == Takes(Lock(BranchRow(b), "update"), b \in Branches /\ branch[b] \in statuses)

(* get_active_membership, for_share=True *)
Actor(r) == Takes(Lock(Member(r.actor), "share"), TRUE)

(* require_agency_wide, require_customer_manager and the cleanup manager: the      *)
(* membership is locked first and asked for its role then.  A user has one role in *)
(* the agency, and that of a manager is neither an approver's nor an advisor's.   *)
Manager(r) == Takes(Lock(Member(r.actor), "share"), r.actor \notin Members)

(* Mutant: a completed key is not looked at. *)
KeyNeverReplays(r) == Takes(Lock(KeyRow(r), "update"), TRUE)

(* _begin_idempotent_action: waits for a transaction that has inserted the key,   *)
(* and goes no further than a replay once that has committed.                   *)
Key(r) == Takes(Lock(KeyRow(r), "update"), times[r] = 0)

(* the order, quote or case row with what the command asks of it *)
OwnWork(r, ok) == Takes(Lock(Work(r.k), "update"), ok)

OwnUser(u) == Takes(Lock(User(u), "update"), TRUE)

OwnInvitation(r, ok) == Takes(Lock(Invitation(r.k), "update"), ok)

(* Mutant: another customer's invitation of the same user is overlooked. *)
TargetInvitationsIgnored(r) == Reads(TRUE)

(* the pending invitations of the target, whosever they are *)
TargetInvitations(r) ==
    [lock |-> {Lock(Invitation(c), "update") :
                 c \in {c \in Customers : invitation[c].status = "pending"
                                            /\ invitation[c].target = r.p}},
     ok |-> ~InvitedElsewhere(r.p)]

(* an advisor's grant with its membership, joined and locked together *)
AdvisorGrant(p, b) ==
    [lock |-> {Lock(Grant(p, b), "update"), Lock(Member(p), "update")},
     ok |-> <<p, b>> \in grants]

(* _ensure_branch_has_active_approver, FOR SHARE LIMIT 1 *)
SomeApprover(r) ==
    LET home == work[r.k].branch
        found == IndependentApprovers(r.k, home)
        one == CHOOSE p \in found : TRUE
    IN  [lock |-> IF found = {} THEN {} ELSE {Lock(Grant(one, home), "share"), Lock(Member(one), "share")},
         ok |-> found # {}]

(* require_branch_approver: the approver's own grant is read, not locked. *)
Reviewer(r) == Reads(r.actor \in IndependentApprovers(r.k, work[r.k].branch))

(* Mutant: the source is locked before the target. *)
SourceThenTarget(r) == <<OwnBranch(customer[r.k].branch, Drain), OwnBranch(r.b, New)>>

(* The branches of a transfer in the order of their ids *)
BothBranches(r) ==
    LET source == OwnBranch(customer[r.k].branch, Drain)
        target == OwnBranch(r.b, New)
    IN  IF customer[r.k].branch < r.b THEN <<source, target>> ELSE <<target, source>>

-----------------------------------------------------------------------------
(* What each command does before it writes, step by step.  The locks of a        *)
(* command that is refused are the same up to the step that refuses it.         *)

create_customer(r) == <<OwnBranch(r.b, New), Manager(r), Key(r), Reads(~Exists(r.k))>>

issue_customer_claim_invitation(r) ==
    <<OwnCustomer(r), Scope(r, New), Manager(r), Key(r),
      Reads(customer[r.k].status = "prospect"),
      OwnUser(r.p), Reads(~BoundElsewhere(r.k, r.p)), TargetInvitations(r),
      OwnInvitation(r, invitation[r.k].status # "pending")>>

revoke_customer_claim_invitation(r) ==
    <<OwnCustomer(r), Scope(r, AnyStatus), Manager(r), Key(r),
      OwnInvitation(r, /\ invitation[r.k].branch = customer[r.k].branch
                       /\ invitation[r.k].status = "pending")>>

ClockRead == 6      (* the step of claim_customer that reads the clock *)

claim_customer(r, seen) ==
    <<BoundCustomer(r, seen), Scope(r, New), OwnUser(r.actor), OwnInvitation(r, TRUE), Key(r),
      Reads(/\ invitation[r.k].status = "pending" /\ ~invitation[r.k].expired
            /\ invitation[r.k].target = r.actor
            /\ customer[r.k].status = "prospect"),
      Reads(~BoundElsewhere(r.k, r.actor))>>

(* Mutant: nobody asks whether the customer's last order is still under review. *)
activate_anyhow(r) ==
    <<OwnCustomer(r), Scope(r, New), Manager(r), Key(r),
      Reads(customer[r.k].status \in {"invited", "inactive"} /\ customer[r.k].account # Nobody)>>

activate_customer(r) ==
    <<OwnCustomer(r), Scope(r, New), Manager(r), Key(r),
      Reads(customer[r.k].status \in {"invited", "inactive"} /\ customer[r.k].account # Nobody),
      Reads(work[r.k].status # "review")>>

(* _settle_customer_transactions *)
Settles(r) == <<Scope(r, AnyStatus), OwnWork(r, TRUE)>>

deactivate_customer(r) ==
    <<OwnCustomer(r)>>
      \o (IF r.actor = customer[r.k].account THEN <<>> ELSE <<Scope(r, AnyStatus), Manager(r)>>)
      \o <<Key(r), Reads(customer[r.k].status # "inactive")>> \o Settles(r)

withdraw_consent(r) == <<OwnCustomer(r), Key(r), Reads(Active(r.k))>> \o Settles(r)

assign_customer_advisor(r) ==
    <<OwnCustomer(r), Scope(r, New), Manager(r), Key(r),
      Reads(Active(r.k)), AdvisorGrant(r.p, customer[r.k].branch),
      Reads(advisor[r.k] # <<r.p, customer[r.k].branch>>)>>

end_customer_advisor_assignment(r) ==
    <<OwnCustomer(r), Scope(r, AnyStatus), Manager(r), Key(r), Reads(advisor[r.k] # NoAdvisor)>>

(* Mutant: a pending invitation does not hold its customer back. *)
NoOpenTrade(r) == <<OwnInvitation(r, TRUE), OwnWork(r, ~OpenWork(r.k))>>

(* _ensure_customer_transfer_has_no_open_work *)
NoOpenWork(r) ==
    <<OwnInvitation(r, invitation[r.k].status # "pending"), OwnWork(r, ~OpenWork(r.k))>>

transfer_customer_branch(r) ==
    <<OwnCustomer(r), Key(r), Reads(r.b # customer[r.k].branch)>>
      \o BothBranches(r) \o <<Manager(r)>> \o NoOpenWork(r)
      \o (IF r.p = Nobody THEN <<>> ELSE <<Reads(Active(r.k)), AdvisorGrant(r.p, r.b)>>)

deactivate_branch(r) ==
    <<OwnBranch(r.b, AnyStatus), Manager(r), Key(r), Reads(branch[r.b] = "active")>>

(* _branch_closure_readiness: eight counts, one statement each *)
Readiness(b) ==
    <<Reads(NoCustomers(b)), Reads(NoPendingInvitation(b)), Reads(NoAssignment(b)),
      Reads(NoGrant(b)), Reads(NoReview(b)), Reads(NoOpenQuote(b)),
      Reads(NoOpenOrder(b)), Reads(NoOpenCase(b))>>

(* Mutant: the readiness is that of the moment before the branch is locked. *)
close_when_ready(r) ==
    Readiness(r.b) \o <<OwnBranch(r.b, AnyStatus), Manager(r), Key(r), Reads(branch[r.b] = "inactive")>>

close_branch(r) ==
    <<OwnBranch(r.b, AnyStatus), Manager(r), Key(r), Reads(branch[r.b] = "inactive")>>
      \o Readiness(r.b)

create_branch_role_grant(r) ==
    <<OwnBranch(r.b, New), Manager(r), Key(r),
      Takes(Lock(Member(r.p), "update"), TRUE), Reads(<<r.p, r.b>> \notin grants)>>

(* Mutant: whether the grant is in use is read before the branch is locked. *)
revoke_unused_grant(r) ==
    <<Reads(<<r.p, r.b>> \in grants), Reads(~Assigned(r.p, r.b)), Reads(Replaceable(r.p, r.b)),
      OwnBranch(r.b, AnyStatus), Takes(Lock(Grant(r.p, r.b), "update"), TRUE), Manager(r), Key(r)>>

revoke_branch_role_grant(r) ==
    <<OwnBranch(r.b, AnyStatus), Takes(Lock(Grant(r.p, r.b), "update"), TRUE), Manager(r), Key(r),
      Reads(<<r.p, r.b>> \in grants), Reads(~Assigned(r.p, r.b)), Reads(Replaceable(r.p, r.b))>>

create_quote(r, seen) ==
    <<TradingCustomer(r, seen), Scope(r, New), Actor(r), Key(r), Reads(~OpenWork(r.k))>>

create_order(r, seen) ==
    <<TradingCustomer(r, seen), Scope(r, New), OwnWork(r, TRUE), Key(r),
      Reads(work[r.k].status = "quote")>>

submit_order(r, seen) ==
    <<TradingCustomer(r, seen), Scope(r, New), OwnWork(r, TRUE), Key(r),
      SomeApprover(r), Reads(work[r.k].status = "draft" /\ ~work[r.k].case)>>

approve_order(r, seen) ==
    <<TradingCustomer(r, seen), Scope(r, New), Actor(r), Reviewer(r), OwnWork(r, TRUE), Key(r),
      Reads(work[r.k].status = "review")>>

reject_order(r, seen) ==
    <<BoundCustomer(r, seen), Scope(r, Drain), Actor(r), Reviewer(r), OwnWork(r, TRUE), Key(r),
      Reads(work[r.k].status = "review")>>

(* A customer who asks needs no membership. *)
request_cancellation(r, seen) ==
    <<BoundCustomer(r, seen), Scope(r, Drain)>>
      \o (IF r.actor = customer[r.k].account THEN <<>> ELSE <<Actor(r)>>)
      \o <<OwnWork(r, TRUE), Key(r), SomeApprover(r),
           Reads(work[r.k].status \in {"draft", "approved"} /\ ~work[r.k].case)>>

review_cancellation(r, seen, ok) ==
    <<BoundCustomer(r, seen), Scope(r, Drain), Actor(r), Reviewer(r), OwnWork(r, TRUE), Key(r),
      Reads(work[r.k].case /\ ok)>>

CommandSteps(r, seen) ==
    CASE r.cmd = "create_customer" -> create_customer(r)
      [] r.cmd = "issue_customer_claim_invitation" -> issue_customer_claim_invitation(r)
      [] r.cmd = "revoke_customer_claim_invitation" -> revoke_customer_claim_invitation(r)
      [] r.cmd = "claim_customer" -> claim_customer(r, seen)
      [] r.cmd = "activate_customer" -> activate_customer(r)
      [] r.cmd = "deactivate_customer" -> deactivate_customer(r)
      [] r.cmd = "withdraw_consent" -> withdraw_consent(r)
      [] r.cmd = "assign_customer_advisor" -> assign_customer_advisor(r)
      [] r.cmd = "end_customer_advisor_assignment" -> end_customer_advisor_assignment(r)
      [] r.cmd = "transfer_customer_branch" -> transfer_customer_branch(r)
      [] r.cmd = "deactivate_branch" -> deactivate_branch(r)
      [] r.cmd = "close_branch" -> close_branch(r)
      [] r.cmd = "create_branch_role_grant" -> create_branch_role_grant(r)
      [] r.cmd = "revoke_branch_role_grant" -> revoke_branch_role_grant(r)
      [] r.cmd = "create_quote" -> create_quote(r, seen)
      [] r.cmd = "create_order" -> create_order(r, seen)
      [] r.cmd = "submit_order" -> submit_order(r, seen)
      [] r.cmd = "approve_order" -> approve_order(r, seen)
      [] r.cmd = "reject_order" -> reject_order(r, seen)
      [] r.cmd = "request_cancellation" -> request_cancellation(r, seen)
      [] r.cmd = "approve_cancellation" ->
           review_cancellation(r, seen, work[r.k].status \in {"draft", "approved"})
      [] r.cmd = "reject_cancellation" -> review_cancellation(r, seen, TRUE)

-----------------------------------------------------------------------------
(* Transactions *)

Steps(t) == CommandSteps(txn[t].req, txn[t].seen)

Running(t) == txn[t] # Idle

(* The branch of the invitation, or of the quote, order or customer, read first *)
Preview(r) == IF r.cmd = "claim_customer" THEN invitation[r.k].branch ELSE customer[r.k].branch

Begin(t, r) ==
    /\ ~Running(t)
    /\ txn' = [txn EXCEPT ![t] = [req |-> r, pc |-> 1, seen |-> Preview(r)]]
    /\ UNCHANGED <<tables, asked, locks, times>>

Step(t) ==
    /\ Running(t)
    /\ LET steps == Steps(t)
           step == steps[txn[t].pc] IN
         /\ txn[t].pc \in DOMAIN steps /\ step.ok
         /\ \A lock \in step.lock : Free(t, lock)
         /\ locks' = [locks EXCEPT ![t] = @ \union step.lock]
    /\ txn' = [txn EXCEPT ![t].pc = @ + 1]
    /\ UNCHANGED <<tables, asked, times>>

(* The event each command appends names its actor: a foreign key to the user. *)
ActorsKey(t) == Lock(User(txn[t].req.actor), "keyshare")

ReadyToCommit(t) == Running(t) /\ txn[t].pc > Len(Steps(t))

Writes(r) ==
    \/ r.cmd = "create_customer" /\ CustomerCreated(r.k, r.b)
    \/ r.cmd = "issue_customer_claim_invitation" /\ InvitationIssued(r.k, r.p)
    \/ r.cmd = "revoke_customer_claim_invitation" /\ InvitationRevoked(r.k)
    \/ r.cmd = "claim_customer" /\ CustomerClaimed(r.k, r.actor)
    \/ r.cmd = "activate_customer" /\ CustomerActivated(r.k)
    \/ r.cmd \in {"deactivate_customer", "withdraw_consent"} /\ RelationshipEnded(r.k)
    \/ r.cmd = "assign_customer_advisor" /\ AdvisorAssigned(r.k, r.p)
    \/ r.cmd = "end_customer_advisor_assignment" /\ AdvisorUnassigned(r.k)
    \/ r.cmd = "transfer_customer_branch" /\ CustomerTransferred(r.k, r.b, r.p)
    \/ r.cmd = "deactivate_branch" /\ BranchMoved(r.b, "inactive")
    \/ r.cmd = "close_branch" /\ BranchMoved(r.b, "closed")
    \/ r.cmd = "create_branch_role_grant" /\ GrantsAre(grants \union {<<r.p, r.b>>})
    \/ r.cmd = "revoke_branch_role_grant" /\ GrantsAre(grants \ {<<r.p, r.b>>})
    \/ /\ r.cmd = "create_quote"
       /\ WorkIs(r.k, [status |-> "quote", case |-> FALSE, branch |-> customer[r.k].branch])
    \/ r.cmd = "create_order" /\ WorkMoved(r.k, "draft")
    \/ r.cmd = "submit_order" /\ WorkMoved(r.k, "review")
    \/ r.cmd = "approve_order" /\ WorkMoved(r.k, "approved")
    \/ r.cmd = "reject_order" /\ WorkMoved(r.k, "ended")
    \/ r.cmd = "request_cancellation" /\ WorkIs(r.k, [work[r.k] EXCEPT !.case = TRUE])
    \/ /\ r.cmd = "approve_cancellation"
       /\ WorkIs(r.k, [work[r.k] EXCEPT !.case = FALSE, !.status = "ended"])
    \/ r.cmd = "reject_cancellation" /\ WorkIs(r.k, [work[r.k] EXCEPT !.case = FALSE])

Commit(t) ==
    /\ ReadyToCommit(t) /\ Free(t, ActorsKey(t))
    /\ Writes(txn[t].req)
    /\ times' = [times EXCEPT ![txn[t].req] = @ + 1]
    /\ txn' = [txn EXCEPT ![t] = Idle]
    /\ locks' = [locks EXCEPT ![t] = {}]
    /\ UNCHANGED asked

(* A refusal, a replay, a lock timeout, a deadlock's victim or a crash, anywhere *)
Rollback(t) ==
    /\ Running(t)
    /\ txn' = [txn EXCEPT ![t] = Idle]
    /\ locks' = [locks EXCEPT ![t] = {}]
    /\ UNCHANGED <<tables, asked, times>>

InvitationExpires(k) ==
    /\ InvitationRunsOut(k)
    /\ UNCHANGED <<asked, txn, locks, times>>

Init ==
    /\ \E s \in Scenarios :
         /\ asked = s.asked /\ grants = s.grants
         /\ customer = s.customer /\ work = s.work
         /\ times = [r \in s.asked |-> 0]
    /\ branch = [b \in Branches |-> "active"]
    /\ invitation = [k \in Customers |-> NoInvitation]
    /\ advisor = [k \in Customers |-> NoAdvisor]
    /\ txn = [t \in Txns |-> Idle]
    /\ locks = [t \in Txns |-> {}]

Next ==
    \/ \E t \in Txns : (\E r \in asked : Begin(t, r)) \/ Step(t) \/ Commit(t) \/ Rollback(t)
    \/ \E k \in Customers : InvitationExpires(k)

Spec == Init /\ [][Next]_vars

-----------------------------------------------------------------------------
(* Properties *)

(* claim_customer reads the clock before it commits.  An invitation that runs out *)
(* in between has been claimed in time; the desk sees it run out only if the      *)
(* claim comes to nothing.                                                      *)
ClaimedInTime(k) ==
    \E t \in Txns : /\ Running(t) /\ txn[t].req.cmd = "claim_customer" /\ txn[t].req.k = k
                   /\ txn[t].pc > ClockRead

InvitationsSeen ==
    [k \in Customers |-> [invitation[k] EXCEPT !.expired = @ /\ ~ClaimedInTime(k)]]

D == INSTANCE Desk WITH invitation <- InvitationsSeen

(* Whatever locks and reads the services interleave, the commands that commit    *)
(* are the atomic commands of Desk, one after another: what a command checked    *)
(* before another transaction committed still holds when it writes.             *)
ImplementsDesk == D!Spec

G == INSTANCE DeskGuards WITH invitation <- InvitationsSeen

(* Services and triggers keep the desk's rules independently of each other.  No    *)
(* interleaving brings a transaction past all checks of its service to a write    *)
(* that a trigger refuses at flush or commit: the desk of the triggers admits     *)
(* everything the services do.  (The trigger reads the clock after the service:   *)
(* a claim in the last moment may still be refused.)                             *)
ImplementsGuards == G!GuardedDesk

(* A request takes effect once at most, however often its client sends it again, *)
(* while the first attempt runs, after it committed, or after it was rolled back. *)
HappensOnce == \A r \in asked : times[r] <= 1

NextLocks(t) ==
    IF ~Running(t) THEN {}
    ELSE IF ReadyToCommit(t) THEN {ActorsKey(t)}
    ELSE Steps(t)[txn[t].pc].lock

WaitsFor(t, s) == t # s /\ \E lock \in NextLocks(t) : Blocks(s, lock)

(* Each of these waits for another of them, and is waited for by another: a cycle,  *)
(* of any length.                                                               *)
CircularWait(S) ==
    /\ S # {}
    /\ \A t \in S : (\E s \in S : WaitsFor(t, s)) /\ (\E s \in S : WaitsFor(s, t))

(* issue_customer_claim_invitation holds its target's user row FOR UPDATE, and    *)
(* whoever that is cannot write an event of his own until it ends.              *)
InvitesActorOf(t, s) ==
    /\ Running(t) /\ Running(s)
    /\ txn[t].req.cmd = "issue_customer_claim_invitation" /\ txn[t].req.p = txn[s].req.actor

(* The services lock customer, branches, grants and members, user, invitations in *)
(* that order, though no two commands the same ones: transactions wait in a       *)
(* circle only where one of them invites somebody who is at work himself and whom  *)
(* the others keep from writing his event.                                      *)
NoCircularWait ==
    \A S \in SUBSET Txns : CircularWait(S) =>
        \E t, s \in S : WaitsFor(t, s) /\ InvitesActorOf(s, t)
=============================================================================
