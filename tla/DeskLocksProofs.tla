--------------------------- MODULE DeskLocksProofs ---------------------------
(* Theorems about DeskLocks, for any number of transactions and for any agency    *)
(* and requests that satisfy ScenariosAssumption: a request takes effect once,    *)
(* DeskLocks implements Desk, the triggers accept what its transactions write,     *)
(* and transactions do not wait in a circle but for one case.                    *)
(*                                                                            *)
(* The second and the third rest on the argument of strict two-phase locking,     *)
(* made for locks that stand for more than their row.  Protected(held) says what   *)
(* nobody else changes while a transaction holds these locks, Covered(held) that  *)
(* a transaction that commits holds what it needs against everybody else;         *)
(* conflicting locks exclude each other, so a commit that is covered leaves the    *)
(* others protected.  Found says what a transaction has learnt: each of its steps  *)
(* so far would pass again, but for one read without a lock (the clock, the        *)
(* approvers), of which only Remains is left.  Where all steps would pass again at *)
(* the commit, the command's guard in Desk holds.                               *)
(*                                                                            *)
(* For the last one, Wants says where a command asks for which row, Had what it   *)
(* holds once it has gone on, and the kinds of rows are ruled out one by one as    *)
(* what somebody in a circle waits for.                                          *)
EXTENDS DeskLocks, WellFoundedInduction, TLAPS

P == INSTANCE DeskProofs WITH invitation <- InvitationsSeen

-----------------------------------------------------------------------------
(* The step lists *)

(* The step that asks for the Idempotency-Key.  Two commands have fewer steps     *)
(* before it when the customer sends the request himself.                       *)
ByCustomer(r) == r.actor = customer[r.k].account

LateKey(cmd) ==
    CASE cmd \in {"withdraw_consent", "transfer_customer_branch"} -> 2
      [] cmd \in {"create_customer", "deactivate_branch", "close_branch",
                  "create_branch_role_grant"} -> 3
      [] cmd \in {"issue_customer_claim_invitation", "revoke_customer_claim_invitation",
                  "activate_customer", "assign_customer_advisor",
                  "end_customer_advisor_assignment", "revoke_branch_role_grant",
                  "create_quote", "create_order", "submit_order", "deactivate_customer"} -> 4
      [] cmd \in {"claim_customer", "request_cancellation"} -> 5
      [] cmd \in {"approve_order", "reject_order", "approve_cancellation",
                  "reject_cancellation"} -> 6

EarlyKey(cmd) ==
    CASE cmd = "deactivate_customer" -> 2
      [] cmd = "request_cancellation" -> 4
      [] OTHER -> LateKey(cmd)

KeyAt(r) == IF ByCustomer(r) THEN EarlyKey(r.cmd) ELSE LateKey(r.cmd)

LEMMA KeyPlaces ==
    ASSUME NEW cmd \in Commands
    PROVE  /\ EarlyKey(cmd) \in 2..6 /\ LateKey(cmd) \in 2..6
           /\ EarlyKey(cmd) <= LateKey(cmd)
           /\ EarlyKey(cmd) = LateKey(cmd)
                \/ cmd \in {"deactivate_customer", "request_cancellation"}
BY DEF EarlyKey, LateKey, Commands

LEMMA KeyPlace ==
    ASSUME NEW r, r.cmd \in Commands
    PROVE  /\ KeyAt(r) \in 2..6
           /\ ByCustomer(r) => KeyAt(r) = EarlyKey(r.cmd)
           /\ ~ByCustomer(r) => KeyAt(r) = LateKey(r.cmd)
BY KeyPlaces DEF KeyAt

LEMMA NextKeyPlace ==
    ASSUME NEW r, r.cmd \in Commands
    PROVE  /\ KeyAt(r)' \in 2..6
           /\ ByCustomer(r)' => KeyAt(r)' = EarlyKey(r.cmd)
           /\ ~ByCustomer(r)' => KeyAt(r)' = LateKey(r.cmd)
BY KeyPlaces DEF KeyAt

HasKeyAt(steps, i, r) == Len(steps) \in Nat /\ i <= Len(steps) /\ steps[i] = Key(r)

LEMMA CustomerCommands ==
    ASSUME NEW r, NEW seen
    PROVE  /\ HasKeyAt(create_customer(r), 3, r)
           /\ HasKeyAt(issue_customer_claim_invitation(r), 4, r)
           /\ HasKeyAt(revoke_customer_claim_invitation(r), 4, r)
           /\ HasKeyAt(claim_customer(r, seen), 5, r)
           /\ HasKeyAt(activate_customer(r), 4, r)
           /\ HasKeyAt(deactivate_customer(r), IF ByCustomer(r) THEN 2 ELSE 4, r)
           /\ HasKeyAt(withdraw_consent(r), 2, r)
           /\ HasKeyAt(assign_customer_advisor(r), 4, r)
           /\ HasKeyAt(end_customer_advisor_assignment(r), 4, r)
<1>1. HasKeyAt(create_customer(r), 3, r)
  BY DEF HasKeyAt, create_customer
<1>2. HasKeyAt(issue_customer_claim_invitation(r), 4, r)
  BY DEF HasKeyAt, issue_customer_claim_invitation
<1>3. HasKeyAt(revoke_customer_claim_invitation(r), 4, r)
  BY DEF HasKeyAt, revoke_customer_claim_invitation
<1>4. HasKeyAt(claim_customer(r, seen), 5, r)
  BY DEF HasKeyAt, claim_customer
<1>5. HasKeyAt(activate_customer(r), 4, r)
  BY DEF HasKeyAt, activate_customer
<1>6. HasKeyAt(deactivate_customer(r), IF ByCustomer(r) THEN 2 ELSE 4, r)
  <2>1. CASE ByCustomer(r)
    BY <2>1 DEF HasKeyAt, deactivate_customer, Settles, ByCustomer
  <2>2. CASE ~ByCustomer(r)
    BY <2>2 DEF HasKeyAt, deactivate_customer, Settles, ByCustomer
  <2> QED BY <2>1, <2>2
<1>7. HasKeyAt(withdraw_consent(r), 2, r)
  BY DEF HasKeyAt, withdraw_consent, Settles
<1>8. HasKeyAt(assign_customer_advisor(r), 4, r)
  BY DEF HasKeyAt, assign_customer_advisor
<1>9. HasKeyAt(end_customer_advisor_assignment(r), 4, r)
  BY DEF HasKeyAt, end_customer_advisor_assignment
<1> QED BY <1>1, <1>2, <1>3, <1>4, <1>5, <1>6, <1>7, <1>8, <1>9

LEMMA BranchCommands ==
    ASSUME NEW r
    PROVE  /\ HasKeyAt(transfer_customer_branch(r), 2, r)
           /\ HasKeyAt(deactivate_branch(r), 3, r)
           /\ HasKeyAt(close_branch(r), 3, r)
           /\ HasKeyAt(create_branch_role_grant(r), 3, r)
           /\ HasKeyAt(revoke_branch_role_grant(r), 4, r)
<1>1. HasKeyAt(transfer_customer_branch(r), 2, r)
  <2>1. CASE r.p = Nobody
    BY <2>1 DEF HasKeyAt, transfer_customer_branch, BothBranches, NoOpenWork
  <2>2. CASE r.p # Nobody
    BY <2>2 DEF HasKeyAt, transfer_customer_branch, BothBranches, NoOpenWork
  <2> QED BY <2>1, <2>2
<1>2. HasKeyAt(deactivate_branch(r), 3, r)
  BY DEF HasKeyAt, deactivate_branch
<1>3. HasKeyAt(close_branch(r), 3, r)
  BY DEF HasKeyAt, close_branch, Readiness
<1>4. HasKeyAt(create_branch_role_grant(r), 3, r)
  BY DEF HasKeyAt, create_branch_role_grant
<1>5. HasKeyAt(revoke_branch_role_grant(r), 4, r)
  BY DEF HasKeyAt, revoke_branch_role_grant
<1> QED BY <1>1, <1>2, <1>3, <1>4, <1>5

LEMMA OrderCommands ==
    ASSUME NEW r, NEW seen, NEW ok
    PROVE  /\ HasKeyAt(create_quote(r, seen), 4, r)
           /\ HasKeyAt(create_order(r, seen), 4, r)
           /\ HasKeyAt(submit_order(r, seen), 4, r)
           /\ HasKeyAt(approve_order(r, seen), 6, r)
           /\ HasKeyAt(reject_order(r, seen), 6, r)
           /\ HasKeyAt(request_cancellation(r, seen), IF ByCustomer(r) THEN 4 ELSE 5, r)
           /\ HasKeyAt(review_cancellation(r, seen, ok), 6, r)
<1>1. HasKeyAt(create_quote(r, seen), 4, r)
  BY DEF HasKeyAt, create_quote
<1>2. HasKeyAt(create_order(r, seen), 4, r)
  BY DEF HasKeyAt, create_order
<1>3. HasKeyAt(submit_order(r, seen), 4, r)
  BY DEF HasKeyAt, submit_order
<1>4. HasKeyAt(approve_order(r, seen), 6, r)
  BY DEF HasKeyAt, approve_order
<1>5. HasKeyAt(reject_order(r, seen), 6, r)
  BY DEF HasKeyAt, reject_order
<1>6. HasKeyAt(request_cancellation(r, seen), IF ByCustomer(r) THEN 4 ELSE 5, r)
  <2>1. CASE ByCustomer(r)
    BY <2>1 DEF HasKeyAt, request_cancellation, ByCustomer
  <2>2. CASE ~ByCustomer(r)
    BY <2>2 DEF HasKeyAt, request_cancellation, ByCustomer
  <2> QED BY <2>1, <2>2
<1>7. HasKeyAt(review_cancellation(r, seen, ok), 6, r)
  BY DEF HasKeyAt, review_cancellation
<1> QED BY <1>1, <1>2, <1>3, <1>4, <1>5, <1>6, <1>7

LEMMA EveryCommandHasAKey ==
    ASSUME NEW r, NEW seen, r.cmd \in Commands
    PROVE  HasKeyAt(CommandSteps(r, seen), KeyAt(r), r) /\ KeyAt(r) \in 2..6
<1>1. KeyAt(r) \in 2..6
  BY KeyPlace
<1>2. CASE r.cmd = "create_customer"
  <2> CommandSteps(r, seen) = create_customer(r)
    BY <1>2 DEF CommandSteps
  <2> QED BY <1>1, <1>2, CustomerCommands DEF KeyAt, EarlyKey, LateKey
<1>3. CASE r.cmd = "issue_customer_claim_invitation"
  <2> CommandSteps(r, seen) = issue_customer_claim_invitation(r)
    BY <1>3 DEF CommandSteps
  <2> QED BY <1>1, <1>3, CustomerCommands DEF KeyAt, EarlyKey, LateKey
<1>4. CASE r.cmd = "revoke_customer_claim_invitation"
  <2> CommandSteps(r, seen) = revoke_customer_claim_invitation(r)
    BY <1>4 DEF CommandSteps
  <2> QED BY <1>1, <1>4, CustomerCommands DEF KeyAt, EarlyKey, LateKey
<1>5. CASE r.cmd = "claim_customer"
  <2> CommandSteps(r, seen) = claim_customer(r, seen)
    BY <1>5 DEF CommandSteps
  <2> QED BY <1>1, <1>5, CustomerCommands DEF KeyAt, EarlyKey, LateKey
<1>6. CASE r.cmd = "activate_customer"
  <2> CommandSteps(r, seen) = activate_customer(r)
    BY <1>6 DEF CommandSteps
  <2> QED BY <1>1, <1>6, CustomerCommands DEF KeyAt, EarlyKey, LateKey
<1>7. CASE r.cmd = "deactivate_customer"
  <2> CommandSteps(r, seen) = deactivate_customer(r)
    BY <1>7 DEF CommandSteps
  <2> QED BY <1>1, <1>7, CustomerCommands DEF KeyAt, EarlyKey, LateKey
<1>8. CASE r.cmd = "withdraw_consent"
  <2> CommandSteps(r, seen) = withdraw_consent(r)
    BY <1>8 DEF CommandSteps
  <2> QED BY <1>1, <1>8, CustomerCommands DEF KeyAt, EarlyKey, LateKey
<1>9. CASE r.cmd = "assign_customer_advisor"
  <2> CommandSteps(r, seen) = assign_customer_advisor(r)
    BY <1>9 DEF CommandSteps
  <2> QED BY <1>1, <1>9, CustomerCommands DEF KeyAt, EarlyKey, LateKey
<1>10. CASE r.cmd = "end_customer_advisor_assignment"
  <2> CommandSteps(r, seen) = end_customer_advisor_assignment(r)
    BY <1>10 DEF CommandSteps
  <2> QED BY <1>1, <1>10, CustomerCommands DEF KeyAt, EarlyKey, LateKey
<1>11. CASE r.cmd = "transfer_customer_branch"
  <2> CommandSteps(r, seen) = transfer_customer_branch(r)
    BY <1>11 DEF CommandSteps
  <2> QED BY <1>1, <1>11, BranchCommands DEF KeyAt, EarlyKey, LateKey
<1>12. CASE r.cmd = "deactivate_branch"
  <2> CommandSteps(r, seen) = deactivate_branch(r)
    BY <1>12 DEF CommandSteps
  <2> QED BY <1>1, <1>12, BranchCommands DEF KeyAt, EarlyKey, LateKey
<1>13. CASE r.cmd = "close_branch"
  <2> CommandSteps(r, seen) = close_branch(r)
    BY <1>13 DEF CommandSteps
  <2> QED BY <1>1, <1>13, BranchCommands DEF KeyAt, EarlyKey, LateKey
<1>14. CASE r.cmd = "create_branch_role_grant"
  <2> CommandSteps(r, seen) = create_branch_role_grant(r)
    BY <1>14 DEF CommandSteps
  <2> QED BY <1>1, <1>14, BranchCommands DEF KeyAt, EarlyKey, LateKey
<1>15. CASE r.cmd = "revoke_branch_role_grant"
  <2> CommandSteps(r, seen) = revoke_branch_role_grant(r)
    BY <1>15 DEF CommandSteps
  <2> QED BY <1>1, <1>15, BranchCommands DEF KeyAt, EarlyKey, LateKey
<1>16. CASE r.cmd = "create_quote"
  <2> CommandSteps(r, seen) = create_quote(r, seen)
    BY <1>16 DEF CommandSteps
  <2> QED BY <1>1, <1>16, OrderCommands DEF KeyAt, EarlyKey, LateKey
<1>17. CASE r.cmd = "create_order"
  <2> CommandSteps(r, seen) = create_order(r, seen)
    BY <1>17 DEF CommandSteps
  <2> QED BY <1>1, <1>17, OrderCommands DEF KeyAt, EarlyKey, LateKey
<1>18. CASE r.cmd = "submit_order"
  <2> CommandSteps(r, seen) = submit_order(r, seen)
    BY <1>18 DEF CommandSteps
  <2> QED BY <1>1, <1>18, OrderCommands DEF KeyAt, EarlyKey, LateKey
<1>19. CASE r.cmd = "approve_order"
  <2> CommandSteps(r, seen) = approve_order(r, seen)
    BY <1>19 DEF CommandSteps
  <2> QED BY <1>1, <1>19, OrderCommands DEF KeyAt, EarlyKey, LateKey
<1>20. CASE r.cmd = "reject_order"
  <2> CommandSteps(r, seen) = reject_order(r, seen)
    BY <1>20 DEF CommandSteps
  <2> QED BY <1>1, <1>20, OrderCommands DEF KeyAt, EarlyKey, LateKey
<1>21. CASE r.cmd = "request_cancellation"
  <2> CommandSteps(r, seen) = request_cancellation(r, seen)
    BY <1>21 DEF CommandSteps
  <2> QED BY <1>1, <1>21, OrderCommands DEF KeyAt, EarlyKey, LateKey
<1>22. CASE r.cmd = "approve_cancellation"
  <2> CommandSteps(r, seen) = review_cancellation(r, seen, work[r.k].status \in {"draft", "approved"})
    BY <1>22 DEF CommandSteps
  <2> QED BY <1>1, <1>22, OrderCommands DEF KeyAt, EarlyKey, LateKey
<1>23. CASE r.cmd = "reject_cancellation"
  <2> CommandSteps(r, seen) = review_cancellation(r, seen, TRUE)
    BY <1>23 DEF CommandSteps
  <2> QED BY <1>1, <1>23, OrderCommands DEF KeyAt, EarlyKey, LateKey
<1> QED BY <1>1, <1>2, <1>3, <1>4, <1>5, <1>6, <1>7, <1>8, <1>9, <1>10, <1>11, <1>12,
  <1>13, <1>14, <1>15, <1>16, <1>17, <1>18, <1>19, <1>20, <1>21, <1>22, <1>23 DEF Commands

(* A claim, and the commands whose steps depend on the account, lock the customer *)
(* before anything else.                                                        *)
AccountCommands == {"claim_customer", "deactivate_customer", "request_cancellation"}

LEMMA CustomerFirst ==
    ASSUME NEW r, NEW seen, r.cmd \in AccountCommands
    PROVE  CommandSteps(r, seen)[1].lock = {Lock(Customer(r.k), "update")}
<1>1. claim_customer(r, seen)[1].lock = {Lock(Customer(r.k), "update")}
  BY DEF claim_customer, BoundCustomer, Takes
<1>2. deactivate_customer(r)[1].lock = {Lock(Customer(r.k), "update")}
  <2>1. deactivate_customer(r)[1] = OwnCustomer(r)
    <3>1. CASE ByCustomer(r)
      BY <3>1 DEF deactivate_customer, Settles, ByCustomer
    <3>2. CASE ~ByCustomer(r)
      BY <3>2 DEF deactivate_customer, Settles, ByCustomer
    <3> QED BY <3>1, <3>2
  <2> QED BY <2>1 DEF OwnCustomer, Takes
<1>3. request_cancellation(r, seen)[1].lock = {Lock(Customer(r.k), "update")}
  <2>1. request_cancellation(r, seen)[1] = BoundCustomer(r, seen)
    <3>1. CASE ByCustomer(r)
      BY <3>1 DEF request_cancellation, ByCustomer
    <3>2. CASE ~ByCustomer(r)
      BY <3>2 DEF request_cancellation, ByCustomer
    <3> QED BY <3>1, <3>2
  <2> QED BY <2>1 DEF BoundCustomer, Takes
<1>4. CASE r.cmd = "claim_customer"
  BY <1>1, <1>4 DEF CommandSteps
<1>5. CASE r.cmd = "deactivate_customer"
  BY <1>2, <1>5 DEF CommandSteps
<1>6. CASE r.cmd = "request_cancellation"
  BY <1>3, <1>6 DEF CommandSteps
<1> QED BY <1>4, <1>5, <1>6 DEF AccountCommands

-----------------------------------------------------------------------------
(* Requests, transactions and customers have their types. *)

AnyCustomer ==
    [branch : Branches \union {NoBranch}, status : CustomerStatuses \union {"none"},
     account : Accounts \union {Nobody}]

RequestsOK ==
    /\ \A r \in asked : RequestOK(r)
    /\ \A r, q \in asked :
         r.cmd = "create_customer" /\ q.cmd = "create_customer" /\ r.k = q.k => r = q

TxnsOK ==
    /\ DOMAIN txn = Txns
    /\ \A t \in Txns : Running(t) =>
          /\ txn[t].req \in asked /\ txn[t].pc \in Nat \ {0}
          /\ txn[t] = [req |-> txn[t].req, pc |-> txn[t].pc, seen |-> txn[t].seen]

RowsOK ==
    /\ customer \in [Customers -> AnyCustomer]
    /\ DOMAIN locks = Txns
    /\ times \in [asked -> Nat]

(* No two transactions hold locks that conflict. *)
LocksExclude ==
    \A s, t \in Txns : s # t =>
        \A l \in locks[s], m \in locks[t] : l.row = m.row => ~Conflict(l.mode, m.mode)

(* A transaction past the step of its key holds the key, and its request has not  *)
(* taken effect.                                                                *)
Keyed(t) == Running(t) /\ txn[t].pc > KeyAt(txn[t].req)

KeysAreHeld ==
    \A t \in Txns : Keyed(t) =>
        Lock(KeyRow(txn[t].req), "update") \in locks[t] /\ times[txn[t].req] = 0

CustomersAreHeld ==
    \A t \in Txns : Running(t) /\ txn[t].pc > 1 /\ txn[t].req.cmd \in AccountCommands =>
        Lock(Customer(txn[t].req.k), "update") \in locks[t]

(* The inductive invariant *)
KeyInv ==
    /\ RequestsOK /\ TxnsOK /\ RowsOK
    /\ LocksExclude /\ KeysAreHeld /\ CustomersAreHeld
    /\ HappensOnce

LEMMA KeyInvInit == Init => KeyInv
<1> SUFFICES ASSUME Init PROVE KeyInv
  OBVIOUS
<1>1. PICK s \in Scenarios :
        /\ asked = s.asked /\ customer = s.customer /\ times = [r \in s.asked |-> 0]
  BY DEF Init
<1>2. RequestsOK
  BY <1>1, ScenariosAssumption DEF RequestsOK
<1>3. \A t \in Txns : ~Running(t)
  BY DEF Init, Running
<1>4. TxnsOK
  BY <1>3 DEF Init, TxnsOK
<1>5. [branch : Branches, status : {"active"}, account : Accounts] \union {NoCustomer}
        \subseteq AnyCustomer
  BY DEF NoCustomer, AnyCustomer, CustomerStatuses
<1>6. RowsOK
  BY <1>1, <1>5, ScenariosAssumption DEF Init, RowsOK
<1>7. LocksExclude
  BY DEF Init, LocksExclude
<1>8. KeysAreHeld /\ CustomersAreHeld
  BY <1>3 DEF KeysAreHeld, CustomersAreHeld, Keyed
<1>9. HappensOnce
  BY <1>1 DEF HappensOnce
<1> QED BY <1>2, <1>4, <1>6, <1>7, <1>8, <1>9 DEF KeyInv

-----------------------------------------------------------------------------
(* What each step changes *)

LEMMA KeyInvBegin ==
    ASSUME KeyInv, NEW t \in Txns, NEW r \in asked, Begin(t, r)
    PROVE  KeyInv'
<1>1. /\ txn' = [txn EXCEPT ![t] = [req |-> r, pc |-> 1, seen |-> Preview(r)]]
      /\ UNCHANGED <<tables, asked, locks, times>>
  BY DEF Begin
<1>2. KeyAt(r) \in 2..6
  BY EveryCommandHasAKey DEF KeyInv, RequestsOK, RequestOK
<1>3. \A q : KeyAt(q)' = KeyAt(q)
  BY <1>1 DEF KeyAt, ByCustomer, tables
<1>4. TxnsOK'
  BY <1>1 DEF KeyInv, TxnsOK, Running
<1>5. \A u \in Txns : u # t => txn'[u] = txn[u]
  BY <1>1 DEF KeyInv, TxnsOK
<1>6. txn'[t].req = r /\ txn'[t].pc = 1
  BY <1>1 DEF KeyInv, TxnsOK
<1>7. ~Keyed(t)'
  BY <1>2, <1>3, <1>6 DEF Keyed
<1>8. KeysAreHeld'
  BY <1>1, <1>3, <1>5, <1>7 DEF KeyInv, KeysAreHeld, Keyed, Running
<1>9. CustomersAreHeld'
  BY <1>1, <1>5, <1>6 DEF KeyInv, CustomersAreHeld, Running
<1> QED
  BY <1>1, <1>4, <1>8, <1>9
  DEF KeyInv, RequestsOK, RequestOK, RowsOK, LocksExclude, HappensOnce, tables

LEMMA KeyInvStep ==
    ASSUME KeyInv, NEW t \in Txns, Step(t)
    PROVE  KeyInv'
<1> DEFINE r == txn[t].req
           steps == CommandSteps(r, txn[t].seen)
           step == steps[txn[t].pc]
<1>1. /\ Running(t) /\ step.ok
      /\ \A lock \in step.lock : Free(t, lock)
      /\ locks' = [locks EXCEPT ![t] = @ \union step.lock]
      /\ txn' = [txn EXCEPT ![t].pc = @ + 1]
      /\ UNCHANGED <<tables, asked, times>>
  BY DEF Step, Steps
<1>2. r \in asked /\ r.cmd \in Commands /\ txn[t].pc \in Nat \ {0}
  BY <1>1 DEF KeyInv, TxnsOK, RequestsOK, RequestOK
<1>3. HasKeyAt(steps, KeyAt(r), r) /\ KeyAt(r) \in 2..6
  BY <1>2, EveryCommandHasAKey
<1>4. \A q : KeyAt(q)' = KeyAt(q)
  BY <1>1 DEF KeyAt, ByCustomer, tables
<1>5. /\ \A u \in Txns : u # t => txn'[u] = txn[u] /\ locks'[u] = locks[u]
      /\ locks'[t] = locks[t] \union step.lock
  BY <1>1 DEF KeyInv, TxnsOK, RowsOK
<1>6. txn'[t] = [req |-> r, pc |-> txn[t].pc + 1, seen |-> txn[t].seen]
  BY <1>1, <1>2 DEF KeyInv, TxnsOK
<1>7. TxnsOK'
  <2>1. DOMAIN txn' = Txns
    BY <1>1 DEF KeyInv, TxnsOK
  <2>2. \A u \in Txns : u # t /\ Running(u)' =>
          /\ txn'[u].req \in asked /\ txn'[u].pc \in Nat \ {0}
          /\ txn'[u] = [req |-> txn'[u].req, pc |-> txn'[u].pc, seen |-> txn'[u].seen]
    BY <1>5 DEF KeyInv, TxnsOK, Running
  <2>3. /\ txn'[t].req \in asked /\ txn'[t].pc \in Nat \ {0}
        /\ txn'[t] = [req |-> txn'[t].req, pc |-> txn'[t].pc, seen |-> txn'[t].seen]
    BY <1>2, <1>6
  <2> QED BY <1>1, <2>1, <2>2, <2>3 DEF TxnsOK, Running
<1>8. LocksExclude'
  <2> SUFFICES ASSUME NEW a \in Txns, NEW b \in Txns, a # b,
                      NEW l \in locks'[a], NEW m \in locks'[b], l.row = m.row
               PROVE  ~Conflict(l.mode, m.mode)
    BY DEF LocksExclude, Conflict
  <2>1. CASE l \in locks[a] /\ m \in locks[b]
    BY <2>1 DEF KeyInv, LocksExclude
  <2>2. CASE a = t /\ l \in step.lock
    BY <1>1, <1>5, <2>2 DEF Free, Blocks, Conflict
  <2>3. CASE b = t /\ m \in step.lock
    BY <1>1, <1>5, <2>3 DEF Free, Blocks, Conflict
  <2> QED BY <1>5, <2>1, <2>2, <2>3
<1>9. KeysAreHeld'
  <2> SUFFICES ASSUME NEW u \in Txns, Keyed(u)'
               PROVE  Lock(KeyRow(txn'[u].req), "update") \in locks'[u] /\ times'[txn'[u].req] = 0
    BY DEF KeysAreHeld, Lock, KeyRow
  <2>1. CASE u # t
    BY <1>1, <1>4, <1>5, <2>1 DEF KeyInv, KeysAreHeld, Keyed, Running
  <2>2. CASE u = t /\ Keyed(t)
    BY <1>1, <1>5, <1>6, <2>2 DEF KeyInv, KeysAreHeld
  <2>3. CASE u = t /\ ~Keyed(t)
    <3>1. txn[t].pc = KeyAt(r)
      BY <1>1, <1>2, <1>3, <1>4, <1>6, <2>3 DEF Keyed
    <3>2. step = Key(r)
      BY <1>3, <3>1 DEF HasKeyAt
    <3>3. Key(r).lock = {Lock(KeyRow(r), "update")} /\ (Key(r).ok => times[r] = 0)
      BY DEF Key, Takes
    <3>4. times[r] = 0 /\ Lock(KeyRow(r), "update") \in step.lock
      BY <1>1, <3>2, <3>3
    <3> QED BY <1>1, <1>5, <1>6, <2>3, <3>4
  <2> QED BY <2>1, <2>2, <2>3
<1>10. CustomersAreHeld'
  <2> SUFFICES ASSUME NEW u \in Txns, Running(u)', txn'[u].pc > 1,
                      txn'[u].req.cmd \in AccountCommands
               PROVE  Lock(Customer(txn'[u].req.k), "update") \in locks'[u]
    BY DEF CustomersAreHeld, Lock, Customer, AccountCommands
  <2>1. CASE u # t
    BY <1>5, <2>1 DEF KeyInv, CustomersAreHeld, Running
  <2>2. CASE u = t /\ txn[t].pc > 1
    BY <1>1, <1>5, <1>6, <2>2 DEF KeyInv, CustomersAreHeld
  <2>3. CASE u = t /\ txn[t].pc = 1
    BY <1>5, <1>6, <2>3, CustomerFirst
  <2> QED BY <1>2, <2>1, <2>2, <2>3
<1>11. RowsOK'
  BY <1>1 DEF KeyInv, RowsOK, tables
<1> QED
  BY <1>1, <1>7, <1>8, <1>9, <1>10, <1>11 DEF KeyInv, RequestsOK, RequestOK, HappensOnce

LEMMA KeyInvRollback ==
    ASSUME KeyInv, NEW t \in Txns, Rollback(t)
    PROVE  KeyInv'
<1>1. /\ txn' = [txn EXCEPT ![t] = Idle] /\ locks' = [locks EXCEPT ![t] = {}]
      /\ UNCHANGED <<tables, asked, times>>
  BY DEF Rollback
<1>2. \A q : KeyAt(q)' = KeyAt(q)
  BY <1>1 DEF KeyAt, ByCustomer, tables
<1>3. /\ \A u \in Txns : u # t => txn'[u] = txn[u] /\ locks'[u] = locks[u]
      /\ txn'[t] = Idle /\ locks'[t] = {}
  BY <1>1 DEF KeyInv, TxnsOK, RowsOK
<1>4. TxnsOK'
  BY <1>1, <1>3 DEF KeyInv, TxnsOK, Running
<1>5. LocksExclude'
  BY <1>3 DEF KeyInv, LocksExclude
<1>6. KeysAreHeld' /\ CustomersAreHeld'
  BY <1>1, <1>2, <1>3 DEF KeyInv, KeysAreHeld, CustomersAreHeld, Keyed, Running
<1> QED
  BY <1>1, <1>4, <1>5, <1>6 DEF KeyInv, RequestsOK, RequestOK, RowsOK, HappensOnce, tables

(* The account of a customer is changed by a claim, which has locked the row, or  *)
(* taken away.                                                                  *)
LEMMA AccountsMove ==
    ASSUME KeyInv, NEW r \in asked, Writes(r)
    PROVE  /\ customer' \in [Customers -> AnyCustomer]
           /\ \A k \in Customers :
                \/ customer'[k].account \in {customer[k].account, Nobody}
                \/ r.cmd = "claim_customer" /\ r.k = k
<1> USE DEF KeyInv
<1>1. /\ r.k \in Customers /\ r.b \in Branches
      /\ r.cmd = "claim_customer" => r.actor \in Accounts
      /\ customer \in [Customers -> AnyCustomer]
  BY DEF RequestsOK, RequestOK, RowsOK
<1>2. /\ \A status \in CustomerStatuses :
           /\ [customer[r.k] EXCEPT !.status = status] \in AnyCustomer
           /\ [customer[r.k] EXCEPT !.status = status].account = customer[r.k].account
      /\ \A b \in Branches :
           /\ [customer[r.k] EXCEPT !.branch = b] \in AnyCustomer
           /\ [customer[r.k] EXCEPT !.branch = b].account = customer[r.k].account
      /\ \A u \in Accounts :
           [customer[r.k] EXCEPT !.status = "invited", !.account = u] \in AnyCustomer
  <2>1. customer[r.k] \in AnyCustomer
    BY <1>1
  <2> QED BY <2>1 DEF AnyCustomer, CustomerStatuses
<1>3. CASE r.cmd = "create_customer"
  <2>1. customer' = [customer EXCEPT ![r.k] = [branch |-> r.b, status |-> "prospect", account |-> Nobody]]
    BY <1>3 DEF Writes, CustomerCreated
  <2>2. [branch |-> r.b, status |-> "prospect", account |-> Nobody] \in AnyCustomer
    BY <1>1 DEF AnyCustomer, CustomerStatuses
  <2> QED BY <1>1, <2>1, <2>2
<1>4. CASE r.cmd = "claim_customer"
  <2>1. customer' = [customer EXCEPT ![r.k] =
                       [customer[r.k] EXCEPT !.status = "invited", !.account = r.actor]]
    BY <1>1, <1>4 DEF Writes, CustomerClaimed, RowsOK
  <2> QED BY <1>1, <1>2, <1>4, <2>1 DEF CustomerStatuses
<1>5. CASE r.cmd = "activate_customer"
  <2>1. customer' = [customer EXCEPT ![r.k] = [customer[r.k] EXCEPT !.status = "active"]]
    BY <1>5 DEF Writes, CustomerActivated
  <2> QED BY <1>1, <1>2, <2>1 DEF CustomerStatuses
<1>6. CASE r.cmd \in {"deactivate_customer", "withdraw_consent"}
  <2>1. customer' = [customer EXCEPT ![r.k] = [customer[r.k] EXCEPT !.status = "inactive"]]
    BY <1>6 DEF Writes, RelationshipEnded
  <2> QED BY <1>1, <1>2, <2>1 DEF CustomerStatuses
<1>7. CASE r.cmd = "transfer_customer_branch"
  <2>1. customer' = [customer EXCEPT ![r.k] = [customer[r.k] EXCEPT !.branch = r.b]]
    BY <1>7 DEF Writes, CustomerTransferred
  <2> QED BY <1>1, <1>2, <2>1
<1>8. CASE r.cmd \notin {"create_customer", "claim_customer", "activate_customer",
                         "deactivate_customer", "withdraw_consent", "transfer_customer_branch"}
  <2>1. customer' = customer
    BY <1>8 DEF Writes, InvitationIssued, InvitationRevoked, AdvisorAssigned, AdvisorUnassigned,
                BranchMoved, GrantsAre, WorkIs, WorkMoved
  <2> QED BY <1>1, <2>1
<1> QED BY <1>3, <1>4, <1>5, <1>6, <1>7, <1>8

LEMMA KeyInvCommit ==
    ASSUME KeyInv, NEW t \in Txns, Commit(t)
    PROVE  KeyInv'
<1> DEFINE r == txn[t].req
<1>1. /\ Running(t) /\ txn[t].pc > Len(CommandSteps(r, txn[t].seen))
      /\ Writes(r)
      /\ times' = [times EXCEPT ![r] = @ + 1]
      /\ txn' = [txn EXCEPT ![t] = Idle]
      /\ locks' = [locks EXCEPT ![t] = {}]
      /\ UNCHANGED asked
  BY DEF Commit, ReadyToCommit, Steps
<1>2. r \in asked /\ r.cmd \in Commands /\ txn[t].pc \in Nat \ {0}
  BY <1>1 DEF KeyInv, TxnsOK, RequestsOK, RequestOK
<1>3. HasKeyAt(CommandSteps(r, txn[t].seen), KeyAt(r), r) /\ KeyAt(r) \in 2..6
  BY <1>2, EveryCommandHasAKey
<1>4. Keyed(t) /\ txn[t].pc > 1
  BY <1>1, <1>2, <1>3 DEF HasKeyAt, Keyed
<1>5. times[r] = 0 /\ Lock(KeyRow(r), "update") \in locks[t]
  BY <1>4 DEF KeyInv, KeysAreHeld
<1>6. /\ \A u \in Txns : u # t => txn'[u] = txn[u] /\ locks'[u] = locks[u]
      /\ txn'[t] = Idle /\ locks'[t] = {}
  BY <1>1 DEF KeyInv, TxnsOK, RowsOK
<1>7. /\ times' \in [asked -> Nat] /\ times'[r] = 1
      /\ \A q \in asked : q # r => times'[q] = times[q]
  BY <1>1, <1>2, <1>5 DEF KeyInv, RowsOK
<1>8. HappensOnce'
  BY <1>1, <1>7 DEF KeyInv, HappensOnce
<1>9. TxnsOK'
  BY <1>1, <1>6 DEF KeyInv, TxnsOK, Running
<1>10. LocksExclude'
  BY <1>6 DEF KeyInv, LocksExclude
<1>11. RowsOK'
  BY <1>1, <1>2, <1>7, AccountsMove DEF KeyInv, RowsOK
<1>12. \A u \in Txns : Running(u)' => u # t /\ Running(u)
  BY <1>6 DEF Running
<1>13. CustomersAreHeld'
  BY <1>6, <1>12 DEF KeyInv, CustomersAreHeld
<1>14. KeysAreHeld'
  <2> SUFFICES ASSUME NEW u \in Txns, Keyed(u)'
               PROVE  Lock(KeyRow(txn'[u].req), "update") \in locks'[u] /\ times'[txn'[u].req] = 0
    BY DEF KeysAreHeld, Lock, KeyRow
  <2> PICK q : q = txn[u].req
    OBVIOUS
  <2>1. u # t /\ Running(u) /\ txn'[u] = txn[u] /\ locks'[u] = locks[u]
    BY <1>6, <1>12 DEF Keyed
  <2>2. /\ q \in asked /\ q.cmd \in Commands /\ q.k \in Customers /\ q.actor # Nobody
        /\ txn[u].pc \in Nat \ {0}
    BY <2>1 DEF KeyInv, TxnsOK, RequestsOK, RequestOK
  <2>3. /\ KeyAt(q) \in 2..6
        /\ ByCustomer(q) => KeyAt(q) = EarlyKey(q.cmd)
        /\ ~ByCustomer(q) => KeyAt(q) = LateKey(q.cmd)
    BY <2>2, KeyPlace
  <2>4. /\ KeyAt(q)' \in 2..6
        /\ ByCustomer(q)' => KeyAt(q)' = EarlyKey(q.cmd)
        /\ ~ByCustomer(q)' => KeyAt(q)' = LateKey(q.cmd)
    BY <2>2, NextKeyPlace
  <2>5. txn[u].pc > KeyAt(q)'
    <3>1. \A c : c = txn'[u].req => txn'[u].pc > KeyAt(c)'
      BY DEF Keyed
    <3> QED BY <2>1, <3>1
  <2>6. KeyAt(q) <= KeyAt(q)'
    <3>1. CASE q.cmd \notin {"deactivate_customer", "request_cancellation"}
      BY <2>2, <2>3, <2>4, <3>1, KeyPlaces
    <3>2. CASE q.cmd \in {"deactivate_customer", "request_cancellation"}
      <4>1. Lock(Customer(q.k), "update") \in locks[u]
        BY <2>1, <2>2, <2>4, <2>5, <3>2 DEF KeyInv, CustomersAreHeld, AccountCommands
      <4>2. ~(r.cmd = "claim_customer" /\ r.k = q.k)
        <5> SUFFICES ASSUME r.cmd = "claim_customer", r.k = q.k PROVE FALSE
          OBVIOUS
        <5>1. Lock(Customer(q.k), "update") \in locks[t]
          BY <1>1, <1>4 DEF KeyInv, CustomersAreHeld, AccountCommands
        <5> QED BY <2>1, <4>1, <5>1 DEF KeyInv, LocksExclude, Lock, Conflict
      <4>3. customer'[q.k].account \in {customer[q.k].account, Nobody}
        BY <1>1, <1>2, <2>2, <4>2, AccountsMove
      <4>4. ByCustomer(q)' => ByCustomer(q)
        BY <2>2, <4>3 DEF ByCustomer
      <4>5. /\ EarlyKey(q.cmd) \in Int /\ LateKey(q.cmd) \in Int
            /\ EarlyKey(q.cmd) <= LateKey(q.cmd)
        BY <2>2, KeyPlaces
      <4>6. CASE ByCustomer(q)'
        BY <2>3, <2>4, <4>4, <4>5, <4>6
      <4>7. CASE ~ByCustomer(q)'
        BY <2>3, <2>4, <4>5, <4>7
      <4> QED BY <4>6, <4>7
    <3> QED BY <3>1, <3>2
  <2>7. Keyed(u)
    BY <2>1, <2>2, <2>3, <2>4, <2>5, <2>6 DEF Keyed
  <2>8. Lock(KeyRow(q), "update") \in locks[u] /\ times[q] = 0
    BY <2>7 DEF KeyInv, KeysAreHeld
  <2>9. q # r
    BY <1>5, <2>1, <2>8 DEF KeyInv, LocksExclude, Lock, Conflict
  <2> QED BY <1>7, <2>1, <2>2, <2>8, <2>9
<1> QED
  BY <1>1, <1>8, <1>9, <1>10, <1>11, <1>13, <1>14 DEF KeyInv, RequestsOK, RequestOK

LEMMA KeyInvExpires ==
    ASSUME KeyInv, NEW k \in Customers, InvitationExpires(k)
    PROVE  KeyInv'
<1>1. UNCHANGED <<customer, asked, txn, locks, times>>
  BY DEF InvitationExpires, InvitationRunsOut
<1>2. \A q : KeyAt(q)' = KeyAt(q)
  BY <1>1 DEF KeyAt, ByCustomer
<1> QED
  BY <1>1, <1>2
  DEF KeyInv, RequestsOK, RequestOK, TxnsOK, RowsOK, LocksExclude, KeysAreHeld, CustomersAreHeld,
      HappensOnce, Keyed, Running

-----------------------------------------------------------------------------
(* A request takes effect once at most, however often its client sends it, with   *)
(* any number of its attempts under way at a time: the row of the key is locked   *)
(* from its insertion to the commit, and no command of the services writes before *)
(* the step that asks for it.                                                   *)
THEOREM RequestsHappenOnce == Spec => []HappensOnce
<1>1. Init => KeyInv
  BY KeyInvInit
<1>2. KeyInv /\ [Next]_vars => KeyInv'
  <2> SUFFICES ASSUME KeyInv, [Next]_vars PROVE KeyInv'
    OBVIOUS
  <2>1. CASE \E t \in Txns : (\E r \in asked : Begin(t, r)) \/ Step(t) \/ Commit(t) \/ Rollback(t)
    BY <2>1, KeyInvBegin, KeyInvStep, KeyInvCommit, KeyInvRollback
  <2>2. CASE \E k \in Customers : InvitationExpires(k)
    BY <2>2, KeyInvExpires
  <2>3. CASE UNCHANGED vars
    <3>1. UNCHANGED <<customer, asked, txn, locks, times>>
      BY <2>3 DEF vars, tables
    <3>2. \A q : KeyAt(q)' = KeyAt(q)
      BY <3>1 DEF KeyAt, ByCustomer
    <3> QED
      BY <3>1, <3>2
      DEF KeyInv, RequestsOK, RequestOK, TxnsOK, RowsOK, LocksExclude, KeysAreHeld, CustomersAreHeld,
          HappensOnce, Keyed, Running
  <2> QED BY <2>1, <2>2, <2>3 DEF Next
<1>3. KeyInv => HappensOnce
  BY DEF KeyInv
<1> QED BY <1>1, <1>2, <1>3, PTL DEF Spec

-----------------------------------------------------------------------------
(* What locks protect *)

(* A step passed: its rows are locked, and what it asks of them holds. *)
Passed(step, held) == step.ok /\ step.lock \subseteq held

(* All the steps before pc, but perhaps one, are such that they would pass again. *)
StepsHold(steps, pc, unsure, held) ==
    \A i \in 1..Len(steps) : i < pc /\ i # unsure => Passed(steps[i], held)

(* The rows of a customer.  That his invitation runs out is nobody's write. *)
RowsStay(c) ==
    /\ customer'[c] = customer[c] /\ advisor'[c] = advisor[c] /\ work'[c] = work[c]
    /\ invitation'[c].status = invitation[c].status
    /\ invitation'[c].target = invitation[c].target
    /\ invitation'[c].branch = invitation[c].branch

GrantsStay(b) == \A p : (<<p, b>> \in grants') <=> (<<p, b>> \in grants)

BranchHeld(b, held) == \E mode \in {"share", "update"} : Lock(BranchRow(b), mode) \in held

(* What a transaction may rely on, as long as it holds these locks: a customer's  *)
(* row stands for all his rows, a branch's row, shared, for its status and the    *)
(* roles there, and locked for update for all its customers as well.             *)
Protected(held) ==
    /\ \A c \in Customers : Lock(Customer(c), "update") \in held /\ Exists(c) => RowsStay(c)
    /\ \A b \in Branches : BranchHeld(b, held) => branch'[b] = branch[b] /\ GrantsStay(b)
    /\ \A b \in Branches : Lock(BranchRow(b), "update") \in held =>
         \A c \in Customers : b \in {customer[c].branch, customer'[c].branch} => RowsStay(c)
    /\ \A u \in Accounts : Lock(User(u), "update") \in held =>
         \A c \in Customers :
           /\ customer'[c].account = u => customer[c].account = u
           /\ invitation'[c].status = "pending" /\ invitation'[c].target = u =>
                invitation[c].status = "pending" /\ invitation[c].target = u
    /\ \A q \in asked : Lock(KeyRow(q), "update") \in held =>
         /\ times'[q] = times[q]
         /\ q.cmd = "create_customer" /\ ~Exists(q.k) => ~Exists(q.k)'

-----------------------------------------------------------------------------
(* What a step found stays as it is. *)

OwnsCustomer(r, held) ==
    Lock(Customer(r.k), "update") \in held /\ Exists(r.k) /\ customer[r.k].branch \in Branches

Asked(r) == RequestOK(r) /\ r \in asked

LEMMA CustomerIsOwned ==
    ASSUME NEW held, NEW r, NEW seen, Asked(r), TypeOK
    PROVE  /\ Passed(OwnCustomer(r), held) => OwnsCustomer(r, held)
           /\ Passed(BoundCustomer(r, seen), held) => OwnsCustomer(r, held)
           /\ Passed(TradingCustomer(r, seen), held) => OwnsCustomer(r, held)
<1>1. r.k \in Customers
  BY DEF Asked, RequestOK
<1>2. /\ Exists(r.k) => customer[r.k].branch \in Branches
      /\ Active(r.k) => Exists(r.k)
  BY <1>1 DEF TypeOK, Exists, CustomerRow, Active, NoCustomer
<1> QED
  BY <1>2 DEF Passed, OwnCustomer, BoundCustomer, TradingCustomer, Takes, OwnsCustomer

LEMMA OwnStepsStay ==
    ASSUME NEW held, NEW r, NEW seen, Asked(r), Protected(held), OwnsCustomer(r, held)
    PROVE  /\ RowsStay(r.k)
           /\ Passed(OwnCustomer(r), held) => Passed(OwnCustomer(r)', held)
           /\ Passed(BoundCustomer(r, seen), held) => Passed(BoundCustomer(r, seen)', held)
           /\ Passed(TradingCustomer(r, seen), held) => Passed(TradingCustomer(r, seen)', held)
<1>1. RowsStay(r.k) /\ (Exists(r.k) <=> Exists(r.k)') /\ (Active(r.k) <=> Active(r.k)')
  BY DEF Protected, OwnsCustomer, Asked, RequestOK, RowsStay, Exists, Active, NoCustomer
<1>2. Passed(OwnCustomer(r), held) => Passed(OwnCustomer(r)', held)
  BY <1>1 DEF Passed, OwnCustomer, Takes
<1>3. Passed(BoundCustomer(r, seen), held) => Passed(BoundCustomer(r, seen)', held)
  BY <1>1 DEF Passed, BoundCustomer, Takes, RowsStay
<1>4. Passed(TradingCustomer(r, seen), held) => Passed(TradingCustomer(r, seen)', held)
  BY <1>1 DEF Passed, TradingCustomer, Takes, RowsStay
<1> QED BY <1>1, <1>2, <1>3, <1>4

LEMMA ScopeStays ==
    ASSUME NEW held, NEW r, Asked(r), Protected(held), OwnsCustomer(r, held),
           NEW statuses, Passed(Scope(r, statuses), held)
    PROVE  BranchHeld(customer[r.k].branch, held) /\ Passed(Scope(r, statuses)', held)
<1>1. RowsStay(r.k) /\ (Exists(r.k) <=> Exists(r.k)')
  BY DEF Protected, OwnsCustomer, Asked, RequestOK, RowsStay, Exists, NoCustomer
<1>2. BranchHeld(customer[r.k].branch, held)
  BY DEF Passed, Scope, Takes, BranchHeld
<1>3. branch'[customer[r.k].branch] = branch[customer[r.k].branch]
  BY <1>2 DEF Protected, OwnsCustomer
<1> QED BY <1>1, <1>2, <1>3 DEF Passed, Scope, Takes, RowsStay

LEMMA OwnBranchStays ==
    ASSUME NEW held, Protected(held), NEW b, NEW statuses, Passed(OwnBranch(b, statuses), held)
    PROVE  /\ b \in Branches /\ Lock(BranchRow(b), "update") \in held
           /\ Passed(OwnBranch(b, statuses)', held)
<1>1. b \in Branches /\ Lock(BranchRow(b), "update") \in held
  BY DEF Passed, OwnBranch, Takes
<1>2. branch'[b] = branch[b]
  BY <1>1 DEF Protected, BranchHeld
<1> QED BY <1>1, <1>2 DEF Passed, OwnBranch, Takes

LEMMA OtherStepsStay ==
    ASSUME NEW held, NEW r, Asked(r), Protected(held)
    PROVE  /\ Passed(Actor(r), held) => Passed(Actor(r)', held)
           /\ Passed(Manager(r), held) => Passed(Manager(r)', held)
           /\ Passed(Key(r), held) => Lock(KeyRow(r), "update") \in held /\ Passed(Key(r)', held)
<1>1. /\ Passed(Actor(r), held) => Passed(Actor(r)', held)
      /\ Passed(Manager(r), held) => Passed(Manager(r)', held)
  BY DEF Passed, Actor, Manager, Takes, Members
<1>2. Passed(Key(r), held) => Lock(KeyRow(r), "update") \in held /\ Passed(Key(r)', held)
  BY DEF Passed, Key, Takes, Protected, Asked
<1> QED BY <1>1, <1>2


-----------------------------------------------------------------------------
(* Command by command: the steps passed would pass again. *)

LEMMA ActivationStays ==
    ASSUME NEW held, NEW r, NEW pc \in Nat, Asked(r), TypeOK, Protected(held),
           StepsHold(activate_customer(r), pc, 0, held)
    PROVE  StepsHold(activate_customer(r)', pc, 0, held)
<1>1. pc > 1 => OwnsCustomer(r, held)
  BY CustomerIsOwned DEF StepsHold, activate_customer
<1>2. OwnsCustomer(r, held) =>
        /\ RowsStay(r.k)
        /\ Passed(OwnCustomer(r), held) => Passed(OwnCustomer(r)', held)
        /\ Passed(Scope(r, New), held) => Passed(Scope(r, New)', held)
  BY OwnStepsStay, ScopeStays
<1>3. /\ Passed(Manager(r), held) => Passed(Manager(r)', held)
      /\ Passed(Key(r), held) => Passed(Key(r)', held)
  BY OtherStepsStay
<1> QED BY <1>1, <1>2, <1>3 DEF StepsHold, activate_customer, Passed, RowsStay, Reads

LEMMA RevocationStays ==
    ASSUME NEW held, NEW r, NEW pc \in Nat, Asked(r), TypeOK, Protected(held),
           StepsHold(revoke_customer_claim_invitation(r), pc, 0, held)
    PROVE  StepsHold(revoke_customer_claim_invitation(r)', pc, 0, held)
<1>1. pc > 1 => OwnsCustomer(r, held)
  BY CustomerIsOwned DEF StepsHold, revoke_customer_claim_invitation
<1>2. OwnsCustomer(r, held) =>
        /\ RowsStay(r.k)
        /\ Passed(OwnCustomer(r), held) => Passed(OwnCustomer(r)', held)
        /\ Passed(Scope(r, AnyStatus), held) => Passed(Scope(r, AnyStatus)', held)
  BY OwnStepsStay, ScopeStays
<1>3. /\ Passed(Manager(r), held) => Passed(Manager(r)', held)
      /\ Passed(Key(r), held) => Passed(Key(r)', held)
  BY OtherStepsStay
<1> QED BY <1>1, <1>2, <1>3 DEF StepsHold, revoke_customer_claim_invitation, Passed, RowsStay,
                                OwnInvitation, Takes

LEMMA WithdrawalStays ==
    ASSUME NEW held, NEW r, NEW pc \in Nat, Asked(r), TypeOK, Protected(held),
           StepsHold(withdraw_consent(r), pc, 0, held)
    PROVE  StepsHold(withdraw_consent(r)', pc, 0, held)
<1>1. pc > 1 => OwnsCustomer(r, held)
  BY CustomerIsOwned DEF StepsHold, withdraw_consent
<1>2. OwnsCustomer(r, held) =>
        /\ RowsStay(r.k)
        /\ Passed(OwnCustomer(r), held) => Passed(OwnCustomer(r)', held)
        /\ Passed(Scope(r, AnyStatus), held) => Passed(Scope(r, AnyStatus)', held)
  BY OwnStepsStay, ScopeStays
<1>3. Passed(Key(r), held) => Passed(Key(r)', held)
  BY OtherStepsStay
<1> QED BY <1>1, <1>2, <1>3 DEF StepsHold, withdraw_consent, Passed, RowsStay, Reads, Settles,
                                OwnWork, Takes, Active

LEMMA UnassignmentStays ==
    ASSUME NEW held, NEW r, NEW pc \in Nat, Asked(r), TypeOK, Protected(held),
           StepsHold(end_customer_advisor_assignment(r), pc, 0, held)
    PROVE  StepsHold(end_customer_advisor_assignment(r)', pc, 0, held)
<1>1. pc > 1 => OwnsCustomer(r, held)
  BY CustomerIsOwned DEF StepsHold, end_customer_advisor_assignment
<1>2. OwnsCustomer(r, held) =>
        /\ RowsStay(r.k)
        /\ Passed(OwnCustomer(r), held) => Passed(OwnCustomer(r)', held)
        /\ Passed(Scope(r, AnyStatus), held) => Passed(Scope(r, AnyStatus)', held)
  BY OwnStepsStay, ScopeStays
<1>3. /\ Passed(Manager(r), held) => Passed(Manager(r)', held)
      /\ Passed(Key(r), held) => Passed(Key(r)', held)
  BY OtherStepsStay
<1> QED BY <1>1, <1>2, <1>3 DEF StepsHold, end_customer_advisor_assignment, Passed, RowsStay,
                                Reads

LEMMA QuoteStays ==
    ASSUME NEW held, NEW r, NEW seen, NEW pc \in Nat, Asked(r), TypeOK, Protected(held),
           StepsHold(create_quote(r, seen), pc, 0, held)
    PROVE  StepsHold(create_quote(r, seen)', pc, 0, held)
<1>1. pc > 1 => OwnsCustomer(r, held)
  BY CustomerIsOwned DEF StepsHold, create_quote
<1>2. OwnsCustomer(r, held) =>
        /\ RowsStay(r.k)
        /\ Passed(TradingCustomer(r, seen), held) => Passed(TradingCustomer(r, seen)', held)
        /\ Passed(Scope(r, New), held) => Passed(Scope(r, New)', held)
  BY OwnStepsStay, ScopeStays
<1>3. /\ Passed(Actor(r), held) => Passed(Actor(r)', held)
      /\ Passed(Key(r), held) => Passed(Key(r)', held)
  BY OtherStepsStay
<1> QED BY <1>1, <1>2, <1>3 DEF StepsHold, create_quote, Passed, RowsStay, Reads, OpenWork

LEMMA OrderStays ==
    ASSUME NEW held, NEW r, NEW seen, NEW pc \in Nat, Asked(r), TypeOK, Protected(held),
           StepsHold(create_order(r, seen), pc, 0, held)
    PROVE  StepsHold(create_order(r, seen)', pc, 0, held)
<1>1. pc > 1 => OwnsCustomer(r, held)
  BY CustomerIsOwned DEF StepsHold, create_order
<1>2. OwnsCustomer(r, held) =>
        /\ RowsStay(r.k)
        /\ Passed(TradingCustomer(r, seen), held) => Passed(TradingCustomer(r, seen)', held)
        /\ Passed(Scope(r, New), held) => Passed(Scope(r, New)', held)
  BY OwnStepsStay, ScopeStays
<1>3. Passed(Key(r), held) => Passed(Key(r)', held)
  BY OtherStepsStay
<1> QED BY <1>1, <1>2, <1>3 DEF StepsHold, create_order, Passed, RowsStay, Reads, OwnWork, Takes

LEMMA SubmissionStays ==
    ASSUME NEW held, NEW r, NEW seen, NEW pc \in Nat, Asked(r), TypeOK, Protected(held),
           StepsHold(submit_order(r, seen), pc, 5, held)
    PROVE  StepsHold(submit_order(r, seen)', pc, 5, held)
<1>1. pc > 1 => OwnsCustomer(r, held)
  BY CustomerIsOwned DEF StepsHold, submit_order
<1>2. OwnsCustomer(r, held) =>
        /\ RowsStay(r.k)
        /\ Passed(TradingCustomer(r, seen), held) => Passed(TradingCustomer(r, seen)', held)
        /\ Passed(Scope(r, New), held) => Passed(Scope(r, New)', held)
  BY OwnStepsStay, ScopeStays
<1>3. Passed(Key(r), held) => Passed(Key(r)', held)
  BY OtherStepsStay
<1> QED BY <1>1, <1>2, <1>3 DEF StepsHold, submit_order, Passed, RowsStay, Reads, OwnWork, Takes

LEMMA ApprovalStays ==
    ASSUME NEW held, NEW r, NEW seen, NEW pc \in Nat, Asked(r), TypeOK, Protected(held),
           StepsHold(approve_order(r, seen), pc, 4, held)
    PROVE  StepsHold(approve_order(r, seen)', pc, 4, held)
<1>1. pc > 1 => OwnsCustomer(r, held)
  BY CustomerIsOwned DEF StepsHold, approve_order
<1>2. OwnsCustomer(r, held) =>
        /\ RowsStay(r.k)
        /\ Passed(TradingCustomer(r, seen), held) => Passed(TradingCustomer(r, seen)', held)
        /\ Passed(Scope(r, New), held) => Passed(Scope(r, New)', held)
  BY OwnStepsStay, ScopeStays
<1>3. /\ Passed(Actor(r), held) => Passed(Actor(r)', held)
      /\ Passed(Key(r), held) => Passed(Key(r)', held)
  BY OtherStepsStay
<1> QED BY <1>1, <1>2, <1>3 DEF StepsHold, approve_order, Passed, RowsStay, Reads, OwnWork, Takes

LEMMA RejectionStays ==
    ASSUME NEW held, NEW r, NEW seen, NEW pc \in Nat, Asked(r), TypeOK, Protected(held),
           StepsHold(reject_order(r, seen), pc, 4, held)
    PROVE  StepsHold(reject_order(r, seen)', pc, 4, held)
<1>1. pc > 1 => OwnsCustomer(r, held)
  BY CustomerIsOwned DEF StepsHold, reject_order
<1>2. OwnsCustomer(r, held) =>
        /\ RowsStay(r.k)
        /\ Passed(BoundCustomer(r, seen), held) => Passed(BoundCustomer(r, seen)', held)
        /\ Passed(Scope(r, Drain), held) => Passed(Scope(r, Drain)', held)
  BY OwnStepsStay, ScopeStays
<1>3. /\ Passed(Actor(r), held) => Passed(Actor(r)', held)
      /\ Passed(Key(r), held) => Passed(Key(r)', held)
  BY OtherStepsStay
<1> QED BY <1>1, <1>2, <1>3 DEF StepsHold, reject_order, Passed, RowsStay, Reads, OwnWork, Takes

LEMMA CreationStays ==
    ASSUME NEW held, NEW r, NEW pc \in Nat, Asked(r), Protected(held), r.cmd = "create_customer",
           StepsHold(create_customer(r), pc, 0, held)
    PROVE  StepsHold(create_customer(r)', pc, 0, held)
<1>1. Passed(OwnBranch(r.b, New), held) => Passed(OwnBranch(r.b, New)', held)
  BY OwnBranchStays
<1>2. /\ Passed(Manager(r), held) => Passed(Manager(r)', held)
      /\ Passed(Key(r), held) => Lock(KeyRow(r), "update") \in held /\ Passed(Key(r)', held)
  BY OtherStepsStay
<1>3. Lock(KeyRow(r), "update") \in held /\ ~Exists(r.k) => ~Exists(r.k)'
  BY DEF Protected, Asked
<1>4. Lock(KeyRow(r), "update") \in held =>
        (Passed(Reads(~Exists(r.k)), held) => Passed(Reads(~Exists(r.k))', held))
  BY <1>3 DEF Passed, Reads
<1> QED BY <1>1, <1>2, <1>4 DEF StepsHold, create_customer

LEMMA BranchDeactivationStays ==
    ASSUME NEW held, NEW r, NEW pc \in Nat, Asked(r), Protected(held),
           StepsHold(deactivate_branch(r), pc, 0, held)
    PROVE  StepsHold(deactivate_branch(r)', pc, 0, held)
<1>1. Passed(OwnBranch(r.b, AnyStatus), held) =>
        Lock(BranchRow(r.b), "update") \in held /\ Passed(OwnBranch(r.b, AnyStatus)', held)
  BY OwnBranchStays
<1>2. /\ Passed(Manager(r), held) => Passed(Manager(r)', held)
      /\ Passed(Key(r), held) => Passed(Key(r)', held)
  BY OtherStepsStay
<1>3. Lock(BranchRow(r.b), "update") \in held => branch'[r.b] = branch[r.b]
  BY DEF Protected, BranchHeld, Asked, RequestOK
<1> QED BY <1>1, <1>2, <1>3 DEF StepsHold, deactivate_branch, Passed, Reads

(* With the row of a branch locked for update, nobody and nothing joins it. *)
LEMMA BranchStaysDeserted ==
    ASSUME NEW held, Protected(held), NEW b \in Branches, Lock(BranchRow(b), "update") \in held,
           WorkIsAtHome'
    PROVE  /\ branch'[b] = branch[b]
           /\ \A p : (<<p, b>> \in grants') <=> (<<p, b>> \in grants)
           /\ \A k \in Customers :
                /\ customer'[k].branch = b => RowsStay(k)
                /\ advisor'[k][2] = b => RowsStay(k)
                /\ work'[k].branch = b /\ OpenWork(k)' => RowsStay(k)
<1>1. branch'[b] = branch[b] /\ GrantsStay(b)
  BY DEF Protected, BranchHeld
<1>2. \A k \in Customers : customer'[k].branch = b => RowsStay(k)
  BY DEF Protected
<1>3. \A k \in Customers : advisor'[k][2] = b => customer'[k].branch = b
  BY DeskConstants DEF WorkIsAtHome, NoAdvisor
<1>4. \A k \in Customers : work'[k].branch = b /\ OpenWork(k)' => customer'[k].branch = b
  BY DEF WorkIsAtHome
<1> QED BY <1>1, <1>2, <1>3, <1>4 DEF GrantsStay

LEMMA ReadinessStays ==
    ASSUME NEW held, Protected(held), NEW b \in Branches, Lock(BranchRow(b), "update") \in held,
           WorkIsAtHome'
    PROVE  /\ NoCustomers(b) => NoCustomers(b)'
           /\ NoCustomers(b) => NoPendingInvitation(b)'
           /\ NoAssignment(b) => NoAssignment(b)'
           /\ NoGrant(b) => NoGrant(b)'
           /\ NoReview(b) => NoReview(b)'
           /\ NoOpenQuote(b) => NoOpenQuote(b)'
           /\ NoOpenOrder(b) => NoOpenOrder(b)'
           /\ NoOpenCase(b) => NoOpenCase(b)'
<1>1. NoCustomers(b) => NoCustomers(b)' /\ NoPendingInvitation(b)'
  <2>1. NoCustomers(b) => NoCustomers(b)'
    BY BranchStaysDeserted DEF NoCustomers, RowsStay
  <2>2. NoCustomers(b)' => NoPendingInvitation(b)'
    BY DEF NoCustomers, NoPendingInvitation, WorkIsAtHome
  <2> QED BY <2>1, <2>2
<1>2. NoAssignment(b) => NoAssignment(b)'
  BY BranchStaysDeserted DEF NoAssignment, RowsStay
<1>3. NoGrant(b) => NoGrant(b)'
  BY BranchStaysDeserted DEF NoGrant
<1>4. \A k \in Customers :
        work'[k].branch = b /\ (work'[k].status \in OpenStatuses \/ work'[k].case) => work'[k] = work[k]
  BY BranchStaysDeserted DEF OpenWork, RowsStay
<1>5. NoReview(b) => NoReview(b)'
  BY <1>4 DEF NoReview, OpenStatuses
<1>6. NoOpenQuote(b) => NoOpenQuote(b)'
  BY <1>4 DEF NoOpenQuote, OpenStatuses
<1>7. NoOpenOrder(b) => NoOpenOrder(b)'
  BY <1>4 DEF NoOpenOrder, OpenStatuses
<1>8. NoOpenCase(b) => NoOpenCase(b)'
  BY <1>4 DEF NoOpenCase
<1> QED BY <1>1, <1>2, <1>3, <1>5, <1>6, <1>7, <1>8

LEMMA ClosureStays ==
    ASSUME NEW held, NEW r, NEW pc \in Nat, Asked(r), Protected(held), WorkIsAtHome',
           StepsHold(close_branch(r), pc, 0, held)
    PROVE  StepsHold(close_branch(r)', pc, 0, held)
<1>1. Passed(OwnBranch(r.b, AnyStatus), held) =>
        Lock(BranchRow(r.b), "update") \in held /\ Passed(OwnBranch(r.b, AnyStatus)', held)
  BY OwnBranchStays
<1>2. /\ Passed(Manager(r), held) => Passed(Manager(r)', held)
      /\ Passed(Key(r), held) => Passed(Key(r)', held)
  BY OtherStepsStay
<1>3. Lock(BranchRow(r.b), "update") \in held => branch'[r.b] = branch[r.b]
  BY DEF Protected, BranchHeld, Asked, RequestOK
<1>4. Lock(BranchRow(r.b), "update") \in held =>
        /\ NoCustomers(r.b) => NoCustomers(r.b)'
        /\ NoCustomers(r.b) => NoPendingInvitation(r.b)'
        /\ NoAssignment(r.b) => NoAssignment(r.b)'
        /\ NoGrant(r.b) => NoGrant(r.b)'
        /\ NoReview(r.b) => NoReview(r.b)'
        /\ NoOpenQuote(r.b) => NoOpenQuote(r.b)'
        /\ NoOpenOrder(r.b) => NoOpenOrder(r.b)'
        /\ NoOpenCase(r.b) => NoOpenCase(r.b)'
  BY ReadinessStays DEF Asked, RequestOK
<1>5. Lock(BranchRow(r.b), "update") \in held =>
        /\ Passed(Reads(NoCustomers(r.b)), held) => Passed(Reads(NoCustomers(r.b))', held)
        /\ Passed(Reads(NoCustomers(r.b)), held) => Passed(Reads(NoPendingInvitation(r.b))', held)
        /\ Passed(Reads(NoAssignment(r.b)), held) => Passed(Reads(NoAssignment(r.b))', held)
        /\ Passed(Reads(NoGrant(r.b)), held) => Passed(Reads(NoGrant(r.b))', held)
        /\ Passed(Reads(NoReview(r.b)), held) => Passed(Reads(NoReview(r.b))', held)
        /\ Passed(Reads(NoOpenQuote(r.b)), held) => Passed(Reads(NoOpenQuote(r.b))', held)
        /\ Passed(Reads(NoOpenOrder(r.b)), held) => Passed(Reads(NoOpenOrder(r.b))', held)
        /\ Passed(Reads(NoOpenCase(r.b)), held) => Passed(Reads(NoOpenCase(r.b))', held)
        /\ Passed(Reads(branch[r.b] = "inactive"), held) =>
             Passed(Reads(branch[r.b] = "inactive")', held)
  BY <1>3, <1>4 DEF Passed, Reads
<1> QED BY <1>1, <1>2, <1>5 DEF StepsHold, close_branch, Readiness

LEMMA GrantStays ==
    ASSUME NEW held, NEW r, NEW pc \in Nat, Asked(r), Protected(held),
           StepsHold(create_branch_role_grant(r), pc, 0, held)
    PROVE  StepsHold(create_branch_role_grant(r)', pc, 0, held)
<1>1. Passed(OwnBranch(r.b, New), held) =>
        Lock(BranchRow(r.b), "update") \in held /\ Passed(OwnBranch(r.b, New)', held)
  BY OwnBranchStays
<1>2. /\ Passed(Manager(r), held) => Passed(Manager(r)', held)
      /\ Passed(Key(r), held) => Passed(Key(r)', held)
  BY OtherStepsStay
<1>3. Lock(BranchRow(r.b), "update") \in held =>
        ((<<r.p, r.b>> \in grants') <=> (<<r.p, r.b>> \in grants))
  BY DEF Protected, BranchHeld, GrantsStay, Asked, RequestOK
<1> QED BY <1>1, <1>2, <1>3 DEF StepsHold, create_branch_role_grant, Passed, Reads, Takes

LEMMA GrantRevocationStays ==
    ASSUME NEW held, NEW r, NEW pc \in Nat, Asked(r), Protected(held), WorkIsAtHome',
           StepsHold(revoke_branch_role_grant(r), pc, 0, held)
    PROVE  StepsHold(revoke_branch_role_grant(r)', pc, 0, held)
<1>1. Passed(OwnBranch(r.b, AnyStatus), held) =>
        Lock(BranchRow(r.b), "update") \in held /\ Passed(OwnBranch(r.b, AnyStatus)', held)
  BY OwnBranchStays
<1>2. /\ Passed(Manager(r), held) => Passed(Manager(r)', held)
      /\ Passed(Key(r), held) => Passed(Key(r)', held)
  BY OtherStepsStay
<1>3. ASSUME Lock(BranchRow(r.b), "update") \in held
      PROVE  /\ (<<r.p, r.b>> \in grants') <=> (<<r.p, r.b>> \in grants)
             /\ ~Assigned(r.p, r.b) => ~Assigned(r.p, r.b)'
             /\ Replaceable(r.p, r.b) => Replaceable(r.p, r.b)'
  <2>1. /\ \A p : (<<p, r.b>> \in grants') <=> (<<p, r.b>> \in grants)
        /\ \A k \in Customers :
             /\ advisor'[k][2] = r.b => RowsStay(k)
             /\ work'[k].branch = r.b /\ OpenWork(k)' => RowsStay(k)
    BY <1>3, BranchStaysDeserted DEF Asked, RequestOK
  <2>2. ~Assigned(r.p, r.b) => ~Assigned(r.p, r.b)'
    BY <2>1 DEF Assigned, RowsStay
  <2>3. ASSUME Replaceable(r.p, r.b), r.p \in Approvers,
               NEW k \in Customers, AwaitsApproval(k)', work'[k].branch = r.b
        PROVE  (IndependentApprovers(k, r.b) \ {r.p} # {})'
    <3>1. OpenWork(k)'
      BY <2>3 DEF AwaitsApproval, OpenWork, OpenStatuses
    <3>2. customer'[k] = customer[k] /\ work'[k] = work[k]
      BY <2>1, <2>3, <3>1 DEF RowsStay
    <3>3. IndependentApprovers(k, r.b) \ {r.p} # {}
      BY <2>3, <3>2 DEF Replaceable, AwaitsApproval
    <3> QED BY <2>1, <3>2, <3>3 DEF IndependentApprovers
  <2>4. Replaceable(r.p, r.b) => Replaceable(r.p, r.b)'
    BY <2>3 DEF Replaceable
  <2> QED BY <2>1, <2>2, <2>4
<1>4. Lock(BranchRow(r.b), "update") \in held =>
        /\ Passed(Reads(<<r.p, r.b>> \in grants), held) =>
             Passed(Reads(<<r.p, r.b>> \in grants)', held)
        /\ Passed(Reads(~Assigned(r.p, r.b)), held) => Passed(Reads(~Assigned(r.p, r.b))', held)
        /\ Passed(Reads(Replaceable(r.p, r.b)), held) =>
             Passed(Reads(Replaceable(r.p, r.b))', held)
  BY <1>3 DEF Passed, Reads
<1> QED BY <1>1, <1>2, <1>4 DEF StepsHold, revoke_branch_role_grant, Takes, Passed

LEMMA AccountStays ==
    ASSUME NEW held, Protected(held), NEW k, NEW u \in Accounts, Lock(User(u), "update") \in held
    PROVE  /\ Passed(Reads(~BoundElsewhere(k, u)), held) =>
                Passed(Reads(~BoundElsewhere(k, u))', held)
           /\ ~InvitedElsewhere(u) => ~InvitedElsewhere(u)'
<1>1. ~BoundElsewhere(k, u) => ~BoundElsewhere(k, u)'
  BY DEF Protected, BoundElsewhere
<1>2. ~InvitedElsewhere(u) => ~InvitedElsewhere(u)'
  BY DEF Protected, InvitedElsewhere
<1> QED BY <1>1, <1>2 DEF Passed, Reads

LEMMA TargetInvitationsStay ==
    ASSUME NEW held, Protected(held), NEW r, r.p \in Accounts, Lock(User(r.p), "update") \in held,
           Passed(TargetInvitations(r), held)
    PROVE  Passed(TargetInvitations(r)', held)
<1>1. ~InvitedElsewhere(r.p)
  BY DEF Passed, TargetInvitations
<1>2. ~InvitedElsewhere(r.p)'
  BY <1>1, AccountStays
<1>3. TargetInvitations(r).lock' = {}
  BY <1>2 DEF TargetInvitations, InvitedElsewhere
<1> QED BY <1>2, <1>3 DEF Passed, TargetInvitations

LEMMA InvitationStays ==
    ASSUME NEW held, NEW r, NEW pc \in Nat, Asked(r), TypeOK, Protected(held),
           r.cmd = "issue_customer_claim_invitation",
           StepsHold(issue_customer_claim_invitation(r), pc, 0, held)
    PROVE  StepsHold(issue_customer_claim_invitation(r)', pc, 0, held)
<1>1. pc > 1 => OwnsCustomer(r, held)
  BY CustomerIsOwned DEF StepsHold, issue_customer_claim_invitation
<1>2. OwnsCustomer(r, held) =>
        /\ Passed(OwnCustomer(r), held) => Passed(OwnCustomer(r)', held)
        /\ Passed(Scope(r, New), held) => Passed(Scope(r, New)', held)
        /\ Passed(Reads(customer[r.k].status = "prospect"), held)
             => Passed(Reads(customer[r.k].status = "prospect")', held)
        /\ Passed(OwnInvitation(r, invitation[r.k].status # "pending"), held)
             => Passed(OwnInvitation(r, invitation[r.k].status # "pending")', held)
  BY OwnStepsStay, ScopeStays DEF Passed, Reads, OwnInvitation, Takes, RowsStay
<1>3. /\ Passed(Manager(r), held) => Passed(Manager(r)', held)
      /\ Passed(Key(r), held) => Passed(Key(r)', held)
  BY OtherStepsStay
<1>4. Passed(OwnUser(r.p), held) =>
        /\ Passed(OwnUser(r.p)', held)
        /\ Passed(Reads(~BoundElsewhere(r.k, r.p)), held) =>
             Passed(Reads(~BoundElsewhere(r.k, r.p))', held)
        /\ Passed(TargetInvitations(r), held) => Passed(TargetInvitations(r)', held)
  <2>1. Passed(OwnUser(r.p), held) => Lock(User(r.p), "update") \in held /\ Passed(OwnUser(r.p)', held)
    BY DEF Passed, OwnUser, Takes
  <2>2. r.p \in Accounts
    BY DEF Asked, RequestOK
  <2> QED BY <2>1, <2>2, AccountStays, TargetInvitationsStay
<1> QED BY <1>1, <1>2, <1>3, <1>4 DEF StepsHold, issue_customer_claim_invitation

LEMMA Steps7 ==
    ASSUME NEW held, NEW pc \in Nat, NEW u,
           NEW s1, NEW s2, NEW s3, NEW s4, NEW s5, NEW s6, NEW s7
    PROVE  StepsHold(<<s1, s2, s3, s4, s5, s6, s7>>, pc, u, held) <=>
             /\ pc > 1 /\ u # 1 => Passed(s1, held)
             /\ pc > 2 /\ u # 2 => Passed(s2, held)
             /\ pc > 3 /\ u # 3 => Passed(s3, held)
             /\ pc > 4 /\ u # 4 => Passed(s4, held)
             /\ pc > 5 /\ u # 5 => Passed(s5, held)
             /\ pc > 6 /\ u # 6 => Passed(s6, held)
             /\ pc > 7 /\ u # 7 => Passed(s7, held)
BY DEF StepsHold

LEMMA ClaimStays ==
    ASSUME NEW held, NEW r, NEW seen, NEW pc \in Nat, Asked(r), TypeOK, Protected(held),
           r.cmd = "claim_customer",
           StepsHold(claim_customer(r, seen), pc, ClockRead, held)
    PROVE  StepsHold(claim_customer(r, seen)', pc, ClockRead, held)
<1>1. pc > 1 => OwnsCustomer(r, held)
  BY CustomerIsOwned DEF StepsHold, claim_customer, ClockRead
<1>2. OwnsCustomer(r, held) =>
        /\ Passed(BoundCustomer(r, seen), held) => Passed(BoundCustomer(r, seen)', held)
        /\ Passed(Scope(r, New), held) => Passed(Scope(r, New)', held)
  BY OwnStepsStay, ScopeStays
<1>3. Passed(Key(r), held) => Passed(Key(r)', held)
  BY OtherStepsStay
<1>4. Passed(OwnUser(r.actor), held) =>
        /\ Passed(OwnUser(r.actor)', held)
        /\ Passed(Reads(~BoundElsewhere(r.k, r.actor)), held)
             => Passed(Reads(~BoundElsewhere(r.k, r.actor))', held)
  <2>1. Passed(OwnUser(r.actor), held) =>
          Lock(User(r.actor), "update") \in held /\ Passed(OwnUser(r.actor)', held)
    BY DEF Passed, OwnUser, Takes
  <2>2. r.actor \in Accounts
    BY DEF Asked, RequestOK
  <2> QED BY <2>1, <2>2, AccountStays
<1>5. PICK invited : /\ invited = OwnInvitation(r, TRUE)
                     /\ invited = OwnInvitation(r, TRUE)'
  BY DEF OwnInvitation, Takes
<1>6. PICK timely, next :
        /\ claim_customer(r, seen) =
             <<BoundCustomer(r, seen), Scope(r, New), OwnUser(r.actor), invited, Key(r), timely,
               Reads(~BoundElsewhere(r.k, r.actor))>>
        /\ claim_customer(r, seen)' =
             <<BoundCustomer(r, seen)', Scope(r, New)', OwnUser(r.actor)', invited, Key(r)', next,
               Reads(~BoundElsewhere(r.k, r.actor))'>>
  BY <1>5 DEF claim_customer
<1> QED BY <1>1, <1>2, <1>3, <1>4, <1>6, Steps7 DEF ClockRead

LEMMA AdvisorGrantStays ==
    ASSUME NEW held, Protected(held), NEW b \in Branches, BranchHeld(b, held), NEW p,
           Passed(AdvisorGrant(p, b), held)
    PROVE  Passed(AdvisorGrant(p, b)', held)
<1>1. (<<p, b>> \in grants') <=> (<<p, b>> \in grants)
  BY DEF Protected, GrantsStay
<1> QED BY <1>1 DEF Passed, AdvisorGrant

LEMMA AssignmentStays ==
    ASSUME NEW held, NEW r, NEW pc \in Nat, Asked(r), TypeOK, Protected(held),
           StepsHold(assign_customer_advisor(r), pc, 0, held)
    PROVE  StepsHold(assign_customer_advisor(r)', pc, 0, held)
<1>1. pc > 1 => OwnsCustomer(r, held)
  BY CustomerIsOwned, Steps7 DEF assign_customer_advisor
<1>2. OwnsCustomer(r, held) =>
        /\ Passed(OwnCustomer(r), held) => Passed(OwnCustomer(r)', held)
        /\ Passed(Scope(r, New), held) => Passed(Scope(r, New)', held)
        /\ Passed(Reads(Active(r.k)), held) => Passed(Reads(Active(r.k))', held)
        /\ Passed(Reads(advisor[r.k] # <<r.p, customer[r.k].branch>>), held)
             => Passed(Reads(advisor[r.k] # <<r.p, customer[r.k].branch>>)', held)
        /\ Passed(Scope(r, New), held) =>
             (Passed(AdvisorGrant(r.p, customer[r.k].branch), held)
                => Passed(AdvisorGrant(r.p, customer[r.k].branch)', held))
  <2> SUFFICES ASSUME OwnsCustomer(r, held)
               PROVE  /\ Passed(OwnCustomer(r), held) => Passed(OwnCustomer(r)', held)
                      /\ Passed(Scope(r, New), held) => Passed(Scope(r, New)', held)
                      /\ Passed(Reads(Active(r.k)), held) => Passed(Reads(Active(r.k))', held)
                      /\ Passed(Reads(advisor[r.k] # <<r.p, customer[r.k].branch>>), held)
                           => Passed(Reads(advisor[r.k] # <<r.p, customer[r.k].branch>>)', held)
                      /\ Passed(Scope(r, New), held) =>
                           (Passed(AdvisorGrant(r.p, customer[r.k].branch), held)
                              => Passed(AdvisorGrant(r.p, customer[r.k].branch)', held))
    OBVIOUS
  <2>1. /\ Passed(OwnCustomer(r), held) => Passed(OwnCustomer(r)', held)
        /\ RowsStay(r.k)
    BY OwnStepsStay
  <2>2. Passed(Scope(r, New), held) =>
          BranchHeld(customer[r.k].branch, held) /\ Passed(Scope(r, New)', held)
    BY ScopeStays
  <2>3. Active(r.k)' <=> Active(r.k)
    BY <2>1 DEF RowsStay, Active
  <2>4. /\ Passed(Reads(Active(r.k)), held) => Passed(Reads(Active(r.k))', held)
        /\ Passed(Reads(advisor[r.k] # <<r.p, customer[r.k].branch>>), held)
             => Passed(Reads(advisor[r.k] # <<r.p, customer[r.k].branch>>)', held)
    BY <2>1, <2>3 DEF Passed, Reads, RowsStay
  <2>5. ASSUME BranchHeld(customer[r.k].branch, held),
               Passed(AdvisorGrant(r.p, customer[r.k].branch), held)
        PROVE  Passed(AdvisorGrant(r.p, customer[r.k].branch)', held)
    <3> PICK b : b = customer[r.k].branch
      OBVIOUS
    <3>1. Passed(AdvisorGrant(r.p, b)', held)
      BY <2>5, AdvisorGrantStays DEF OwnsCustomer
    <3>2. customer'[r.k].branch = b
      BY <2>1 DEF RowsStay
    <3> QED BY <3>1, <3>2 DEF AdvisorGrant
  <2> QED BY <2>1, <2>2, <2>4, <2>5
<1>3. /\ Passed(Manager(r), held) => Passed(Manager(r)', held)
      /\ Passed(Key(r), held) => Passed(Key(r)', held)
  BY OtherStepsStay
<1> QED BY <1>1, <1>2, <1>3, Steps7 DEF assign_customer_advisor

LEMMA CaseApprovalStays ==
    ASSUME NEW held, NEW r, NEW seen, NEW pc \in Nat, Asked(r), TypeOK, Protected(held),
           StepsHold(review_cancellation(r, seen, work[r.k].status \in {"draft", "approved"}), pc, 4, held)
    PROVE  StepsHold(review_cancellation(r, seen, work[r.k].status \in {"draft", "approved"})', pc, 4, held)
<1>1. pc > 1 => OwnsCustomer(r, held)
  BY CustomerIsOwned DEF StepsHold, review_cancellation
<1>2. OwnsCustomer(r, held) =>
        /\ RowsStay(r.k)
        /\ Passed(BoundCustomer(r, seen), held) => Passed(BoundCustomer(r, seen)', held)
        /\ Passed(Scope(r, Drain), held) => Passed(Scope(r, Drain)', held)
  BY OwnStepsStay, ScopeStays
<1>3. /\ Passed(Actor(r), held) => Passed(Actor(r)', held)
      /\ Passed(Key(r), held) => Passed(Key(r)', held)
  BY OtherStepsStay
<1> QED
  BY <1>1, <1>2, <1>3 DEF StepsHold, review_cancellation, Passed, RowsStay, Reads, OwnWork, Takes

LEMMA CaseRejectionStays ==
    ASSUME NEW held, NEW r, NEW seen, NEW pc \in Nat, Asked(r), TypeOK, Protected(held),
           StepsHold(review_cancellation(r, seen, TRUE), pc, 4, held)
    PROVE  StepsHold(review_cancellation(r, seen, TRUE)', pc, 4, held)
<1>1. pc > 1 => OwnsCustomer(r, held)
  BY CustomerIsOwned DEF StepsHold, review_cancellation
<1>2. OwnsCustomer(r, held) =>
        /\ RowsStay(r.k)
        /\ Passed(BoundCustomer(r, seen), held) => Passed(BoundCustomer(r, seen)', held)
        /\ Passed(Scope(r, Drain), held) => Passed(Scope(r, Drain)', held)
  BY OwnStepsStay, ScopeStays
<1>3. /\ Passed(Actor(r), held) => Passed(Actor(r)', held)
      /\ Passed(Key(r), held) => Passed(Key(r)', held)
  BY OtherStepsStay
<1> QED
  BY <1>1, <1>2, <1>3 DEF StepsHold, review_cancellation, Passed, RowsStay, Reads, OwnWork, Takes

LEMMA List5 ==
    ASSUME NEW steps, Len(steps) = 5, NEW pc \in Nat, NEW u, NEW held
    PROVE  StepsHold(steps, pc, u, held) <=>
             /\ pc > 1 /\ u # 1 => Passed(steps[1], held)
             /\ pc > 2 /\ u # 2 => Passed(steps[2], held)
             /\ pc > 3 /\ u # 3 => Passed(steps[3], held)
             /\ pc > 4 /\ u # 4 => Passed(steps[4], held)
             /\ pc > 5 /\ u # 5 => Passed(steps[5], held)
BY DEF StepsHold

LEMMA List7 ==
    ASSUME NEW steps, Len(steps) = 7, NEW pc \in Nat, NEW u, NEW held
    PROVE  StepsHold(steps, pc, u, held) <=>
             /\ pc > 1 /\ u # 1 => Passed(steps[1], held)
             /\ pc > 2 /\ u # 2 => Passed(steps[2], held)
             /\ pc > 3 /\ u # 3 => Passed(steps[3], held)
             /\ pc > 4 /\ u # 4 => Passed(steps[4], held)
             /\ pc > 5 /\ u # 5 => Passed(steps[5], held)
             /\ pc > 6 /\ u # 6 => Passed(steps[6], held)
             /\ pc > 7 /\ u # 7 => Passed(steps[7], held)
BY DEF StepsHold

(* A customer who acts for himself has fewer steps, which they remain as long as  *)
(* his row is locked.                                                           *)
LEMMA OwnDeactivationSteps ==
    ASSUME NEW r, ByCustomer(r)
    PROVE  /\ Len(deactivate_customer(r)) = 5
           /\ deactivate_customer(r)[1] = OwnCustomer(r)
           /\ deactivate_customer(r)[2] = Key(r)
           /\ deactivate_customer(r)[3] = Reads(customer[r.k].status # "inactive")
           /\ deactivate_customer(r)[4] = Scope(r, AnyStatus)
           /\ deactivate_customer(r)[5].ok
           /\ deactivate_customer(r)[5].lock = {Lock(Work(r.k), "update")}
BY DEF deactivate_customer, Settles, ByCustomer, OwnWork, Takes

LEMMA OrderedDeactivationSteps ==
    ASSUME NEW r, ~ByCustomer(r)
    PROVE  /\ Len(deactivate_customer(r)) = 7
           /\ deactivate_customer(r)[1] = OwnCustomer(r)
           /\ deactivate_customer(r)[2] = Scope(r, AnyStatus)
           /\ deactivate_customer(r)[3] = Manager(r)
           /\ deactivate_customer(r)[4] = Key(r)
           /\ deactivate_customer(r)[5] = Reads(customer[r.k].status # "inactive")
           /\ deactivate_customer(r)[6] = Scope(r, AnyStatus)
           /\ deactivate_customer(r)[7].ok
           /\ deactivate_customer(r)[7].lock = {Lock(Work(r.k), "update")}
BY DEF deactivate_customer, Settles, ByCustomer, OwnWork, Takes

LEMMA NextOwnDeactivationSteps ==
    ASSUME NEW r, ByCustomer(r)'
    PROVE  /\ Len(deactivate_customer(r)') = 5
           /\ deactivate_customer(r)'[1] = OwnCustomer(r)'
           /\ deactivate_customer(r)'[2] = Key(r)'
           /\ deactivate_customer(r)'[3] = Reads(customer[r.k].status # "inactive")'
           /\ deactivate_customer(r)'[4] = Scope(r, AnyStatus)'
           /\ deactivate_customer(r)'[5].ok
           /\ deactivate_customer(r)'[5].lock = {Lock(Work(r.k), "update")}
BY DEF deactivate_customer, Settles, ByCustomer, OwnWork, Takes

LEMMA NextOrderedDeactivationSteps ==
    ASSUME NEW r, ~ByCustomer(r)'
    PROVE  /\ Len(deactivate_customer(r)') = 7
           /\ deactivate_customer(r)'[1] = OwnCustomer(r)'
           /\ deactivate_customer(r)'[2] = Scope(r, AnyStatus)'
           /\ deactivate_customer(r)'[3] = Manager(r)'
           /\ deactivate_customer(r)'[4] = Key(r)'
           /\ deactivate_customer(r)'[5] = Reads(customer[r.k].status # "inactive")'
           /\ deactivate_customer(r)'[6] = Scope(r, AnyStatus)'
           /\ deactivate_customer(r)'[7].ok
           /\ deactivate_customer(r)'[7].lock = {Lock(Work(r.k), "update")}
BY DEF deactivate_customer, Settles, ByCustomer, OwnWork, Takes

LEMMA DeactivationStays ==
    ASSUME NEW held, NEW r, NEW pc \in Nat, Asked(r), TypeOK, Protected(held),
           StepsHold(deactivate_customer(r), pc, 0, held)
    PROVE  StepsHold(deactivate_customer(r)', pc, 0, held)
<1>1. pc > 1 => OwnsCustomer(r, held)
  <2>1. CASE ByCustomer(r)
    BY <2>1, CustomerIsOwned, OwnDeactivationSteps, List5
  <2>2. CASE ~ByCustomer(r)
    BY <2>2, CustomerIsOwned, OrderedDeactivationSteps, List7
  <2> QED BY <2>1, <2>2
<1>2. OwnsCustomer(r, held) =>
        /\ RowsStay(r.k)
        /\ Passed(OwnCustomer(r), held) => Passed(OwnCustomer(r)', held)
        /\ Passed(Scope(r, AnyStatus), held) => Passed(Scope(r, AnyStatus)', held)
        /\ Passed(Reads(customer[r.k].status # "inactive"), held)
             => Passed(Reads(customer[r.k].status # "inactive")', held)
  BY OwnStepsStay, ScopeStays DEF RowsStay, Reads, Passed
<1>3. /\ Passed(Manager(r), held) => Passed(Manager(r)', held)
      /\ Passed(Key(r), held) => Passed(Key(r)', held)
  BY OtherStepsStay
<1>4. CASE ~(pc > 1)
  BY <1>4 DEF StepsHold
<1>5. CASE pc > 1 /\ ByCustomer(r)
  <2>1. ByCustomer(r)'
    BY <1>1, <1>2, <1>5 DEF RowsStay, ByCustomer
  <2>2. Passed(deactivate_customer(r)[5], held) => Passed(deactivate_customer(r)'[5], held)
    BY <1>5, <2>1, OwnDeactivationSteps, NextOwnDeactivationSteps DEF Passed
  <2> QED
    BY <1>1, <1>2, <1>3, <1>5, <2>1, <2>2, OwnDeactivationSteps, NextOwnDeactivationSteps, List5
<1>6. CASE pc > 1 /\ ~ByCustomer(r)
  <2>1. ~ByCustomer(r)'
    BY <1>1, <1>2, <1>6 DEF RowsStay, ByCustomer
  <2>2. Passed(deactivate_customer(r)[7], held) => Passed(deactivate_customer(r)'[7], held)
    BY <1>6, <2>1, OrderedDeactivationSteps, NextOrderedDeactivationSteps DEF Passed
  <2> QED
    BY <1>1, <1>2, <1>3, <1>6, <2>1, <2>2, OrderedDeactivationSteps, NextOrderedDeactivationSteps,
       List7
<1> QED BY <1>4, <1>5, <1>6

LEMMA CancellationStays ==
    ASSUME NEW held, NEW r, NEW seen, NEW pc \in Nat, Asked(r), TypeOK, Protected(held),
           StepsHold(request_cancellation(r, seen), pc, IF ByCustomer(r) THEN 5 ELSE 6, held)
    PROVE  StepsHold(request_cancellation(r, seen)', pc, IF ByCustomer(r)' THEN 5 ELSE 6, held)
<1>1. pc > 1 => OwnsCustomer(r, held)
  <2>1. CASE ByCustomer(r)
    BY <2>1, CustomerIsOwned DEF StepsHold, request_cancellation, ByCustomer
  <2>2. CASE ~ByCustomer(r)
    BY <2>2, CustomerIsOwned DEF StepsHold, request_cancellation, ByCustomer
  <2> QED BY <2>1, <2>2
<1>2. OwnsCustomer(r, held) =>
        /\ RowsStay(r.k)
        /\ Passed(BoundCustomer(r, seen), held) => Passed(BoundCustomer(r, seen)', held)
        /\ Passed(Scope(r, Drain), held) => Passed(Scope(r, Drain)', held)
  BY OwnStepsStay, ScopeStays
<1>3. /\ Passed(Actor(r), held) => Passed(Actor(r)', held)
      /\ Passed(Key(r), held) => Passed(Key(r)', held)
  BY OtherStepsStay
<1>4. CASE ~(pc > 1)
  BY <1>4 DEF StepsHold
<1>5. CASE pc > 1 /\ ByCustomer(r)
  <2>1. customer'[r.k].account = customer[r.k].account
    BY <1>1, <1>2, <1>5 DEF RowsStay
  <2> QED
    BY <1>1, <1>2, <1>3, <1>5, <2>1
    DEF StepsHold, request_cancellation, ByCustomer, Passed, RowsStay, Reads, OwnWork, Takes
<1>6. CASE pc > 1 /\ ~ByCustomer(r)
  <2>1. customer'[r.k].account = customer[r.k].account
    BY <1>1, <1>2, <1>6 DEF RowsStay
  <2> QED
    BY <1>1, <1>2, <1>3, <1>6, <2>1
    DEF StepsHold, request_cancellation, ByCustomer, Passed, RowsStay, Reads, OwnWork, Takes
<1> QED BY <1>4, <1>5, <1>6

LEMMA List8 ==
    ASSUME NEW steps, Len(steps) = 8, NEW pc \in Nat, NEW u, NEW held
    PROVE  StepsHold(steps, pc, u, held) <=>
             /\ pc > 1 /\ u # 1 => Passed(steps[1], held)
             /\ pc > 2 /\ u # 2 => Passed(steps[2], held)
             /\ pc > 3 /\ u # 3 => Passed(steps[3], held)
             /\ pc > 4 /\ u # 4 => Passed(steps[4], held)
             /\ pc > 5 /\ u # 5 => Passed(steps[5], held)
             /\ pc > 6 /\ u # 6 => Passed(steps[6], held)
             /\ pc > 7 /\ u # 7 => Passed(steps[7], held)
             /\ pc > 8 /\ u # 8 => Passed(steps[8], held)
BY DEF StepsHold

LEMMA List10 ==
    ASSUME NEW steps, Len(steps) = 10, NEW pc \in Nat, NEW u, NEW held
    PROVE  StepsHold(steps, pc, u, held) <=>
             /\ pc > 1 /\ u # 1 => Passed(steps[1], held)
             /\ pc > 2 /\ u # 2 => Passed(steps[2], held)
             /\ pc > 3 /\ u # 3 => Passed(steps[3], held)
             /\ pc > 4 /\ u # 4 => Passed(steps[4], held)
             /\ pc > 5 /\ u # 5 => Passed(steps[5], held)
             /\ pc > 6 /\ u # 6 => Passed(steps[6], held)
             /\ pc > 7 /\ u # 7 => Passed(steps[7], held)
             /\ pc > 8 /\ u # 8 => Passed(steps[8], held)
             /\ pc > 9 /\ u # 9 => Passed(steps[9], held)
             /\ pc > 10 /\ u # 10 => Passed(steps[10], held)
BY DEF StepsHold

TransferSteps(r, steps) ==
    /\ steps[1] = OwnCustomer(r) /\ steps[2] = Key(r) /\ steps[3] = Reads(r.b # customer[r.k].branch)
    /\ steps[4] = BothBranches(r)[1] /\ steps[5] = BothBranches(r)[2] /\ steps[6] = Manager(r)
    /\ steps[7] = NoOpenWork(r)[1] /\ steps[8] = NoOpenWork(r)[2]
    /\ r.p = Nobody => Len(steps) = 8
    /\ r.p # Nobody =>
         Len(steps) = 10 /\ steps[9] = Reads(Active(r.k)) /\ steps[10] = AdvisorGrant(r.p, r.b)

LEMMA TransferList ==
    ASSUME NEW r
    PROVE  TransferSteps(r, transfer_customer_branch(r))
<1>1. PICK s, t : BothBranches(r) = <<s, t>>
  BY DEF BothBranches
<1>2. PICK i, w : NoOpenWork(r) = <<i, w>>
  BY DEF NoOpenWork
<1>3. CASE r.p = Nobody
  BY <1>1, <1>2, <1>3 DEF transfer_customer_branch, TransferSteps
<1>4. CASE r.p # Nobody
  BY <1>1, <1>2, <1>4 DEF transfer_customer_branch, TransferSteps
<1> QED BY <1>3, <1>4

LEMMA NextTransferList ==
    ASSUME NEW r
    PROVE  TransferSteps(r, transfer_customer_branch(r))'
<1>1. PICK s, t : BothBranches(r)' = <<s, t>>
  BY DEF BothBranches
<1>2. PICK i, w : NoOpenWork(r)' = <<i, w>>
  BY DEF NoOpenWork
<1>3. CASE r.p = Nobody
  BY <1>1, <1>2, <1>3 DEF transfer_customer_branch, TransferSteps
<1>4. CASE r.p # Nobody
  BY <1>1, <1>2, <1>4 DEF transfer_customer_branch, TransferSteps
<1> QED BY <1>3, <1>4

LEMMA BothBranchesStay ==
    ASSUME NEW held, NEW r, Asked(r), Protected(held), OwnsCustomer(r, held)
    PROVE  /\ Passed(BothBranches(r)[1], held) => Passed(BothBranches(r)'[1], held)
           /\ Passed(BothBranches(r)[2], held) => Passed(BothBranches(r)'[2], held)
           /\ Passed(BothBranches(r)[1], held) /\ Passed(BothBranches(r)[2], held) =>
                /\ Passed(OwnBranch(customer[r.k].branch, Drain), held)
                /\ Passed(OwnBranch(r.b, New), held)
<1> PICK home : home = customer[r.k].branch
  OBVIOUS
<1>1. customer'[r.k].branch = home
  BY OwnStepsStay DEF RowsStay
<1>2. /\ Passed(OwnBranch(home, Drain), held) => Passed(OwnBranch(home, Drain)', held)
      /\ Passed(OwnBranch(r.b, New), held) => Passed(OwnBranch(r.b, New)', held)
  BY OwnBranchStays
<1>3. CASE home < r.b
  <2>1. BothBranches(r) = <<OwnBranch(home, Drain), OwnBranch(r.b, New)>>
    BY <1>3 DEF BothBranches
  <2>2. BothBranches(r)' = <<OwnBranch(home, Drain)', OwnBranch(r.b, New)'>>
    BY <1>1, <1>3 DEF BothBranches
  <2> QED BY <1>2, <2>1, <2>2
<1>4. CASE ~(home < r.b)
  <2>1. BothBranches(r) = <<OwnBranch(r.b, New), OwnBranch(home, Drain)>>
    BY <1>4 DEF BothBranches
  <2>2. BothBranches(r)' = <<OwnBranch(r.b, New)', OwnBranch(home, Drain)'>>
    BY <1>1, <1>4 DEF BothBranches
  <2> QED BY <1>2, <2>1, <2>2
<1> QED BY <1>3, <1>4

LEMMA TransferStays ==
    ASSUME NEW held, NEW r, NEW pc \in Nat, Asked(r), TypeOK, Protected(held),
           StepsHold(transfer_customer_branch(r), pc, 0, held)
    PROVE  StepsHold(transfer_customer_branch(r)', pc, 0, held)
<1> PICK old, new : old = transfer_customer_branch(r) /\ new = transfer_customer_branch(r)'
  OBVIOUS
<1>0. TransferSteps(r, old)
  BY TransferList
<1>1. pc > 1 => OwnsCustomer(r, held)
  BY <1>0, CustomerIsOwned DEF StepsHold, TransferSteps
<1>2. OwnsCustomer(r, held) =>
        /\ Passed(OwnCustomer(r), held) => Passed(OwnCustomer(r)', held)
        /\ Passed(Reads(r.b # customer[r.k].branch), held)
             => Passed(Reads(r.b # customer[r.k].branch)', held)
        /\ Passed(BothBranches(r)[1], held) => Passed(BothBranches(r)'[1], held)
        /\ Passed(BothBranches(r)[2], held) => Passed(BothBranches(r)'[2], held)
        /\ Passed(NoOpenWork(r)[1], held) => Passed(NoOpenWork(r)'[1], held)
        /\ Passed(NoOpenWork(r)[2], held) => Passed(NoOpenWork(r)'[2], held)
        /\ Passed(Reads(Active(r.k)), held) => Passed(Reads(Active(r.k))', held)
  <2> SUFFICES ASSUME OwnsCustomer(r, held)
               PROVE  /\ Passed(OwnCustomer(r), held) => Passed(OwnCustomer(r)', held)
                      /\ Passed(Reads(r.b # customer[r.k].branch), held)
                           => Passed(Reads(r.b # customer[r.k].branch)', held)
                      /\ Passed(BothBranches(r)[1], held) => Passed(BothBranches(r)'[1], held)
                      /\ Passed(BothBranches(r)[2], held) => Passed(BothBranches(r)'[2], held)
                      /\ Passed(NoOpenWork(r)[1], held) => Passed(NoOpenWork(r)'[1], held)
                      /\ Passed(NoOpenWork(r)[2], held) => Passed(NoOpenWork(r)'[2], held)
                      /\ Passed(Reads(Active(r.k)), held) => Passed(Reads(Active(r.k))', held)
    OBVIOUS
  <2>1. /\ Passed(OwnCustomer(r), held) => Passed(OwnCustomer(r)', held)
        /\ RowsStay(r.k)
    BY OwnStepsStay
  <2>2. (OpenWork(r.k)' <=> OpenWork(r.k)) /\ (Active(r.k)' <=> Active(r.k))
    BY <2>1 DEF RowsStay, OpenWork, Active
  <2>3. Passed(Reads(r.b # customer[r.k].branch), held)
          => Passed(Reads(r.b # customer[r.k].branch)', held)
    BY <2>1 DEF RowsStay, Passed, Reads
  <2>4. Passed(NoOpenWork(r)[1], held) => Passed(NoOpenWork(r)'[1], held)
    BY <2>1 DEF RowsStay, Passed, NoOpenWork, OwnInvitation, Takes
  <2>5. Passed(NoOpenWork(r)[2], held) => Passed(NoOpenWork(r)'[2], held)
    BY <2>1 DEF RowsStay, Passed, NoOpenWork, OwnWork, Takes, OpenWork
  <2>6. Passed(Reads(Active(r.k)), held) => Passed(Reads(Active(r.k))', held)
    BY <2>2 DEF Passed, Reads
  <2> QED BY <2>1, <2>3, <2>4, <2>5, <2>6, BothBranchesStay
<1>3. /\ Passed(Manager(r), held) => Passed(Manager(r)', held)
      /\ Passed(Key(r), held) => Passed(Key(r)', held)
  BY OtherStepsStay
<1>4. OwnsCustomer(r, held) /\ Passed(BothBranches(r)[1], held) /\ Passed(BothBranches(r)[2], held) =>
        (Passed(AdvisorGrant(r.p, r.b), held) => Passed(AdvisorGrant(r.p, r.b)', held))
  <2> SUFFICES ASSUME OwnsCustomer(r, held), Passed(BothBranches(r)[1], held),
                      Passed(BothBranches(r)[2], held), Passed(AdvisorGrant(r.p, r.b), held)
               PROVE  Passed(AdvisorGrant(r.p, r.b)', held)
    OBVIOUS
  <2>1. Passed(OwnBranch(r.b, New), held)
    BY BothBranchesStay
  <2>2. r.b \in Branches /\ BranchHeld(r.b, held)
    BY <2>1, OwnBranchStays DEF BranchHeld
  <2> QED BY <2>2, AdvisorGrantStays
<1>5. \A steps : steps = new => TransferSteps(r, steps)'
  BY NextTransferList
<1>6. CASE r.p = Nobody
  BY <1>0, <1>1, <1>2, <1>3, <1>5, <1>6, List8 DEF TransferSteps
<1>7. CASE r.p # Nobody
  BY <1>0, <1>1, <1>2, <1>3, <1>4, <1>5, <1>7, List10 DEF TransferSteps
<1> QED BY <1>6, <1>7

-----------------------------------------------------------------------------
(* One finding of a command may not hold any more when it writes: an invitation   *)
(* runs out after the clock was read, and an approver is looked for where the     *)
(* work is, which need not be the branch that is locked.  What is left of it does *)
(* not change, and it is enough, since open work is where its customer is.        *)
Reviews == {"approve_order", "reject_order", "approve_cancellation", "reject_cancellation"}

UnsureAt(r) ==
    CASE r.cmd = "claim_customer" -> ClockRead
      [] r.cmd = "submit_order" -> 5
      [] r.cmd \in Reviews -> 4
      [] r.cmd = "request_cancellation" -> IF ByCustomer(r) THEN 5 ELSE 6
      [] OTHER -> 0

AtHome(k) == work[k].branch = customer[k].branch

Remains(r) ==
    /\ r.cmd = "claim_customer" =>
         /\ invitation[r.k].status = "pending" /\ invitation[r.k].target = r.actor
         /\ customer[r.k].status = "prospect"
    /\ r.cmd \in {"submit_order", "request_cancellation"} /\ AtHome(r.k) =>
         IndependentApprovers(r.k, work[r.k].branch) # {}
    /\ r.cmd \in Reviews /\ AtHome(r.k) =>
         r.actor \in IndependentApprovers(r.k, work[r.k].branch)

Found(r, seen, pc, held) ==
    /\ StepsHold(CommandSteps(r, seen), pc, UnsureAt(r), held)
    /\ pc > UnsureAt(r) => Remains(r)

(* The commands about a review hold the customer and the branch by then. *)
LEMMA HomeIsHeld ==
    ASSUME NEW held, NEW r, NEW seen, NEW pc \in Nat, Asked(r), TypeOK,
           r.cmd \in Reviews \union {"claim_customer", "submit_order", "request_cancellation"},
           StepsHold(CommandSteps(r, seen), pc, UnsureAt(r), held), pc > UnsureAt(r)
    PROVE  /\ OwnsCustomer(r, held) /\ pc > 2 /\ pc > 1
           /\ Passed(Scope(r, New), held) \/ Passed(Scope(r, Drain), held)
<1> SUFFICES OwnsCustomer(r, held) /\ pc > 2 /\ (Passed(Scope(r, New), held) \/ Passed(Scope(r, Drain), held))
  OBVIOUS
<1>1. CASE r.cmd = "claim_customer"
  <2>1. CommandSteps(r, seen) = claim_customer(r, seen) /\ UnsureAt(r) = ClockRead
    BY <1>1 DEF CommandSteps, UnsureAt, Reviews
  <2> QED BY <2>1, CustomerIsOwned DEF StepsHold, claim_customer, ClockRead
<1>2. CASE r.cmd = "submit_order"
  <2>1. CommandSteps(r, seen) = submit_order(r, seen) /\ UnsureAt(r) = 5
    BY <1>2 DEF CommandSteps, UnsureAt, Reviews
  <2> QED BY <2>1, CustomerIsOwned DEF StepsHold, submit_order
<1>3. CASE r.cmd = "approve_order"
  <2>1. CommandSteps(r, seen) = approve_order(r, seen) /\ UnsureAt(r) = 4
    BY <1>3 DEF CommandSteps, UnsureAt, Reviews
  <2> QED BY <2>1, CustomerIsOwned DEF StepsHold, approve_order
<1>4. CASE r.cmd = "reject_order"
  <2>1. CommandSteps(r, seen) = reject_order(r, seen) /\ UnsureAt(r) = 4
    BY <1>4 DEF CommandSteps, UnsureAt, Reviews
  <2> QED BY <2>1, CustomerIsOwned DEF StepsHold, reject_order
<1>5. CASE r.cmd = "request_cancellation"
  <2>1. /\ CommandSteps(r, seen) = request_cancellation(r, seen)
        /\ UnsureAt(r) = IF ByCustomer(r) THEN 5 ELSE 6
    BY <1>5 DEF CommandSteps, UnsureAt, Reviews
  <2>2. CASE ByCustomer(r)
    BY <2>1, <2>2, CustomerIsOwned DEF StepsHold, request_cancellation, ByCustomer
  <2>3. CASE ~ByCustomer(r)
    BY <2>1, <2>3, CustomerIsOwned DEF StepsHold, request_cancellation, ByCustomer
  <2> QED BY <2>2, <2>3
<1>6. CASE r.cmd = "approve_cancellation"
  <2>1. /\ CommandSteps(r, seen) = review_cancellation(r, seen, work[r.k].status \in {"draft", "approved"})
        /\ UnsureAt(r) = 4
    BY <1>6 DEF CommandSteps, UnsureAt, Reviews
  <2> QED BY <2>1, CustomerIsOwned DEF StepsHold, review_cancellation
<1>7. CASE r.cmd = "reject_cancellation"
  <2>1. CommandSteps(r, seen) = review_cancellation(r, seen, TRUE) /\ UnsureAt(r) = 4
    BY <1>7 DEF CommandSteps, UnsureAt, Reviews
  <2> QED BY <2>1, CustomerIsOwned DEF StepsHold, review_cancellation
<1> QED BY <1>1, <1>2, <1>3, <1>4, <1>5, <1>6, <1>7 DEF Reviews

LEMMA RemainsStays ==
    ASSUME NEW held, NEW r, NEW seen, NEW pc \in Nat, Asked(r), TypeOK, Protected(held),
           StepsHold(CommandSteps(r, seen), pc, UnsureAt(r), held), pc > UnsureAt(r), Remains(r)
    PROVE  Remains(r)'
<1>1. CASE r.cmd \notin Reviews \union {"claim_customer", "submit_order", "request_cancellation"}
  BY <1>1 DEF Remains
<1>2. CASE r.cmd \in Reviews \union {"claim_customer", "submit_order", "request_cancellation"}
  <2>1. OwnsCustomer(r, held) /\ BranchHeld(customer[r.k].branch, held)
    BY <1>2, HomeIsHeld, ScopeStays
  <2>2. RowsStay(r.k)
    BY <2>1, OwnStepsStay
  <2>3. GrantsStay(customer[r.k].branch)
    BY <2>1 DEF Protected, OwnsCustomer
  <2>4. AtHome(r.k)' =>
          AtHome(r.k) /\ (IndependentApprovers(r.k, work[r.k].branch)' = IndependentApprovers(r.k, work[r.k].branch))
    BY <2>2, <2>3 DEF AtHome, RowsStay, GrantsStay, IndependentApprovers
  <2> QED BY <2>2, <2>4 DEF Remains, RowsStay
<1> QED BY <1>1, <1>2

(* What a command found stays so, whatever happens that its locks allow. *)
LEMMA FoundStays ==
    ASSUME NEW held, NEW r, NEW seen, NEW pc \in Nat, Asked(r), TypeOK, Protected(held), WorkIsAtHome',
           Found(r, seen, pc, held)
    PROVE  Found(r, seen, pc, held)'
<1> SUFFICES ASSUME StepsHold(CommandSteps(r, seen), pc, UnsureAt(r), held)
             PROVE  /\ StepsHold(CommandSteps(r, seen)', pc, UnsureAt(r)', held)
                    /\ pc > UnsureAt(r)' => pc > UnsureAt(r)
  BY RemainsStays DEF Found
<1>1. CASE r.cmd = "create_customer"
  <2>1. /\ CommandSteps(r, seen) = create_customer(r)
        /\ CommandSteps(r, seen)' = create_customer(r)'
        /\ UnsureAt(r) = 0 /\ UnsureAt(r)' = 0
    BY <1>1 DEF CommandSteps, UnsureAt, Reviews
  <2> QED BY <1>1, <2>1, CreationStays
<1>2. CASE r.cmd = "issue_customer_claim_invitation"
  <2>1. /\ CommandSteps(r, seen) = issue_customer_claim_invitation(r)
        /\ CommandSteps(r, seen)' = issue_customer_claim_invitation(r)'
        /\ UnsureAt(r) = 0 /\ UnsureAt(r)' = 0
    BY <1>2 DEF CommandSteps, UnsureAt, Reviews
  <2> QED BY <1>2, <2>1, InvitationStays
<1>3. CASE r.cmd = "revoke_customer_claim_invitation"
  <2>1. /\ CommandSteps(r, seen) = revoke_customer_claim_invitation(r)
        /\ CommandSteps(r, seen)' = revoke_customer_claim_invitation(r)'
        /\ UnsureAt(r) = 0 /\ UnsureAt(r)' = 0
    BY <1>3 DEF CommandSteps, UnsureAt, Reviews
  <2> QED BY <1>3, <2>1, RevocationStays
<1>4. CASE r.cmd = "claim_customer"
  <2>1. /\ CommandSteps(r, seen) = claim_customer(r, seen)
        /\ CommandSteps(r, seen)' = claim_customer(r, seen)'
        /\ UnsureAt(r) = ClockRead /\ UnsureAt(r)' = ClockRead
    BY <1>4 DEF CommandSteps, UnsureAt, Reviews
  <2> QED BY <1>4, <2>1, ClaimStays
<1>5. CASE r.cmd = "activate_customer"
  <2>1. /\ CommandSteps(r, seen) = activate_customer(r)
        /\ CommandSteps(r, seen)' = activate_customer(r)'
        /\ UnsureAt(r) = 0 /\ UnsureAt(r)' = 0
    BY <1>5 DEF CommandSteps, UnsureAt, Reviews
  <2> QED BY <1>5, <2>1, ActivationStays
<1>6. CASE r.cmd = "deactivate_customer"
  <2>1. /\ CommandSteps(r, seen) = deactivate_customer(r)
        /\ CommandSteps(r, seen)' = deactivate_customer(r)'
        /\ UnsureAt(r) = 0 /\ UnsureAt(r)' = 0
    BY <1>6 DEF CommandSteps, UnsureAt, Reviews
  <2> QED BY <1>6, <2>1, DeactivationStays
<1>7. CASE r.cmd = "withdraw_consent"
  <2>1. /\ CommandSteps(r, seen) = withdraw_consent(r)
        /\ CommandSteps(r, seen)' = withdraw_consent(r)'
        /\ UnsureAt(r) = 0 /\ UnsureAt(r)' = 0
    BY <1>7 DEF CommandSteps, UnsureAt, Reviews
  <2> QED BY <1>7, <2>1, WithdrawalStays
<1>8. CASE r.cmd = "assign_customer_advisor"
  <2>1. /\ CommandSteps(r, seen) = assign_customer_advisor(r)
        /\ CommandSteps(r, seen)' = assign_customer_advisor(r)'
        /\ UnsureAt(r) = 0 /\ UnsureAt(r)' = 0
    BY <1>8 DEF CommandSteps, UnsureAt, Reviews
  <2> QED BY <1>8, <2>1, AssignmentStays
<1>9. CASE r.cmd = "end_customer_advisor_assignment"
  <2>1. /\ CommandSteps(r, seen) = end_customer_advisor_assignment(r)
        /\ CommandSteps(r, seen)' = end_customer_advisor_assignment(r)'
        /\ UnsureAt(r) = 0 /\ UnsureAt(r)' = 0
    BY <1>9 DEF CommandSteps, UnsureAt, Reviews
  <2> QED BY <1>9, <2>1, UnassignmentStays
<1>10. CASE r.cmd = "transfer_customer_branch"
  <2>1. /\ CommandSteps(r, seen) = transfer_customer_branch(r)
        /\ CommandSteps(r, seen)' = transfer_customer_branch(r)'
        /\ UnsureAt(r) = 0 /\ UnsureAt(r)' = 0
    BY <1>10 DEF CommandSteps, UnsureAt, Reviews
  <2> QED BY <1>10, <2>1, TransferStays
<1>11. CASE r.cmd = "deactivate_branch"
  <2>1. /\ CommandSteps(r, seen) = deactivate_branch(r)
        /\ CommandSteps(r, seen)' = deactivate_branch(r)'
        /\ UnsureAt(r) = 0 /\ UnsureAt(r)' = 0
    BY <1>11 DEF CommandSteps, UnsureAt, Reviews
  <2> QED BY <1>11, <2>1, BranchDeactivationStays
<1>12. CASE r.cmd = "close_branch"
  <2>1. /\ CommandSteps(r, seen) = close_branch(r)
        /\ CommandSteps(r, seen)' = close_branch(r)'
        /\ UnsureAt(r) = 0 /\ UnsureAt(r)' = 0
    BY <1>12 DEF CommandSteps, UnsureAt, Reviews
  <2> QED BY <1>12, <2>1, ClosureStays
<1>13. CASE r.cmd = "create_branch_role_grant"
  <2>1. /\ CommandSteps(r, seen) = create_branch_role_grant(r)
        /\ CommandSteps(r, seen)' = create_branch_role_grant(r)'
        /\ UnsureAt(r) = 0 /\ UnsureAt(r)' = 0
    BY <1>13 DEF CommandSteps, UnsureAt, Reviews
  <2> QED BY <1>13, <2>1, GrantStays
<1>14. CASE r.cmd = "revoke_branch_role_grant"
  <2>1. /\ CommandSteps(r, seen) = revoke_branch_role_grant(r)
        /\ CommandSteps(r, seen)' = revoke_branch_role_grant(r)'
        /\ UnsureAt(r) = 0 /\ UnsureAt(r)' = 0
    BY <1>14 DEF CommandSteps, UnsureAt, Reviews
  <2> QED BY <1>14, <2>1, GrantRevocationStays
<1>15. CASE r.cmd = "create_quote"
  <2>1. /\ CommandSteps(r, seen) = create_quote(r, seen)
        /\ CommandSteps(r, seen)' = create_quote(r, seen)'
        /\ UnsureAt(r) = 0 /\ UnsureAt(r)' = 0
    BY <1>15 DEF CommandSteps, UnsureAt, Reviews
  <2> QED BY <1>15, <2>1, QuoteStays
<1>16. CASE r.cmd = "create_order"
  <2>1. /\ CommandSteps(r, seen) = create_order(r, seen)
        /\ CommandSteps(r, seen)' = create_order(r, seen)'
        /\ UnsureAt(r) = 0 /\ UnsureAt(r)' = 0
    BY <1>16 DEF CommandSteps, UnsureAt, Reviews
  <2> QED BY <1>16, <2>1, OrderStays
<1>17. CASE r.cmd = "submit_order"
  <2>1. /\ CommandSteps(r, seen) = submit_order(r, seen)
        /\ CommandSteps(r, seen)' = submit_order(r, seen)'
        /\ UnsureAt(r) = 5 /\ UnsureAt(r)' = 5
    BY <1>17 DEF CommandSteps, UnsureAt, Reviews
  <2> QED BY <1>17, <2>1, SubmissionStays
<1>18. CASE r.cmd = "approve_order"
  <2>1. /\ CommandSteps(r, seen) = approve_order(r, seen)
        /\ CommandSteps(r, seen)' = approve_order(r, seen)'
        /\ UnsureAt(r) = 4 /\ UnsureAt(r)' = 4
    BY <1>18 DEF CommandSteps, UnsureAt, Reviews
  <2> QED BY <1>18, <2>1, ApprovalStays
<1>19. CASE r.cmd = "reject_order"
  <2>1. /\ CommandSteps(r, seen) = reject_order(r, seen)
        /\ CommandSteps(r, seen)' = reject_order(r, seen)'
        /\ UnsureAt(r) = 4 /\ UnsureAt(r)' = 4
    BY <1>19 DEF CommandSteps, UnsureAt, Reviews
  <2> QED BY <1>19, <2>1, RejectionStays
<1>20. CASE r.cmd = "request_cancellation"
  <2>1. /\ CommandSteps(r, seen) = request_cancellation(r, seen)
        /\ CommandSteps(r, seen)' = request_cancellation(r, seen)'
        /\ UnsureAt(r) = IF ByCustomer(r) THEN 5 ELSE 6
        /\ UnsureAt(r)' = IF ByCustomer(r)' THEN 5 ELSE 6
    BY <1>20 DEF CommandSteps, UnsureAt, Reviews
  <2>2. pc > 1 => (ByCustomer(r) <=> ByCustomer(r)')
    <3>1. pc > 1 => OwnsCustomer(r, held)
      <4>1. CASE ByCustomer(r)
        BY <2>1, <4>1, CustomerIsOwned DEF StepsHold, request_cancellation, ByCustomer
      <4>2. CASE ~ByCustomer(r)
        BY <2>1, <4>2, CustomerIsOwned DEF StepsHold, request_cancellation, ByCustomer
      <4> QED BY <4>1, <4>2
    <3> QED BY <3>1, OwnStepsStay DEF RowsStay, ByCustomer
  <2> QED BY <2>1, <2>2, CancellationStays
<1>21. CASE r.cmd = "approve_cancellation"
  <2>1. /\ CommandSteps(r, seen) = review_cancellation(r, seen, work[r.k].status \in {"draft", "approved"})
        /\ CommandSteps(r, seen)' = review_cancellation(r, seen, work[r.k].status \in {"draft", "approved"})'
        /\ UnsureAt(r) = 4 /\ UnsureAt(r)' = 4
    BY <1>21 DEF CommandSteps, UnsureAt, Reviews
  <2> QED BY <1>21, <2>1, CaseApprovalStays
<1>22. CASE r.cmd = "reject_cancellation"
  <2>1. /\ CommandSteps(r, seen) = review_cancellation(r, seen, TRUE)
        /\ CommandSteps(r, seen)' = review_cancellation(r, seen, TRUE)'
        /\ UnsureAt(r) = 4 /\ UnsureAt(r)' = 4
    BY <1>22 DEF CommandSteps, UnsureAt, Reviews
  <2> QED BY <1>22, <2>1, CaseRejectionStays
<1> QED
  BY <1>1, <1>2, <1>3, <1>4, <1>5, <1>6, <1>7, <1>8, <1>9, <1>10, <1>11, <1>12, <1>13, <1>14,
     <1>15, <1>16, <1>17, <1>18, <1>19, <1>20, <1>21, <1>22
  DEF Asked, RequestOK, Commands

-----------------------------------------------------------------------------
(* The other side: a transaction locks what its command changes, so that nobody   *)
(* else's locks protect any of it.                                              *)

Covered(mine) ==
    /\ \A c \in Customers :
         RowsStay(c) \/ /\ Exists(c) => Lock(Customer(c), "update") \in mine
                        /\ \A b \in Branches :
                             b \in {customer[c].branch, customer'[c].branch} => BranchHeld(b, mine)
    /\ \A b \in Branches :
         (branch'[b] = branch[b] /\ GrantsStay(b)) \/ Lock(BranchRow(b), "update") \in mine
    /\ \A u \in Accounts, c \in Customers :
         Lock(User(u), "update") \in mine
           \/ /\ customer'[c].account = u => customer[c].account = u
              /\ invitation'[c].status = "pending" /\ invitation'[c].target = u =>
                   invitation[c].status = "pending" /\ invitation[c].target = u
    /\ \A q \in asked : times'[q] = times[q] \/ Lock(KeyRow(q), "update") \in mine
    /\ \A c \in Customers : ~Exists(c) /\ Exists(c)' =>
         \E q \in asked : /\ q.cmd = "create_customer" /\ q.k = c
                          /\ Lock(KeyRow(q), "update") \in mine

LEMMA CoveredIsNotProtected ==
    ASSUME RequestsOK, TypeOK, NEW mine, NEW held, Covered(mine),
           \A l \in mine, m \in held : l.row = m.row => ~Conflict(l.mode, m.mode)
    PROVE  Protected(held)
<1>1. \A row : Lock(row, "update") \in held =>
        ~(Lock(row, "update") \in mine) /\ ~(Lock(row, "share") \in mine)
  BY DEF Lock, Conflict
<1>2. \A row : Lock(row, "share") \in held => ~(Lock(row, "update") \in mine)
  BY DEF Lock, Conflict
<1>3. \A c \in Customers : Lock(Customer(c), "update") \in held /\ Exists(c) => RowsStay(c)
  BY <1>1 DEF Covered
<1>4. \A b \in Branches : BranchHeld(b, held) => branch'[b] = branch[b] /\ GrantsStay(b)
  BY <1>1, <1>2 DEF Covered, BranchHeld
<1>5. \A b \in Branches : Lock(BranchRow(b), "update") \in held =>
         \A c \in Customers : b \in {customer[c].branch, customer'[c].branch} => RowsStay(c)
  BY <1>1 DEF Covered, BranchHeld
<1>6. \A u \in Accounts : Lock(User(u), "update") \in held =>
         \A c \in Customers :
           /\ customer'[c].account = u => customer[c].account = u
           /\ invitation'[c].status = "pending" /\ invitation'[c].target = u =>
                invitation[c].status = "pending" /\ invitation[c].target = u
  BY <1>1 DEF Covered
<1>7. \A q \in asked : Lock(KeyRow(q), "update") \in held =>
         /\ times'[q] = times[q]
         /\ q.cmd = "create_customer" /\ ~Exists(q.k) => ~Exists(q.k)'
  <2> SUFFICES ASSUME NEW q \in asked, Lock(KeyRow(q), "update") \in held,
                      q.cmd = "create_customer", ~Exists(q.k), Exists(q.k)'
               PROVE  FALSE
    BY <1>1 DEF Covered
  <2>1. q.k \in Customers
    BY DEF RequestsOK, RequestOK
  <2>2. \A c : c = q.k => ~Exists(c) /\ Exists(c)'
    BY DEF Exists
  <2>3. PICK r \in asked : /\ r.cmd = "create_customer" /\ r.k = q.k
                           /\ Lock(KeyRow(r), "update") \in mine
    BY <2>1, <2>2 DEF Covered
  <2>4. r = q
    BY <2>3 DEF RequestsOK
  <2> QED BY <1>1, <2>3, <2>4
<1> QED BY <1>3, <1>4, <1>5, <1>6, <1>7 DEF Protected

(* Nothing is written that locks could protect. *)
LEMMA NothingMoves ==
    ASSUME NEW held, UNCHANGED <<branch, grants, customer, advisor, work, times>>,
           \A c \in Customers : /\ invitation'[c].status = invitation[c].status
                                /\ invitation'[c].target = invitation[c].target
                                /\ invitation'[c].branch = invitation[c].branch
    PROVE  Protected(held)
BY DEF Protected, RowsStay, GrantsStay, Exists

-----------------------------------------------------------------------------
(* Command by command: when it commits, the desk admits what it writes, and its   *)
(* locks cover it.                                                              *)

AllPassed(steps, unsure, held) == \A i \in 1..Len(steps) : i # unsure => Passed(steps[i], held)

(* The commit of a request: its key is held, and its write is on its way. *)
Commits(r, held) ==
    /\ Asked(r) /\ Writes(r) /\ Lock(KeyRow(r), "update") \in held
    /\ \A q \in asked : q # r => times'[q] = times[q]

LEMMA ScopeHolds ==
    ASSUME NEW held, NEW r, NEW statuses, Passed(Scope(r, statuses), held)
    PROVE  /\ BranchHeld(customer[r.k].branch, held) /\ Exists(r.k)
           /\ branch[customer[r.k].branch] \in statuses
BY DEF Passed, Scope, Takes, BranchHeld

(* Most commands write rows of one customer, who stays where he is. *)
LEMMA CustomerIsCovered ==
    ASSUME NEW held, NEW r, Commits(r, held), OwnsCustomer(r, held),
           BranchHeld(customer[r.k].branch, held), UNCHANGED <<branch, grants>>,
           \A c \in Customers : c # r.k => customer'[c] = customer[c] /\ RowsStay(c),
           customer'[r.k].branch = customer[r.k].branch,
           customer'[r.k].account \in {customer[r.k].account, Nobody},
           \A c \in Customers : invitation'[c].status = "pending" =>
              /\ invitation[c].status = "pending" /\ invitation'[c].target = invitation[c].target
              /\ invitation'[c].branch = invitation[c].branch
    PROVE  Covered(held)
<1>1. r.k \in Customers /\ r \in asked /\ Nobody \notin Accounts
  BY DeskConstants DEF Commits, Asked, RequestOK
<1>2. ASSUME NEW c \in Customers
      PROVE  RowsStay(c) \/ /\ Exists(c) => Lock(Customer(c), "update") \in held
                            /\ \A b \in Branches :
                                 b \in {customer[c].branch, customer'[c].branch} => BranchHeld(b, held)
  BY <1>1 DEF OwnsCustomer
<1>3. \A b \in Branches : branch'[b] = branch[b] /\ GrantsStay(b)
  BY DEF GrantsStay
<1>4. \A u \in Accounts, c \in Customers : customer'[c].account = u => customer[c].account = u
  BY <1>1
<1>5. \A c \in Customers : Exists(c)' => Exists(c)
  BY <1>1 DEF Exists, OwnsCustomer
<1> QED BY <1>1, <1>2, <1>3, <1>4, <1>5 DEF Covered, Commits

LEMMA ActivationCommits ==
    ASSUME NEW held, NEW r, TypeOK, Commits(r, held), r.cmd = "activate_customer",
           AllPassed(activate_customer(r), 0, held), InvitationsSeen' = InvitationsSeen
    PROVE  Covered(held) /\ P!activate_customer(r.k)
<1>1. Passed(OwnCustomer(r), held) /\ Passed(Scope(r, New), held)
  BY DEF AllPassed, activate_customer
<1>2. activate_customer(r)[5].ok /\ activate_customer(r)[6].ok
  BY DEF AllPassed, activate_customer, Passed, Reads
<1>3. /\ customer[r.k].status \in {"invited", "inactive"} /\ customer[r.k].account # Nobody
      /\ work[r.k].status # "review"
  BY <1>1, <1>2 DEF activate_customer, Reads
<1>4. /\ OwnsCustomer(r, held) /\ BranchHeld(customer[r.k].branch, held)
      /\ branch[customer[r.k].branch] = "active"
  BY <1>1, CustomerIsOwned, ScopeHolds DEF Commits, New
<1>5. CustomerActivated(r.k)
  BY DEF Commits, Writes
<1>8. P!activate_customer(r.k)
  BY <1>3, <1>4, <1>5, DeskConstants
  DEF P!activate_customer, P!CustomerActivated, CustomerActivated, P!InActiveBranch,
      OwnsCustomer, Exists, P!Exists, NoCustomer, P!NoCustomer
<1>9. Covered(held)
  BY <1>4, <1>5, CustomerIsCovered DEF CustomerActivated, RowsStay, TypeOK
<1> QED BY <1>8, <1>9

LEMMA WithdrawalCommits ==
    ASSUME NEW held, NEW r, TypeOK, Commits(r, held), r.cmd = "withdraw_consent",
           AllPassed(withdraw_consent(r), 0, held), InvitationsSeen' = InvitationsSeen
    PROVE  Covered(held) /\ P!withdraw_consent(r.k)
<1>1. Passed(OwnCustomer(r), held) /\ Passed(Scope(r, AnyStatus), held)
  BY DEF AllPassed, withdraw_consent, Settles
<1>2. withdraw_consent(r)[3].ok
  BY DEF AllPassed, withdraw_consent, Passed, Reads, Settles
<1>3. Active(r.k)
  BY <1>1, <1>2 DEF withdraw_consent, Reads, Settles
<1>4. /\ OwnsCustomer(r, held) /\ BranchHeld(customer[r.k].branch, held)
  BY <1>1, CustomerIsOwned, ScopeHolds DEF Commits
<1>5. RelationshipEnded(r.k)
  BY DEF Commits, Writes
<1>8. P!withdraw_consent(r.k)
  BY <1>3, <1>4, <1>5, DeskConstants
  DEF P!withdraw_consent, P!RelationshipEnded, RelationshipEnded, P!Active, Active, P!NoAdvisor,
      NoAdvisor, OwnsCustomer, Exists, P!Exists, NoCustomer, P!NoCustomer
<1>9. Covered(held)
  BY <1>4, <1>5, CustomerIsCovered DEF RelationshipEnded, RowsStay, TypeOK
<1> QED BY <1>8, <1>9

LEMMA UnassignmentCommits ==
    ASSUME NEW held, NEW r, TypeOK, Commits(r, held), r.cmd = "end_customer_advisor_assignment",
           AllPassed(end_customer_advisor_assignment(r), 0, held),
           InvitationsSeen' = InvitationsSeen
    PROVE  Covered(held) /\ P!end_customer_advisor_assignment(r.k)
<1>1. Passed(OwnCustomer(r), held) /\ Passed(Scope(r, AnyStatus), held)
  BY DEF AllPassed, end_customer_advisor_assignment
<1>2. end_customer_advisor_assignment(r)[5].ok
  BY DEF AllPassed, end_customer_advisor_assignment, Passed, Reads
<1>3. advisor[r.k] # NoAdvisor
  BY <1>1, <1>2 DEF end_customer_advisor_assignment, Reads
<1>4. /\ OwnsCustomer(r, held) /\ BranchHeld(customer[r.k].branch, held)
  BY <1>1, CustomerIsOwned, ScopeHolds DEF Commits
<1>5. AdvisorUnassigned(r.k)
  BY DEF Commits, Writes
<1>8. P!end_customer_advisor_assignment(r.k)
  BY <1>3, <1>4, <1>5, DeskConstants
  DEF P!end_customer_advisor_assignment, P!AdvisorUnassigned, AdvisorUnassigned, P!NoAdvisor,
      NoAdvisor, OwnsCustomer, Exists, P!Exists, NoCustomer, P!NoCustomer
<1>9. Covered(held)
  BY <1>4, <1>5, CustomerIsCovered DEF AdvisorUnassigned, RowsStay, TypeOK
<1> QED BY <1>8, <1>9

LEMMA AssignmentCommits ==
    ASSUME NEW held, NEW r, TypeOK, Commits(r, held), r.cmd = "assign_customer_advisor",
           AllPassed(assign_customer_advisor(r), 0, held), InvitationsSeen' = InvitationsSeen
    PROVE  Covered(held) /\ P!assign_customer_advisor(r.k, r.p)
<1>1. /\ Passed(OwnCustomer(r), held) /\ Passed(Scope(r, New), held)
      /\ Passed(Reads(Active(r.k)), held) /\ Passed(AdvisorGrant(r.p, customer[r.k].branch), held)
      /\ Passed(Reads(advisor[r.k] # <<r.p, customer[r.k].branch>>), held)
  <2>1. StepsHold(assign_customer_advisor(r), 8, 0, held)
    BY DEF AllPassed, StepsHold
  <2> QED BY <2>1, Steps7 DEF assign_customer_advisor
<1>3. /\ Active(r.k) /\ <<r.p, customer[r.k].branch>> \in grants
      /\ advisor[r.k] # <<r.p, customer[r.k].branch>>
  BY <1>1 DEF Passed, Reads, AdvisorGrant
<1>4. /\ OwnsCustomer(r, held) /\ BranchHeld(customer[r.k].branch, held)
      /\ branch[customer[r.k].branch] = "active"
  BY <1>1, CustomerIsOwned, ScopeHolds DEF Commits, New
<1>5. AdvisorAssigned(r.k, r.p)
  BY DEF Commits, Writes
<1>8. P!assign_customer_advisor(r.k, r.p)
  BY <1>3, <1>4, <1>5, DeskConstants
  DEF P!assign_customer_advisor, P!AdvisorAssigned, AdvisorAssigned, P!InActiveBranch, P!Active,
      Active, OwnsCustomer, Exists, P!Exists, NoCustomer, P!NoCustomer
<1>9. Covered(held)
  BY <1>4, <1>5, CustomerIsCovered DEF AdvisorAssigned, RowsStay, TypeOK
<1> QED BY <1>8, <1>9

LEMMA QuoteCommits ==
    ASSUME NEW held, NEW r, NEW seen, TypeOK, Commits(r, held), r.cmd = "create_quote",
           AllPassed(create_quote(r, seen), 0, held), InvitationsSeen' = InvitationsSeen
    PROVE  Covered(held) /\ P!create_quote(r.k)
<1>1. Passed(TradingCustomer(r, seen), held) /\ Passed(Scope(r, New), held)
  BY DEF AllPassed, create_quote
<1>2. create_quote(r, seen)[5].ok
  BY DEF AllPassed, create_quote, Passed, Reads
<1>3. ~OpenWork(r.k)
  BY <1>1, <1>2 DEF create_quote, Reads
<1>4. /\ OwnsCustomer(r, held) /\ BranchHeld(customer[r.k].branch, held)
      /\ branch[customer[r.k].branch] = "active"
  BY <1>1, CustomerIsOwned, ScopeHolds DEF Commits, New
<1>5. WorkIs(r.k, [status |-> "quote", case |-> FALSE, branch |-> customer[r.k].branch])
  BY DEF Commits, Writes
<1>6. Active(r.k)
  BY <1>1 DEF Passed, TradingCustomer, Takes
<1>8. P!create_quote(r.k)
  BY <1>3, <1>4, <1>5, <1>6, DeskConstants
  DEF P!create_quote, P!WorkIs, WorkIs, P!InActiveBranch, P!Active, Active, OpenWork, P!OpenWork,
      OpenStatuses, P!OpenStatuses, OwnsCustomer, Exists, P!Exists, NoCustomer, P!NoCustomer
<1>9. Covered(held)
  BY <1>4, <1>5, CustomerIsCovered DEF WorkIs, RowsStay, TypeOK
<1> QED BY <1>8, <1>9

LEMMA OrderCommits ==
    ASSUME NEW held, NEW r, NEW seen, TypeOK, Commits(r, held), r.cmd = "create_order",
           AllPassed(create_order(r, seen), 0, held), InvitationsSeen' = InvitationsSeen
    PROVE  Covered(held) /\ P!create_order(r.k)
<1>1. Passed(TradingCustomer(r, seen), held) /\ Passed(Scope(r, New), held)
  BY DEF AllPassed, create_order
<1>2. create_order(r, seen)[5].ok
  BY DEF AllPassed, create_order, Passed, Reads
<1>3. work[r.k].status = "quote"
  BY <1>1, <1>2 DEF create_order, Reads
<1>4. /\ OwnsCustomer(r, held) /\ BranchHeld(customer[r.k].branch, held)
      /\ branch[customer[r.k].branch] = "active"
  BY <1>1, CustomerIsOwned, ScopeHolds DEF Commits, New
<1>5. WorkMoved(r.k, "draft")
  BY DEF Commits, Writes
<1>6. Active(r.k)
  BY <1>1 DEF Passed, TradingCustomer, Takes
<1>8. P!create_order(r.k)
  BY <1>3, <1>4, <1>5, <1>6, DeskConstants
  DEF P!create_order, P!WorkMoved, WorkMoved, P!WorkIs, WorkIs, P!InActiveBranch, P!Active,
      Active, OwnsCustomer, Exists, P!Exists, NoCustomer, P!NoCustomer
<1>9. Covered(held)
  BY <1>4, <1>5, CustomerIsCovered DEF WorkMoved, WorkIs, RowsStay, TypeOK
<1> QED BY <1>8, <1>9

LEMMA SubmissionCommits ==
    ASSUME NEW held, NEW r, NEW seen, TypeOK, Commits(r, held), r.cmd = "submit_order",
           AllPassed(submit_order(r, seen), 5, held), InvitationsSeen' = InvitationsSeen,
           WorkIsAtHome, Remains(r)
    PROVE  Covered(held) /\ P!submit_order(r.k)
<1>1. Passed(TradingCustomer(r, seen), held) /\ Passed(Scope(r, New), held)
  BY DEF AllPassed, submit_order
<1>2. submit_order(r, seen)[6].ok
  BY DEF AllPassed, submit_order, Passed, Reads
<1>3. work[r.k].status = "draft" /\ ~work[r.k].case
  BY <1>1, <1>2 DEF submit_order, Reads
<1>4. /\ OwnsCustomer(r, held) /\ BranchHeld(customer[r.k].branch, held)
      /\ branch[customer[r.k].branch] = "active"
  BY <1>1, CustomerIsOwned, ScopeHolds DEF Commits, New
<1>5. WorkMoved(r.k, "review")
  BY DEF Commits, Writes
<1>6. Active(r.k)
  BY <1>1 DEF Passed, TradingCustomer, Takes
<1>7. IndependentApprovers(r.k, work[r.k].branch) # {}
  <2>1. r.k \in Customers /\ AtHome(r.k)
    BY <1>3 DEF Commits, Asked, RequestOK, WorkIsAtHome, OpenWork, OpenStatuses, AtHome
  <2> QED BY <2>1 DEF Remains, Reviews
<1>8. P!submit_order(r.k)
  BY <1>3, <1>4, <1>5, <1>6, <1>7, DeskConstants
  DEF P!submit_order, P!WorkMoved, WorkMoved, P!WorkIs, WorkIs, P!InActiveBranch, P!Active,
      Active, P!IndependentApprovers, IndependentApprovers, OwnsCustomer, Exists, P!Exists,
      NoCustomer, P!NoCustomer
<1>9. Covered(held)
  BY <1>4, <1>5, CustomerIsCovered DEF WorkMoved, WorkIs, RowsStay, TypeOK
<1> QED BY <1>8, <1>9

LEMMA ApprovalCommits ==
    ASSUME NEW held, NEW r, NEW seen, TypeOK, Commits(r, held), r.cmd = "approve_order",
           AllPassed(approve_order(r, seen), 4, held), InvitationsSeen' = InvitationsSeen,
           WorkIsAtHome, Remains(r)
    PROVE  Covered(held) /\ P!approve_order(r.k, r.actor)
<1>1. Passed(TradingCustomer(r, seen), held) /\ Passed(Scope(r, New), held)
  BY DEF AllPassed, approve_order
<1>2. approve_order(r, seen)[7].ok
  BY DEF AllPassed, approve_order, Passed, Reads
<1>3. work[r.k].status = "review"
  BY <1>1, <1>2 DEF approve_order, Reads
<1>4. /\ OwnsCustomer(r, held) /\ BranchHeld(customer[r.k].branch, held)
      /\ branch[customer[r.k].branch] = "active"
  BY <1>1, CustomerIsOwned, ScopeHolds DEF Commits, New
<1>5. WorkMoved(r.k, "approved")
  BY DEF Commits, Writes
<1>6. Active(r.k)
  BY <1>1 DEF Passed, TradingCustomer, Takes
<1>7. r.actor \in IndependentApprovers(r.k, work[r.k].branch)
  <2>1. r.k \in Customers /\ AtHome(r.k)
    BY <1>3 DEF Commits, Asked, RequestOK, WorkIsAtHome, OpenWork, OpenStatuses, AtHome
  <2> QED BY <2>1 DEF Remains, Reviews
<1>8. P!approve_order(r.k, r.actor)
  BY <1>3, <1>4, <1>5, <1>6, <1>7, DeskConstants
  DEF P!approve_order, P!WorkMoved, WorkMoved, P!WorkIs, WorkIs, P!InActiveBranch, P!Active,
      Active, P!IndependentApprovers, IndependentApprovers, OwnsCustomer, Exists, P!Exists,
      NoCustomer, P!NoCustomer
<1>9. Covered(held)
  BY <1>4, <1>5, CustomerIsCovered DEF WorkMoved, WorkIs, RowsStay, TypeOK
<1> QED BY <1>8, <1>9

LEMMA RejectionCommits ==
    ASSUME NEW held, NEW r, NEW seen, TypeOK, Commits(r, held), r.cmd = "reject_order",
           AllPassed(reject_order(r, seen), 4, held), InvitationsSeen' = InvitationsSeen,
           WorkIsAtHome, Remains(r)
    PROVE  Covered(held) /\ P!reject_order(r.k, r.actor)
<1>1. Passed(BoundCustomer(r, seen), held) /\ Passed(Scope(r, Drain), held)
  BY DEF AllPassed, reject_order
<1>2. reject_order(r, seen)[7].ok
  BY DEF AllPassed, reject_order, Passed, Reads
<1>3. work[r.k].status = "review"
  BY <1>1, <1>2 DEF reject_order, Reads
<1>4. /\ OwnsCustomer(r, held) /\ BranchHeld(customer[r.k].branch, held)
      /\ branch[customer[r.k].branch] # "closed"
  BY <1>1, CustomerIsOwned, ScopeHolds DEF Commits, Drain
<1>5. WorkMoved(r.k, "ended")
  BY DEF Commits, Writes
<1>7. r.actor \in IndependentApprovers(r.k, work[r.k].branch)
  <2>1. r.k \in Customers /\ AtHome(r.k)
    BY <1>3 DEF Commits, Asked, RequestOK, WorkIsAtHome, OpenWork, OpenStatuses, AtHome
  <2> QED BY <2>1 DEF Remains, Reviews
<1>8. P!reject_order(r.k, r.actor)
  BY <1>3, <1>4, <1>5, <1>7, DeskConstants
  DEF P!reject_order, P!WorkMoved, WorkMoved, P!WorkIs, WorkIs, P!IndependentApprovers,
      IndependentApprovers, OwnsCustomer, Exists, P!Exists, NoCustomer, P!NoCustomer
<1>9. Covered(held)
  BY <1>4, <1>5, CustomerIsCovered DEF WorkMoved, WorkIs, RowsStay, TypeOK
<1> QED BY <1>8, <1>9

LEMMA CaseApprovalCommits ==
    ASSUME NEW held, NEW r, NEW seen, TypeOK, Commits(r, held), r.cmd = "approve_cancellation",
           AllPassed(review_cancellation(r, seen, work[r.k].status \in {"draft", "approved"}), 4, held),
           InvitationsSeen' = InvitationsSeen,
           WorkIsAtHome, Remains(r)
    PROVE  Covered(held) /\ P!approve_cancellation(r.k, r.actor)
<1>1. Passed(BoundCustomer(r, seen), held) /\ Passed(Scope(r, Drain), held)
  BY DEF AllPassed, review_cancellation
<1>2. review_cancellation(r, seen, work[r.k].status \in {"draft", "approved"})[7].ok
  BY DEF AllPassed, review_cancellation, Passed, Reads
<1>3. work[r.k].case /\ work[r.k].status \in {"draft", "approved"}
  BY <1>1, <1>2 DEF review_cancellation, Reads
<1>4. /\ OwnsCustomer(r, held) /\ BranchHeld(customer[r.k].branch, held)
      /\ branch[customer[r.k].branch] # "closed"
  BY <1>1, CustomerIsOwned, ScopeHolds DEF Commits, Drain
<1>5. WorkIs(r.k, [work[r.k] EXCEPT !.case = FALSE, !.status = "ended"])
  BY DEF Commits, Writes
<1>7. r.actor \in IndependentApprovers(r.k, work[r.k].branch)
  <2>1. r.k \in Customers /\ AtHome(r.k)
    BY <1>3 DEF Commits, Asked, RequestOK, WorkIsAtHome, OpenWork, OpenStatuses, AtHome
  <2> QED BY <2>1 DEF Remains, Reviews
<1>8. P!approve_cancellation(r.k, r.actor)
  BY <1>3, <1>4, <1>5, <1>7, DeskConstants
  DEF P!approve_cancellation, P!WorkIs, WorkIs, P!IndependentApprovers, IndependentApprovers,
      OwnsCustomer, Exists, P!Exists, NoCustomer, P!NoCustomer
<1>9. Covered(held)
  BY <1>4, <1>5, CustomerIsCovered DEF WorkIs, RowsStay, TypeOK
<1> QED BY <1>8, <1>9

LEMMA CaseRejectionCommits ==
    ASSUME NEW held, NEW r, NEW seen, TypeOK, Commits(r, held), r.cmd = "reject_cancellation",
           AllPassed(review_cancellation(r, seen, TRUE), 4, held),
           InvitationsSeen' = InvitationsSeen,
           WorkIsAtHome, Remains(r)
    PROVE  Covered(held) /\ P!reject_cancellation(r.k, r.actor)
<1>1. Passed(BoundCustomer(r, seen), held) /\ Passed(Scope(r, Drain), held)
  BY DEF AllPassed, review_cancellation
<1>2. review_cancellation(r, seen, TRUE)[7].ok
  BY DEF AllPassed, review_cancellation, Passed, Reads
<1>3. work[r.k].case
  BY <1>1, <1>2 DEF review_cancellation, Reads
<1>4. /\ OwnsCustomer(r, held) /\ BranchHeld(customer[r.k].branch, held)
      /\ branch[customer[r.k].branch] # "closed"
  BY <1>1, CustomerIsOwned, ScopeHolds DEF Commits, Drain
<1>5. WorkIs(r.k, [work[r.k] EXCEPT !.case = FALSE])
  BY DEF Commits, Writes
<1>7. r.actor \in IndependentApprovers(r.k, work[r.k].branch)
  <2>1. r.k \in Customers /\ AtHome(r.k)
    BY <1>3 DEF Commits, Asked, RequestOK, WorkIsAtHome, OpenWork, OpenStatuses, AtHome
  <2> QED BY <2>1 DEF Remains, Reviews
<1>8. P!reject_cancellation(r.k, r.actor)
  BY <1>3, <1>4, <1>5, <1>7, DeskConstants
  DEF P!reject_cancellation, P!WorkIs, WorkIs, P!IndependentApprovers, IndependentApprovers,
      OwnsCustomer, Exists, P!Exists, NoCustomer, P!NoCustomer
<1>9. Covered(held)
  BY <1>4, <1>5, CustomerIsCovered DEF WorkIs, RowsStay, TypeOK
<1> QED BY <1>8, <1>9

LEMMA DeactivationCommits ==
    ASSUME NEW held, NEW r, TypeOK, Commits(r, held), r.cmd = "deactivate_customer",
           AllPassed(deactivate_customer(r), 0, held), InvitationsSeen' = InvitationsSeen
    PROVE  Covered(held) /\ P!deactivate_customer(r.k)
<1>1. /\ Passed(OwnCustomer(r), held) /\ Passed(Scope(r, AnyStatus), held)
      /\ Passed(Reads(customer[r.k].status # "inactive"), held)
  <2>1. CASE ByCustomer(r)
    BY <2>1, OwnDeactivationSteps DEF AllPassed
  <2>2. CASE ~ByCustomer(r)
    BY <2>2, OrderedDeactivationSteps DEF AllPassed
  <2> QED BY <2>1, <2>2
<1>2. customer[r.k].status # "inactive"
  BY <1>1 DEF Passed, Reads
<1>3. OwnsCustomer(r, held) /\ BranchHeld(customer[r.k].branch, held)
  BY <1>1, CustomerIsOwned, ScopeHolds DEF Commits
<1>4. RelationshipEnded(r.k)
  BY DEF Commits, Writes
<1>5. P!deactivate_customer(r.k)
  BY <1>2, <1>3, <1>4
  DEF P!deactivate_customer, P!RelationshipEnded, RelationshipEnded, P!NoAdvisor, NoAdvisor,
      OwnsCustomer, Exists, P!Exists, NoCustomer, P!NoCustomer
<1>6. Covered(held)
  BY <1>3, <1>4, CustomerIsCovered DEF RelationshipEnded, RowsStay, TypeOK
<1> QED BY <1>5, <1>6

LEMMA CancellationCommits ==
    ASSUME NEW held, NEW r, NEW seen, TypeOK, Commits(r, held), r.cmd = "request_cancellation",
           AllPassed(request_cancellation(r, seen), IF ByCustomer(r) THEN 5 ELSE 6, held),
           InvitationsSeen' = InvitationsSeen, WorkIsAtHome, Remains(r)
    PROVE  Covered(held) /\ P!request_cancellation(r.k)
<1>1. /\ Passed(BoundCustomer(r, seen), held) /\ Passed(Scope(r, Drain), held)
      /\ work[r.k].status \in {"draft", "approved"} /\ ~work[r.k].case
  <2>1. CASE ByCustomer(r)
    <3>1. Passed(BoundCustomer(r, seen), held) /\ Passed(Scope(r, Drain), held)
      BY <2>1 DEF AllPassed, request_cancellation, ByCustomer
    <3>2. Passed(Reads(work[r.k].status \in {"draft", "approved"} /\ ~work[r.k].case), held)
      BY <2>1 DEF AllPassed, request_cancellation, ByCustomer
    <3>3. work[r.k].status \in {"draft", "approved"} /\ ~work[r.k].case
      BY <3>2 DEF Passed, Reads
    <3> QED BY <3>1, <3>3
  <2>2. CASE ~ByCustomer(r)
    <3>1. Passed(BoundCustomer(r, seen), held) /\ Passed(Scope(r, Drain), held)
      BY <2>2 DEF AllPassed, request_cancellation, ByCustomer
    <3>2. Passed(Reads(work[r.k].status \in {"draft", "approved"} /\ ~work[r.k].case), held)
      BY <2>2 DEF AllPassed, request_cancellation, ByCustomer
    <3>3. work[r.k].status \in {"draft", "approved"} /\ ~work[r.k].case
      BY <3>2 DEF Passed, Reads
    <3> QED BY <3>1, <3>3
  <2> QED BY <2>1, <2>2
<1>2. /\ OwnsCustomer(r, held) /\ BranchHeld(customer[r.k].branch, held)
      /\ branch[customer[r.k].branch] # "closed"
  BY <1>1, CustomerIsOwned, ScopeHolds DEF Commits, Drain
<1>3. IndependentApprovers(r.k, work[r.k].branch) # {}
  <2>1. r.k \in Customers /\ AtHome(r.k)
    BY <1>1 DEF Commits, Asked, RequestOK, WorkIsAtHome, OpenWork, OpenStatuses, AtHome
  <2> QED BY <2>1 DEF Remains
<1>4. WorkIs(r.k, [work[r.k] EXCEPT !.case = TRUE])
  BY DEF Commits, Writes
<1>5. P!request_cancellation(r.k)
  BY <1>1, <1>2, <1>3, <1>4
  DEF P!request_cancellation, P!WorkIs, WorkIs, P!IndependentApprovers, IndependentApprovers,
      P!InOpenBranch, OwnsCustomer, Exists, P!Exists, NoCustomer, P!NoCustomer
<1>6. Covered(held)
  BY <1>2, <1>4, CustomerIsCovered DEF WorkIs, RowsStay, TypeOK
<1> QED BY <1>5, <1>6

LEMMA RevocationCommits ==
    ASSUME NEW held, NEW r, TypeOK, Commits(r, held), r.cmd = "revoke_customer_claim_invitation",
           AllPassed(revoke_customer_claim_invitation(r), 0, held),
           InvitationsSeen[r.k].status = invitation[r.k].status,
           InvitationsSeen[r.k].branch = invitation[r.k].branch,
           InvitationsSeen' = [InvitationsSeen EXCEPT ![r.k].status = "revoked"]
    PROVE  Covered(held) /\ P!revoke_customer_claim_invitation(r.k)
<1>1. Passed(OwnCustomer(r), held) /\ Passed(Scope(r, AnyStatus), held)
  BY DEF AllPassed, revoke_customer_claim_invitation
<1>2. invitation[r.k].status = "pending" /\ invitation[r.k].branch = customer[r.k].branch
  <2> DEFINE found == /\ invitation[r.k].branch = customer[r.k].branch
                      /\ invitation[r.k].status = "pending"
  <2>1. PICK taken : taken = OwnInvitation(r, found)
    OBVIOUS
  <2>2. revoke_customer_claim_invitation(r) =
          <<OwnCustomer(r), Scope(r, AnyStatus), Manager(r), Key(r), taken>>
    BY <2>1 DEF revoke_customer_claim_invitation
  <2>3. taken.ok
    BY <2>2 DEF AllPassed, Passed
  <2> QED BY <2>1, <2>3 DEF OwnInvitation, Takes
<1>3. OwnsCustomer(r, held) /\ BranchHeld(customer[r.k].branch, held)
  BY <1>1, CustomerIsOwned, ScopeHolds DEF Commits
<1>4. InvitationRevoked(r.k)
  BY DEF Commits, Writes
<1>5. P!revoke_customer_claim_invitation(r.k)
  BY <1>2, <1>3, <1>4
  DEF P!revoke_customer_claim_invitation, P!InvitationRevoked, InvitationRevoked, OwnsCustomer,
      Exists, P!Exists, NoCustomer, P!NoCustomer
<1>6. Covered(held)
  BY <1>3, <1>4, CustomerIsCovered DEF InvitationRevoked, RowsStay, TypeOK
<1> QED BY <1>5, <1>6

(* Commands on a branch hold it for update. *)
LEMMA BranchIsCovered ==
    ASSUME NEW held, NEW r, Commits(r, held), Lock(BranchRow(r.b), "update") \in held,
           UNCHANGED <<customer, invitation, advisor, work>>,
           \A b \in Branches : b # r.b => branch'[b] = branch[b] /\ GrantsStay(b)
    PROVE  Covered(held)
<1>1. r.b \in Branches /\ r \in asked
  BY DEF Commits, Asked, RequestOK
<1>2. \A c \in Customers : RowsStay(c) /\ (Exists(c)' => Exists(c))
  BY DEF RowsStay, Exists
<1> QED BY <1>1, <1>2 DEF Covered, Commits

LEMMA BranchPassed ==
    ASSUME NEW held, NEW b, NEW statuses, Passed(OwnBranch(b, statuses), held)
    PROVE  b \in Branches /\ branch[b] \in statuses /\ Lock(BranchRow(b), "update") \in held
BY DEF Passed, OwnBranch, Takes

LEMMA BranchDeactivationCommits ==
    ASSUME NEW held, NEW r, TypeOK, Commits(r, held), r.cmd = "deactivate_branch",
           AllPassed(deactivate_branch(r), 0, held), InvitationsSeen' = InvitationsSeen
    PROVE  Covered(held) /\ P!deactivate_branch(r.b)
<1>1. Passed(OwnBranch(r.b, AnyStatus), held)
  BY DEF AllPassed, deactivate_branch
<1>2. branch[r.b] = "active"
  <2>1. deactivate_branch(r)[4].ok
    BY DEF AllPassed, deactivate_branch, Passed
  <2> QED BY <2>1 DEF deactivate_branch, Reads
<1>3. BranchMoved(r.b, "inactive")
  BY DEF Commits, Writes
<1>4. P!deactivate_branch(r.b)
  BY <1>2, <1>3 DEF P!deactivate_branch, P!BranchMoved, BranchMoved
<1>5. Covered(held)
  BY <1>1, <1>3, BranchPassed, BranchIsCovered DEF BranchMoved, GrantsStay, TypeOK
<1> QED BY <1>4, <1>5

LEMMA GrantCommits ==
    ASSUME NEW held, NEW r, TypeOK, Commits(r, held), r.cmd = "create_branch_role_grant",
           AllPassed(create_branch_role_grant(r), 0, held), InvitationsSeen' = InvitationsSeen
    PROVE  Covered(held) /\ P!create_branch_role_grant(r.p, r.b)
<1>1. Passed(OwnBranch(r.b, New), held)
  BY DEF AllPassed, create_branch_role_grant
<1>2. <<r.p, r.b>> \notin grants
  <2>1. create_branch_role_grant(r)[5].ok
    BY DEF AllPassed, create_branch_role_grant, Passed
  <2> QED BY <2>1 DEF create_branch_role_grant, Reads
<1>3. GrantsAre(grants \union {<<r.p, r.b>>})
  BY DEF Commits, Writes
<1>4. branch[r.b] = "active" /\ Lock(BranchRow(r.b), "update") \in held
  BY <1>1, BranchPassed DEF New
<1>5. P!create_branch_role_grant(r.p, r.b)
  BY <1>2, <1>3, <1>4 DEF P!create_branch_role_grant, P!GrantsAre, GrantsAre
<1>6. Covered(held)
  BY <1>4, <1>3, BranchIsCovered DEF GrantsAre, GrantsStay
<1> QED BY <1>5, <1>6

LEMMA GrantRevocationCommits ==
    ASSUME NEW held, NEW r, TypeOK, Commits(r, held), r.cmd = "revoke_branch_role_grant",
           AllPassed(revoke_branch_role_grant(r), 0, held), InvitationsSeen' = InvitationsSeen
    PROVE  Covered(held) /\ P!revoke_branch_role_grant(r.p, r.b)
<1>1. Passed(OwnBranch(r.b, AnyStatus), held)
  BY DEF AllPassed, revoke_branch_role_grant
<1>2. /\ revoke_branch_role_grant(r)[5].ok /\ revoke_branch_role_grant(r)[6].ok
      /\ revoke_branch_role_grant(r)[7].ok
  BY DEF AllPassed, revoke_branch_role_grant, Passed
<1>3. <<r.p, r.b>> \in grants /\ ~Assigned(r.p, r.b) /\ Replaceable(r.p, r.b)
  BY <1>2 DEF revoke_branch_role_grant, Reads
<1>4. GrantsAre(grants \ {<<r.p, r.b>>})
  BY DEF Commits, Writes
<1>5. P!Replaceable(r.p, r.b) /\ ~P!Assigned(r.p, r.b)
  BY <1>3
  DEF Replaceable, P!Replaceable, P!AwaitsApproval, AwaitsApproval, P!IndependentApprovers,
      IndependentApprovers, Assigned, P!Assigned
<1>6. P!revoke_branch_role_grant(r.p, r.b)
  BY <1>3, <1>4, <1>5 DEF P!revoke_branch_role_grant, P!GrantsAre, GrantsAre
<1>7. Covered(held)
  BY <1>1, <1>4, BranchPassed, BranchIsCovered DEF GrantsAre, GrantsStay
<1> QED BY <1>6, <1>7

LEMMA CreationCommits ==
    ASSUME NEW held, NEW r, TypeOK, Commits(r, held), r.cmd = "create_customer",
           AllPassed(create_customer(r), 0, held), InvitationsSeen' = InvitationsSeen
    PROVE  Covered(held) /\ P!create_customer(r.k, r.b)
<1>1. Passed(OwnBranch(r.b, New), held)
  BY DEF AllPassed, create_customer
<1>2. ~Exists(r.k)
  <2>1. create_customer(r)[4].ok
    BY DEF AllPassed, create_customer, Passed
  <2> QED BY <2>1 DEF create_customer, Reads
<1>3. CustomerCreated(r.k, r.b)
  BY DEF Commits, Writes
<1>4. branch[r.b] = "active" /\ Lock(BranchRow(r.b), "update") \in held
  BY <1>1, BranchPassed DEF New
<1>5. P!create_customer(r.k, r.b)
  BY <1>2, <1>3, <1>4
  DEF P!create_customer, P!CustomerCreated, CustomerCreated, P!Exists, Exists, P!NoCustomer,
      NoCustomer
<1>6. Covered(held)
  <2>1. r.k \in Customers /\ r \in asked
    BY DEF Commits, Asked, RequestOK
  <2>2. /\ customer'[r.k].branch = r.b /\ customer'[r.k].account = Nobody
        /\ customer[r.k].branch = NoBranch
        /\ \A c \in Customers : c # r.k => customer'[c] = customer[c] /\ RowsStay(c)
    BY <1>2, <1>3, <2>1 DEF CustomerCreated, RowsStay, TypeOK, Exists, NoCustomer
  <2>3. \A c \in Customers : ~Exists(c) /\ Exists(c)' => c = r.k
    BY <2>2 DEF Exists
  <2>4. \A b \in Branches : b \in {customer[r.k].branch, customer'[r.k].branch} => BranchHeld(b, held)
    BY <1>4, <2>2, DeskConstants DEF BranchHeld
  <2>5. UNCHANGED <<branch, grants, invitation>>
    BY <1>3 DEF CustomerCreated
  <2>6. \A b \in Branches : branch'[b] = branch[b] /\ GrantsStay(b)
    BY <2>5 DEF GrantsStay
  <2>7. \A u \in Accounts, c \in Customers : customer'[c].account = u => customer[c].account = u
    BY <2>2, DeskConstants
  <2> QED BY <1>2, <2>1, <2>2, <2>3, <2>4, <2>5, <2>6, <2>7 DEF Covered, Commits
<1> QED BY <1>5, <1>6

(* The row of an invitation that is issued *)
Issued(k, u) == [status |-> "pending", branch |-> customer[k].branch, target |-> u, expired |-> FALSE]

LEMMA InvitationCommits ==
    ASSUME NEW held, NEW r, TypeOK, Commits(r, held), r.cmd = "issue_customer_claim_invitation",
           AllPassed(issue_customer_claim_invitation(r), 0, held),
           \A c \in Customers : /\ InvitationsSeen[c].status = invitation[c].status
                                /\ InvitationsSeen[c].target = invitation[c].target
                                /\ InvitationsSeen[c].branch = invitation[c].branch,
           InvitationsSeen' = [InvitationsSeen EXCEPT ![r.k] = Issued(r.k, r.p)]
    PROVE  Covered(held) /\ P!issue_customer_claim_invitation(r.k, r.p)
<1>0. r.k \in Customers /\ r \in asked
  BY DEF Commits, Asked, RequestOK
<1>1. /\ Passed(OwnCustomer(r), held) /\ Passed(Scope(r, New), held) /\ Passed(OwnUser(r.p), held)
      /\ Passed(TargetInvitations(r), held)
      /\ Passed(Reads(customer[r.k].status = "prospect"), held)
      /\ Passed(Reads(~BoundElsewhere(r.k, r.p)), held)
      /\ Passed(OwnInvitation(r, invitation[r.k].status # "pending"), held)
  BY DEF AllPassed, issue_customer_claim_invitation
<1>2. /\ customer[r.k].status = "prospect" /\ ~BoundElsewhere(r.k, r.p)
      /\ ~InvitedElsewhere(r.p) /\ invitation[r.k].status # "pending"
      /\ Lock(User(r.p), "update") \in held
  BY <1>1 DEF Passed, Reads, TargetInvitations, OwnInvitation, OwnUser, Takes
<1>3. /\ OwnsCustomer(r, held) /\ BranchHeld(customer[r.k].branch, held)
      /\ branch[customer[r.k].branch] = "active"
  <2>1. Passed(OwnCustomer(r), held) /\ Passed(Scope(r, New), held)
    BY <1>1
  <2> QED BY <2>1, CustomerIsOwned, ScopeHolds DEF Commits, New
<1>4. InvitationIssued(r.k, r.p)
  BY DEF Commits, Writes
<1>5. P!issue_customer_claim_invitation(r.k, r.p)
  <2>1. ~P!BoundElsewhere(r.k, r.p) /\ ~P!InvitedElsewhere(r.p)
    BY <1>2 DEF BoundElsewhere, P!BoundElsewhere, InvitedElsewhere, P!InvitedElsewhere
  <2>2. P!InActiveBranch(r.k)
    BY <1>3 DEF OwnsCustomer, P!InActiveBranch, P!Exists, Exists, P!NoCustomer, NoCustomer
  <2>3. P!InvitationIssued(r.k, r.p)
    BY <1>4 DEF InvitationIssued, P!InvitationIssued, Issued
  <2> QED BY <1>0, <1>2, <2>1, <2>2, <2>3 DEF P!issue_customer_claim_invitation
<1>6. Covered(held)
  <2>1. /\ UNCHANGED <<branch, grants, customer, advisor, work>>
        /\ \A c \in Customers : c # r.k => invitation'[c] = invitation[c]
        /\ invitation'[r.k].target = r.p
    BY <1>0, <1>4 DEF InvitationIssued, TypeOK
  <2>2. \A c \in Customers : (c # r.k => RowsStay(c)) /\ (Exists(c)' => Exists(c))
    BY <2>1 DEF RowsStay, Exists
  <2>3. \A b \in Branches : branch'[b] = branch[b] /\ GrantsStay(b)
    BY <2>1 DEF GrantsStay
  <2>4. \A b \in Branches : b \in {customer[r.k].branch, customer'[r.k].branch} => BranchHeld(b, held)
    BY <1>3, <2>1
  <2> QED BY <1>0, <1>2, <1>3, <2>1, <2>2, <2>3, <2>4 DEF Covered, Commits, OwnsCustomer
<1> QED BY <1>5, <1>6

LEMMA ClaimCommits ==
    ASSUME NEW held, NEW r, NEW seen, TypeOK, Commits(r, held), r.cmd = "claim_customer",
           AllPassed(claim_customer(r, seen), ClockRead, held), Remains(r),
           InvitationsSeen[r.k].status = invitation[r.k].status,
           InvitationsSeen[r.k].target = invitation[r.k].target, ~InvitationsSeen[r.k].expired,
           InvitationsSeen[r.k].branch = invitation[r.k].branch, WorkIsAtHome,
           InvitationsSeen' = [InvitationsSeen EXCEPT ![r.k].status = "claimed", ![r.k].expired = FALSE]
    PROVE  Covered(held) /\ P!claim_customer(r.k, r.actor)
<1>0. r.k \in Customers /\ r \in asked
  BY DEF Commits, Asked, RequestOK
<1>1. /\ Passed(BoundCustomer(r, seen), held) /\ Passed(Scope(r, New), held)
      /\ Passed(OwnUser(r.actor), held) /\ Passed(Reads(~BoundElsewhere(r.k, r.actor)), held)
  <2>1. StepsHold(claim_customer(r, seen), 8, 6, held)
    BY DEF AllPassed, StepsHold, ClockRead
  <2> QED BY <2>1, Steps7 DEF claim_customer
<1>2. /\ ~BoundElsewhere(r.k, r.actor) /\ Lock(User(r.actor), "update") \in held
      /\ invitation[r.k].status = "pending" /\ invitation[r.k].target = r.actor
      /\ customer[r.k].status = "prospect" /\ invitation[r.k].branch = customer[r.k].branch
  BY <1>0, <1>1 DEF Passed, Reads, OwnUser, Takes, Remains, WorkIsAtHome
<1>3. /\ OwnsCustomer(r, held) /\ BranchHeld(customer[r.k].branch, held)
      /\ branch[customer[r.k].branch] = "active"
  BY <1>1, CustomerIsOwned, ScopeHolds DEF Commits, New
<1>4. CustomerClaimed(r.k, r.actor)
  BY DEF Commits, Writes
<1>5. P!claim_customer(r.k, r.actor)
  <2>1. ~P!BoundElsewhere(r.k, r.actor)
    BY <1>2 DEF BoundElsewhere, P!BoundElsewhere
  <2>2. P!InActiveBranch(r.k)
    BY <1>3 DEF OwnsCustomer, P!InActiveBranch, P!Exists, Exists, P!NoCustomer, NoCustomer
  <2>3. P!CustomerClaimed(r.k, r.actor)
    BY <1>4 DEF CustomerClaimed, P!CustomerClaimed
  <2> QED BY <1>0, <1>2, <2>1, <2>2, <2>3 DEF P!claim_customer
<1>6. Covered(held)
  <2>1. /\ UNCHANGED <<branch, grants, advisor, work>>
        /\ \A c \in Customers : c # r.k => invitation'[c] = invitation[c] /\ customer'[c] = customer[c]
        /\ invitation'[r.k].status = "claimed" /\ customer'[r.k].account = r.actor
        /\ customer'[r.k].branch = customer[r.k].branch
    BY <1>0, <1>4 DEF CustomerClaimed, TypeOK, CustomerRow, NoCustomer, InvitationRow
  <2>2. \A c \in Customers : (c # r.k => RowsStay(c)) /\ (Exists(c)' => Exists(c))
    BY <1>3, <2>1 DEF RowsStay, Exists, OwnsCustomer
  <2>3. \A b \in Branches : branch'[b] = branch[b] /\ GrantsStay(b)
    BY <2>1 DEF GrantsStay
  <2>4. \A b \in Branches : b \in {customer[r.k].branch, customer'[r.k].branch} => BranchHeld(b, held)
    BY <1>3, <2>1
  <2> QED BY <1>0, <1>2, <1>3, <2>1, <2>2, <2>3, <2>4 DEF Covered, Commits, OwnsCustomer
<1> QED BY <1>5, <1>6

LEMMA TransferCommits ==
    ASSUME NEW held, NEW r, TypeOK, Commits(r, held), r.cmd = "transfer_customer_branch",
           AllPassed(transfer_customer_branch(r), 0, held), InvitationsSeen' = InvitationsSeen,
           InvitationsSeen[r.k].status = invitation[r.k].status
    PROVE  Covered(held) /\ P!transfer_customer_branch(r.k, r.b, r.p)
<1>0. r.k \in Customers /\ r.b \in Branches /\ r \in asked
  BY DEF Commits, Asked, RequestOK
<1> PICK steps : steps = transfer_customer_branch(r)
  OBVIOUS
<1>1. TransferSteps(r, steps) /\ AllPassed(steps, 0, held)
  BY TransferList
<1>2. /\ Passed(OwnCustomer(r), held) /\ Passed(Reads(r.b # customer[r.k].branch), held)
      /\ Passed(BothBranches(r)[1], held) /\ Passed(BothBranches(r)[2], held)
      /\ Passed(NoOpenWork(r)[1], held) /\ Passed(NoOpenWork(r)[2], held)
      /\ r.p # Nobody => Passed(Reads(Active(r.k)), held) /\ Passed(AdvisorGrant(r.p, r.b), held)
  <2>1. CASE r.p = Nobody
    <3>1. StepsHold(steps, 9, 0, held)
      BY <1>1 DEF StepsHold, AllPassed
    <3> QED BY <1>1, <2>1, <3>1, List8 DEF TransferSteps
  <2>2. CASE r.p # Nobody
    <3>1. StepsHold(steps, 11, 0, held)
      BY <1>1 DEF StepsHold, AllPassed
    <3> QED BY <1>1, <2>2, <3>1, List10 DEF TransferSteps
  <2> QED BY <2>1, <2>2
<1>3. OwnsCustomer(r, held)
  BY <1>2, CustomerIsOwned DEF Commits
<1>4. /\ Passed(OwnBranch(customer[r.k].branch, Drain), held)
      /\ Passed(OwnBranch(r.b, New), held)
  <2>1. CASE customer[r.k].branch < r.b
    BY <1>2, <2>1 DEF BothBranches
  <2>2. CASE ~(customer[r.k].branch < r.b)
    BY <1>2, <2>2 DEF BothBranches
  <2> QED BY <2>1, <2>2
<1>5. /\ branch[r.b] = "active" /\ branch[customer[r.k].branch] # "closed"
      /\ BranchHeld(r.b, held) /\ BranchHeld(customer[r.k].branch, held)
  BY <1>4, BranchPassed DEF New, Drain, BranchHeld
<1>6. r.b # customer[r.k].branch /\ (r.p # Nobody => Active(r.k) /\ <<r.p, r.b>> \in grants)
  BY <1>2 DEF Passed, Reads, AdvisorGrant
<1>7. invitation[r.k].status # "pending" /\ ~OpenWork(r.k)
  <2>1. NoOpenWork(r)[1].ok /\ NoOpenWork(r)[2].ok
    BY <1>2 DEF Passed
  <2> QED BY <2>1 DEF NoOpenWork, OwnInvitation, OwnWork, Takes
<1>8. CustomerTransferred(r.k, r.b, r.p)
  BY DEF Commits, Writes
<1>9. P!transfer_customer_branch(r.k, r.b, r.p)
  <2>1. P!Exists(r.k) /\ P!InOpenBranch(r.k) /\ ~P!OpenWork(r.k) /\ (r.p # Nobody => P!Active(r.k))
    BY <1>3, <1>5, <1>6, <1>7
    DEF OwnsCustomer, P!InOpenBranch, P!Exists, Exists, P!NoCustomer, NoCustomer, P!OpenWork,
        OpenWork,
        P!OpenStatuses, OpenStatuses, P!Active, Active
  <2>2. P!CustomerTransferred(r.k, r.b, r.p)
    BY <1>8 DEF CustomerTransferred, P!CustomerTransferred, P!NoAdvisor, NoAdvisor
  <2> QED BY <1>5, <1>6, <1>7, <2>1, <2>2 DEF P!transfer_customer_branch
<1>10. Covered(held)
  <2>1. /\ UNCHANGED <<branch, grants, invitation, work>>
        /\ \A c \in Customers : c # r.k => customer'[c] = customer[c] /\ advisor'[c] = advisor[c]
        /\ customer'[r.k].account = customer[r.k].account /\ customer'[r.k].branch = r.b
    BY <1>0, <1>8 DEF CustomerTransferred, TypeOK, CustomerRow, NoCustomer
  <2>2. \A c \in Customers : (c # r.k => RowsStay(c)) /\ (Exists(c)' => Exists(c))
    BY <1>3, <2>1 DEF RowsStay, Exists, OwnsCustomer
  <2>3. \A b \in Branches : branch'[b] = branch[b] /\ GrantsStay(b)
    BY <2>1 DEF GrantsStay
  <2>4. \A b \in Branches : b \in {customer[r.k].branch, customer'[r.k].branch} => BranchHeld(b, held)
    BY <1>5, <2>1
  <2> QED BY <1>0, <1>3, <2>1, <2>2, <2>3, <2>4 DEF Covered, Commits, OwnsCustomer
<1> QED BY <1>9, <1>10

LEMMA ClosureCommits ==
    ASSUME NEW held, NEW r, TypeOK, Commits(r, held), r.cmd = "close_branch",
           AllPassed(close_branch(r), 0, held), InvitationsSeen' = InvitationsSeen,
           \A c \in Customers : /\ InvitationsSeen[c].status = invitation[c].status
                                /\ InvitationsSeen[c].branch = invitation[c].branch
    PROVE  Covered(held) /\ P!close_branch(r.b)
<1>1. Passed(OwnBranch(r.b, AnyStatus), held)
  BY DEF AllPassed, close_branch, Readiness
<1>2. /\ Passed(Reads(branch[r.b] = "inactive"), held)
      /\ Passed(Reads(NoCustomers(r.b)), held) /\ Passed(Reads(NoPendingInvitation(r.b)), held)
      /\ Passed(Reads(NoAssignment(r.b)), held) /\ Passed(Reads(NoGrant(r.b)), held)
      /\ Passed(Reads(NoReview(r.b)), held) /\ Passed(Reads(NoOpenQuote(r.b)), held)
      /\ Passed(Reads(NoOpenOrder(r.b)), held) /\ Passed(Reads(NoOpenCase(r.b)), held)
  BY DEF AllPassed, close_branch, Readiness
<1>3. /\ branch[r.b] = "inactive"
      /\ NoCustomers(r.b) /\ NoPendingInvitation(r.b) /\ NoAssignment(r.b) /\ NoGrant(r.b)
      /\ NoReview(r.b) /\ NoOpenQuote(r.b) /\ NoOpenOrder(r.b) /\ NoOpenCase(r.b)
  BY <1>2 DEF Passed, Reads
<1>4. /\ P!NoCustomers(r.b) /\ P!NoPendingInvitation(r.b) /\ P!NoAssignment(r.b) /\ P!NoGrant(r.b)
      /\ P!NoReview(r.b) /\ P!NoOpenQuote(r.b) /\ P!NoOpenOrder(r.b) /\ P!NoOpenCase(r.b)
  BY <1>3
  DEF NoCustomers, P!NoCustomers, NoPendingInvitation, P!NoPendingInvitation, NoAssignment,
      P!NoAssignment, NoGrant, P!NoGrant, NoReview, P!NoReview, NoOpenQuote, P!NoOpenQuote,
      NoOpenOrder, P!NoOpenOrder, NoOpenCase, P!NoOpenCase, Members, P!Members
<1>5. BranchMoved(r.b, "closed")
  BY DEF Commits, Writes
<1>6. P!close_branch(r.b)
  BY <1>3, <1>4, <1>5 DEF P!close_branch, P!BranchMoved, BranchMoved
<1>7. Covered(held)
  BY <1>1, <1>5, BranchPassed, BranchIsCovered DEF BranchMoved, GrantsStay, TypeOK
<1> QED BY <1>6, <1>7

-----------------------------------------------------------------------------
(* A transaction that goes on finds more. *)

LEMMA FoundAtStart ==
    ASSUME NEW r, NEW seen, NEW held
    PROVE  Found(r, seen, 1, held)
BY DEF Found, StepsHold, UnsureAt, Remains, Reviews, ClockRead

LEMMA UncertainStepAsked ==
    ASSUME NEW r, NEW seen, NEW pc, Asked(r), pc = UnsureAt(r), CommandSteps(r, seen)[pc].ok
    PROVE  Remains(r)
<1>1. CASE r.cmd \notin Reviews \union {"claim_customer", "submit_order", "request_cancellation"}
  BY <1>1 DEF Remains
<1>2. CASE r.cmd = "claim_customer"
  <2>1. claim_customer(r, seen)[6].ok
    BY <1>2 DEF CommandSteps, UnsureAt, ClockRead, Reviews
  <2>2. /\ invitation[r.k].status = "pending" /\ invitation[r.k].target = r.actor
        /\ customer[r.k].status = "prospect"
    BY <2>1 DEF claim_customer, Reads
  <2> QED BY <1>2, <2>2 DEF Remains, Reviews
<1>3. CASE r.cmd = "submit_order"
  <2>1. submit_order(r, seen)[5].ok
    BY <1>3 DEF CommandSteps, UnsureAt, Reviews
  <2>2. SomeApprover(r).ok
    BY <2>1 DEF submit_order
  <2> QED BY <1>3, <2>2 DEF Remains, Reviews, SomeApprover
<1>4. CASE r.cmd = "approve_order"
  <2>1. approve_order(r, seen)[4].ok
    BY <1>4 DEF CommandSteps, UnsureAt, Reviews
  <2>2. Reviewer(r).ok
    BY <2>1 DEF approve_order
  <2> QED BY <1>4, <2>2 DEF Remains, Reviews, Reviewer, Reads
<1>5. CASE r.cmd = "reject_order"
  <2>1. reject_order(r, seen)[4].ok
    BY <1>5 DEF CommandSteps, UnsureAt, Reviews
  <2>2. Reviewer(r).ok
    BY <2>1 DEF reject_order
  <2> QED BY <1>5, <2>2 DEF Remains, Reviews, Reviewer, Reads
<1>6. CASE r.cmd = "approve_cancellation"
  <2>1. review_cancellation(r, seen, work[r.k].status \in {"draft", "approved"})[4].ok
    BY <1>6 DEF CommandSteps, UnsureAt, Reviews
  <2>2. Reviewer(r).ok
    BY <2>1 DEF review_cancellation
  <2> QED BY <1>6, <2>2 DEF Remains, Reviews, Reviewer, Reads
<1>7. CASE r.cmd = "reject_cancellation"
  <2>1. review_cancellation(r, seen, TRUE)[4].ok
    BY <1>7 DEF CommandSteps, UnsureAt, Reviews
  <2>2. Reviewer(r).ok
    BY <2>1 DEF review_cancellation
  <2> QED BY <1>7, <2>2 DEF Remains, Reviews, Reviewer, Reads
<1>8. CASE r.cmd = "request_cancellation"
  <2>1. request_cancellation(r, seen)[IF ByCustomer(r) THEN 5 ELSE 6].ok
    BY <1>8 DEF CommandSteps, UnsureAt, Reviews
  <2>2. SomeApprover(r).ok
    <3>1. CASE ByCustomer(r)
      BY <2>1, <3>1 DEF request_cancellation, ByCustomer
    <3>2. CASE ~ByCustomer(r)
      BY <2>1, <3>2 DEF request_cancellation, ByCustomer
    <3> QED BY <3>1, <3>2
  <2> QED BY <1>8, <2>2 DEF Remains, Reviews, SomeApprover
<1> QED BY <1>1, <1>2, <1>3, <1>4, <1>5, <1>6, <1>7, <1>8 DEF Reviews

LEMMA FoundFurther ==
    ASSUME NEW r, NEW seen, NEW pc \in Nat \ {0}, NEW held, NEW more, Asked(r),
           Found(r, seen, pc, held), held \subseteq more,
           CommandSteps(r, seen)[pc].ok, CommandSteps(r, seen)[pc].lock \subseteq more
    PROVE  Found(r, seen, pc + 1, more)
<1>1. UnsureAt(r) \in Nat
  BY DEF UnsureAt, ClockRead
<1>2. StepsHold(CommandSteps(r, seen), pc + 1, UnsureAt(r), more)
  BY DEF Found, StepsHold, Passed
<1>3. ASSUME pc + 1 > UnsureAt(r) PROVE Remains(r)
  <2>1. CASE pc > UnsureAt(r)
    BY <2>1 DEF Found
  <2>2. CASE pc = UnsureAt(r)
    BY <2>2, UncertainStepAsked
  <2> QED BY <1>1, <1>3, <2>1, <2>2
<1> QED BY <1>2, <1>3 DEF Found

-----------------------------------------------------------------------------
(* The invitations as the desk sees them *)

InvitationsTyped == invitation \in [Customers -> InvitationRow]
CustomersTyped == customer \in [Customers -> CustomerRow \union {NoCustomer}]

LEMMA SeenRow ==
    ASSUME InvitationsTyped, NEW c \in Customers
    PROVE  /\ ClaimedInTime(c) => InvitationsSeen[c] = [invitation[c] EXCEPT !.expired = FALSE]
           /\ ~ClaimedInTime(c) => InvitationsSeen[c] = invitation[c]
           /\ InvitationsSeen[c].status = invitation[c].status
           /\ InvitationsSeen[c].target = invitation[c].target
           /\ InvitationsSeen[c].branch = invitation[c].branch
<1>1. /\ invitation[c] \in InvitationRow
      /\ InvitationsSeen[c] = [invitation[c] EXCEPT !.expired = @ /\ ~ClaimedInTime(c)]
  BY DEF InvitationsTyped, InvitationsSeen
<1>2. ASSUME ClaimedInTime(c) PROVE InvitationsSeen[c] = [invitation[c] EXCEPT !.expired = FALSE]
  BY <1>1, <1>2
<1>3. ASSUME ~ClaimedInTime(c) PROVE InvitationsSeen[c] = invitation[c]
  BY <1>1, <1>3 DEF InvitationRow
<1> QED BY <1>1, <1>2, <1>3 DEF InvitationRow

LEMMA NextSeenRow ==
    ASSUME InvitationsTyped', NEW c \in Customers
    PROVE  /\ ClaimedInTime(c)' => InvitationsSeen'[c] = [invitation'[c] EXCEPT !.expired = FALSE]
           /\ ~ClaimedInTime(c)' => InvitationsSeen'[c] = invitation'[c]
           /\ InvitationsSeen'[c].status = invitation'[c].status
           /\ InvitationsSeen'[c].target = invitation'[c].target
           /\ InvitationsSeen'[c].branch = invitation'[c].branch
<1>1. /\ invitation'[c] \in InvitationRow
      /\ InvitationsSeen'[c] = [invitation'[c] EXCEPT !.expired = @ /\ ~ClaimedInTime(c)']
  BY DEF InvitationsTyped, InvitationsSeen
<1>2. ASSUME ClaimedInTime(c)' PROVE InvitationsSeen'[c] = [invitation'[c] EXCEPT !.expired = FALSE]
  BY <1>1, <1>2
<1>3. ASSUME ~ClaimedInTime(c)' PROVE InvitationsSeen'[c] = invitation'[c]
  BY <1>1, <1>3 DEF InvitationRow
<1> QED BY <1>1, <1>2, <1>3 DEF InvitationRow

LEMMA SeenIsTyped ==
    /\ InvitationsTyped => InvitationsSeen \in [Customers -> InvitationRow]
    /\ InvitationsTyped' => InvitationsSeen' \in [Customers -> InvitationRow]
<1>1. \A row \in InvitationRow : [row EXCEPT !.expired = FALSE] \in InvitationRow
  BY DEF InvitationRow
<1>2. ASSUME InvitationsTyped PROVE InvitationsSeen \in [Customers -> InvitationRow]
  <2>1. \A c \in Customers : InvitationsSeen[c] \in InvitationRow
    BY <1>1, <1>2, SeenRow DEF InvitationsTyped
  <2> QED BY <2>1 DEF InvitationsSeen
<1>3. ASSUME InvitationsTyped' PROVE InvitationsSeen' \in [Customers -> InvitationRow]
  <2>1. \A c \in Customers : InvitationsSeen'[c] \in InvitationRow
    BY <1>1, <1>3, NextSeenRow DEF InvitationsTyped
  <2> QED BY <2>1 DEF InvitationsSeen
<1> QED BY <1>2, <1>3

(* What the desk sees of an invitation depends on its row and on the claims. *)
LEMMA SeenStays ==
    ASSUME InvitationsTyped, InvitationsTyped',
           NEW c \in Customers, invitation'[c] = invitation[c],
           (ClaimedInTime(c)' <=> ClaimedInTime(c)) \/ invitation[c].expired = FALSE
    PROVE  InvitationsSeen'[c] = InvitationsSeen[c]
<1>1. CASE ClaimedInTime(c)' <=> ClaimedInTime(c)
  <2>1. ASSUME ClaimedInTime(c), ClaimedInTime(c)' PROVE InvitationsSeen'[c] = InvitationsSeen[c]
    <3>1. PICK row : row = [invitation[c] EXCEPT !.expired = FALSE]
      OBVIOUS
    <3>2. row = [invitation'[c] EXCEPT !.expired = FALSE]
      BY <3>1
    <3>3. InvitationsSeen[c] = row
      BY <2>1, <3>1, SeenRow
    <3>4. InvitationsSeen'[c] = row
      BY <2>1, <3>2, NextSeenRow
    <3> QED BY <3>3, <3>4
  <2>2. ASSUME ~ClaimedInTime(c), ~ClaimedInTime(c)' PROVE InvitationsSeen'[c] = InvitationsSeen[c]
    BY <2>2, SeenRow, NextSeenRow
  <2> QED BY <1>1, <2>1, <2>2
<1>2. CASE invitation[c].expired = FALSE
  <2>1. [invitation[c] EXCEPT !.expired = FALSE] = invitation[c]
    BY <1>2 DEF InvitationsTyped, InvitationRow
  <2> QED BY <2>1, SeenRow, NextSeenRow
<1> QED BY <1>1, <1>2
-----------------------------------------------------------------------------
(* Who has claimed in time *)

Claims(t, k) ==
    /\ Running(t) /\ txn[t].req.cmd = "claim_customer" /\ txn[t].req.k = k
    /\ txn[t].pc > ClockRead

LEMMA ClaimsStay ==
    ASSUME NEW t \in Txns, \A u \in Txns : u # t => txn'[u] = txn[u],
           NEW k, Claims(t, k)' <=> Claims(t, k)
    PROVE  ClaimedInTime(k)' <=> ClaimedInTime(k)
<1>1. /\ ClaimedInTime(k) <=> \E u \in Txns : Claims(u, k)
      /\ ClaimedInTime(k)' <=> \E u \in Txns : Claims(u, k)'
  BY DEF ClaimedInTime, Claims
<1>2. \A u \in Txns : u # t => (Claims(u, k)' <=> Claims(u, k))
  BY DEF Claims, Running
<1> QED BY <1>1, <1>2

(* Every invitation looks as it did, if none is written and none is claimed that  *)
(* has run out.                                                                 *)
LEMMA SeenUnchanged ==
    ASSUME InvitationsTyped, invitation' = invitation,
           NEW t \in Txns, \A u \in Txns : u # t => txn'[u] = txn[u],
           \A k \in Customers : (Claims(t, k)' <=> Claims(t, k)) \/ invitation[k].expired = FALSE
    PROVE  InvitationsSeen' = InvitationsSeen
<1>1. InvitationsTyped'
  BY DEF InvitationsTyped
<1>2. \A k \in Customers : (ClaimedInTime(k)' <=> ClaimedInTime(k)) \/ invitation[k].expired = FALSE
  BY ClaimsStay
<1>3. \A k \in Customers : InvitationsSeen'[k] = InvitationsSeen[k]
  BY <1>1, <1>2, SeenStays
<1> QED BY <1>3 DEF InvitationsSeen

(* What another transaction may do: nothing that these locks protect. *)
LEMMA OthersAreProtected ==
    ASSUME KeyInv, TypeOK, NEW t \in Txns, Covered(locks[t]), NEW u \in Txns, u # t
    PROVE  Protected(locks[u])
<1>1. \A l \in locks[t], m \in locks[u] : l.row = m.row => ~Conflict(l.mode, m.mode)
  BY DEF KeyInv, LocksExclude
<1>2. \A mine, held : /\ mine = locks[t] /\ Covered(mine)
                      /\ \A l \in mine, m \in held : l.row = m.row => ~Conflict(l.mode, m.mode)
                      => Protected(held)
  BY CoveredIsNotProtected DEF KeyInv
<1> QED BY <1>1, <1>2

-----------------------------------------------------------------------------
(* The invariant *)

FindingsHold ==
    \A t \in Txns : Running(t) => Found(txn[t].req, txn[t].seen, txn[t].pc, locks[t])

RefInv == KeyInv /\ TypeOK /\ P!DeskInv /\ FindingsHold

DeskStep == P!Next \/ UNCHANGED <<branch, grants, customer, InvitationsSeen, advisor, work>>

LEMMA DeskKeepsItsInvariant ==
    ASSUME RefInv, DeskStep, InvitationsTyped'
    PROVE  TypeOK' /\ WorkIsAtHome' /\ P!DeskInv'
<1>1. P!DeskInv'
  BY DeskConstants, P!DeskInvNext DEF RefInv, DeskStep, P!tables
<1>2. TypeOK'
  BY <1>1
  DEF P!DeskInv, P!TypeOK, TypeOK, InvitationsTyped, Members, P!Members, CustomerRow,
      P!CustomerRow,
      NoCustomer, P!NoCustomer, CustomerStatuses, P!CustomerStatuses, NoAdvisor, P!NoAdvisor,
      WorkRow, P!WorkRow, OpenStatuses, P!OpenStatuses
<1>3. \A k \in Customers : /\ InvitationsSeen'[k].status = invitation'[k].status
                           /\ InvitationsSeen'[k].branch = invitation'[k].branch
  BY NextSeenRow
<1>4. WorkIsAtHome'
  BY <1>1, <1>3
  DEF P!DeskInv, P!WorkIsAtHome, WorkIsAtHome, OpenWork, P!OpenWork, Exists, P!Exists,
      NoCustomer, P!NoCustomer, OpenStatuses, P!OpenStatuses, NoAdvisor, P!NoAdvisor
<1> QED BY <1>1, <1>2, <1>4

(* A transaction that is not at work keeps its findings. *)
LEMMA FindingsStay ==
    ASSUME RefInv, WorkIsAtHome', NEW u \in Txns, Running(u), Protected(locks[u]),
           txn'[u] = txn[u], locks'[u] = locks[u]
    PROVE  Found(txn[u].req, txn[u].seen, txn[u].pc, locks[u])'
<1> PICK r, seen, pc, held :
        r = txn[u].req /\ seen = txn[u].seen /\ pc = txn[u].pc /\ held = locks[u]
  OBVIOUS
<1>1. Asked(r) /\ pc \in Nat
  BY DEF RefInv, KeyInv, TxnsOK, RequestsOK, Asked
<1>2. Found(r, seen, pc, held) /\ Protected(held) /\ TypeOK
  BY DEF RefInv, FindingsHold
<1>3. Found(r, seen, pc, held)'
  BY <1>1, <1>2, FoundStays
<1> QED BY <1>3

-----------------------------------------------------------------------------
(* What each step is for the desk *)

(* An invitation that has run out is the one it was, but for that. *)
LEMMA RunOut ==
    ASSUME NEW old \in InvitationRow, NEW new \in InvitationRow,
           new.status = old.status, new.target = old.target, new.branch = old.branch, new.expired
    PROVE  [old EXCEPT !.expired = TRUE] = new
BY DEF InvitationRow

LEMMA SameInvitation ==
    ASSUME NEW old \in InvitationRow, NEW new \in InvitationRow,
           new.status = old.status, new.target = old.target,
           new.branch = old.branch, ~old.expired, ~new.expired
    PROVE  new = old
BY DEF InvitationRow

LEMMA OneRunsOut ==
    ASSUME NEW old \in [Customers -> InvitationRow], NEW new \in [Customers -> InvitationRow],
           NEW k \in Customers, \A c \in Customers : c # k => new[c] = old[c],
           new[k].status = old[k].status, new[k].target = old[k].target,
           new[k].branch = old[k].branch, new[k].expired
    PROVE  new = [old EXCEPT ![k].expired = TRUE]
<1>1. \A row, out : row \in InvitationRow /\ out \in InvitationRow /\ out.status = row.status
                      /\ out.target = row.target /\ out.branch = row.branch /\ out.expired
                      => [row EXCEPT !.expired = TRUE] = out
  BY RunOut
<1>2. [old[k] EXCEPT !.expired = TRUE] = new[k]
  BY <1>1
<1>3. \A row : row = [old[k] EXCEPT !.expired = TRUE] =>
                 [old EXCEPT ![k] = row] = [old EXCEPT ![k].expired = TRUE]
  OBVIOUS
<1>4. [old EXCEPT ![k] = new[k]] = [old EXCEPT ![k].expired = TRUE]
  BY <1>2, <1>3
<1>5. [old EXCEPT ![k] = new[k]] = new
  OBVIOUS
<1> QED BY <1>4, <1>5

LEMMA SeenRunsOut ==
    ASSUME InvitationsTyped, InvitationsTyped', NEW k \in Customers,
           \A c \in Customers : c # k => InvitationsSeen'[c] = InvitationsSeen[c],
           InvitationsSeen'[k].status = InvitationsSeen[k].status,
           InvitationsSeen'[k].target = InvitationsSeen[k].target,
           InvitationsSeen'[k].branch = InvitationsSeen[k].branch, InvitationsSeen'[k].expired
    PROVE  InvitationsSeen' = [InvitationsSeen EXCEPT ![k].expired = TRUE]
<1>1. PICK old : old = InvitationsSeen
  OBVIOUS
<1>2. PICK new : new = InvitationsSeen'
  OBVIOUS
<1>3. old \in [Customers -> InvitationRow] /\ new \in [Customers -> InvitationRow]
  BY <1>1, <1>2, SeenIsTyped
<1>4. /\ \A c \in Customers : c # k => new[c] = old[c]
      /\ new[k].status = old[k].status /\ new[k].target = old[k].target
      /\ new[k].branch = old[k].branch /\ new[k].expired
  BY <1>1, <1>2
<1>5. new = [old EXCEPT ![k].expired = TRUE]
  BY <1>3, <1>4, OneRunsOut
<1> QED BY <1>1, <1>2, <1>5

(* What a transaction does before it commits: a claim in time may begin to count, *)
(* or come to nothing, in which case its invitation may have run out meanwhile.   *)
LEMMA SeenMoves ==
    ASSUME RefInv, NEW t \in Txns, \A u \in Txns : u # t => txn'[u] = txn[u],
           UNCHANGED <<branch, grants, customer, invitation, advisor, work>>,
           \A k \in Customers : Claims(t, k)' => Claims(t, k) \/ invitation[k].expired = FALSE
    PROVE  DeskStep
<1>4. InvitationsTyped /\ InvitationsTyped'
  BY DEF RefInv, TypeOK, InvitationsTyped
<1>5. CASE \A k \in Customers : Claims(t, k) => Claims(t, k)' \/ invitation[k].expired = FALSE
  <2>1. InvitationsSeen' = InvitationsSeen
    BY <1>4, <1>5, SeenUnchanged
  <2> QED BY <2>1 DEF DeskStep
<1>6. ASSUME NEW k \in Customers, Claims(t, k), ~Claims(t, k)', invitation[k].expired # FALSE
      PROVE  DeskStep
  <2> PICK r, seen, pc, held :
          r = txn[t].req /\ seen = txn[t].seen /\ pc = txn[t].pc /\ held = locks[t]
    OBVIOUS
  <2>1. r.cmd = "claim_customer" /\ r.k = k /\ pc > ClockRead /\ Found(r, seen, pc, held)
    BY <1>6 DEF Claims, RefInv, FindingsHold
  <2>2. invitation[k].status = "pending"
    BY <2>1 DEF Found, Remains, UnsureAt, Reviews
  <2>3. \A c \in Customers :
           c # k => (ClaimedInTime(c)' <=> ClaimedInTime(c)) \/ invitation[c].expired = FALSE
    <3>1. \A c \in Customers : c # k => ~Claims(t, c)
      BY <2>1 DEF Claims
    <3> QED BY <3>1, ClaimsStay
  <2>4. \A c \in Customers : c # k => InvitationsSeen'[c] = InvitationsSeen[c]
    BY <1>4, <2>3, SeenStays
  <2>5. ClaimedInTime(k)
    BY <1>6 DEF ClaimedInTime, Claims
  <2>6. CASE ClaimedInTime(k)'
    <3>1. InvitationsSeen'[k] = InvitationsSeen[k]
      BY <1>4, <2>5, <2>6, SeenStays
    <3>2. InvitationsSeen' = InvitationsSeen
      BY <2>4, <3>1 DEF InvitationsSeen
    <3> QED BY <3>2 DEF DeskStep
  <2>7. CASE ~ClaimedInTime(k)'
    <3>1. InvitationsSeen[k] = [invitation[k] EXCEPT !.expired = FALSE] /\ InvitationsSeen'[k] = invitation[k]
      BY <1>4, <2>5, <2>7, SeenRow, NextSeenRow
    <3>2. /\ InvitationsSeen[k].status = "pending" /\ ~InvitationsSeen[k].expired
          /\ InvitationsSeen'[k].expired
          /\ InvitationsSeen'[k].status = InvitationsSeen[k].status
          /\ InvitationsSeen'[k].target = InvitationsSeen[k].target
          /\ InvitationsSeen'[k].branch = InvitationsSeen[k].branch
      BY <1>4, <1>6, <2>2, <3>1 DEF InvitationsTyped, InvitationRow
    <3>3. InvitationsSeen' = [InvitationsSeen EXCEPT ![k].expired = TRUE]
      BY <1>4, <2>4, <3>2, SeenRunsOut
    <3>4. P!InvitationRunsOut(k)
      BY <3>2, <3>3 DEF P!InvitationRunsOut
    <3> QED BY <3>4 DEF DeskStep, P!Next, P!CustomerCommands
  <2> QED BY <2>6, <2>7
<1> QED BY <1>5, <1>6

LEMMA BeginStep ==
    ASSUME RefInv, NEW t \in Txns, NEW r \in asked, Begin(t, r)
    PROVE  DeskStep /\ RefInv'
<1>1. /\ ~Running(t)
      /\ txn' = [txn EXCEPT ![t] = [req |-> r, pc |-> 1, seen |-> Preview(r)]]
      /\ UNCHANGED <<tables, asked, locks, times>>
  BY DEF Begin
<1>2. /\ \A u \in Txns : u # t => txn'[u] = txn[u] /\ locks'[u] = locks[u]
      /\ txn'[t].req = r /\ txn'[t].pc = 1 /\ txn'[t].seen = Preview(r)
  BY <1>1 DEF RefInv, KeyInv, TxnsOK
<1>3. \A k \in Customers : ~Claims(t, k)'
  BY <1>1, <1>2 DEF Claims, ClockRead
<1>4. /\ InvitationsTyped /\ InvitationsTyped'
      /\ UNCHANGED <<branch, grants, customer, invitation, advisor, work>>
  BY <1>1 DEF RefInv, TypeOK, InvitationsTyped, tables
<1>6. DeskStep
  BY <1>2, <1>3, <1>4, SeenMoves
<1>7. TypeOK' /\ WorkIsAtHome' /\ P!DeskInv'
  BY <1>4, <1>6, DeskKeepsItsInvariant
<1>8. \A held : Protected(held)
  BY <1>1, <1>4, NothingMoves
<1>9. FindingsHold'
  <2> SUFFICES ASSUME NEW u \in Txns, Running(u)'
               PROVE  Found(txn[u].req, txn[u].seen, txn[u].pc, locks[u])'
    BY DEF FindingsHold
  <2>1. CASE u # t
    BY <1>2, <1>7, <1>8, <2>1, FindingsStay DEF Running
  <2>2. CASE u = t
    <3> PICK seen, held : seen = txn'[t].seen /\ held = locks'[t]
      OBVIOUS
    <3>1. Asked(r)
      BY DEF RefInv, KeyInv, RequestsOK, Asked
    <3>2. Found(r, seen, 1, held)
      BY FoundAtStart
    <3>3. Found(r, seen, 1, held)'
      BY <1>7, <1>8, <3>1, <3>2, FoundStays DEF RefInv
    <3> QED BY <1>2, <2>2, <3>3
  <2> QED BY <2>1, <2>2
<1> QED BY <1>6, <1>7, <1>9, KeyInvBegin DEF RefInv

LEMMA StepStep ==
    ASSUME RefInv, NEW t \in Txns, Step(t)
    PROVE  DeskStep /\ RefInv'
<1> PICK r, seen, pc, held :
        r = txn[t].req /\ seen = txn[t].seen /\ pc = txn[t].pc /\ held = locks[t]
  OBVIOUS
<1> DEFINE step == CommandSteps(r, seen)[pc]
<1>1. /\ Running(t) /\ step.ok
      /\ locks' = [locks EXCEPT ![t] = @ \union step.lock]
      /\ txn' = [txn EXCEPT ![t].pc = @ + 1]
      /\ UNCHANGED <<tables, asked, times>>
  BY DEF Step, Steps
<1>2. /\ \A u \in Txns : u # t => txn'[u] = txn[u] /\ locks'[u] = locks[u]
      /\ txn'[t].req = r /\ txn'[t].pc = pc + 1 /\ txn'[t].seen = seen
      /\ locks'[t] = held \union step.lock /\ pc \in Nat \ {0}
  <2>1. txn[t] = [req |-> r, pc |-> pc, seen |-> seen] /\ pc \in Nat \ {0}
    BY <1>1 DEF RefInv, KeyInv, TxnsOK
  <2>2. DOMAIN txn = Txns /\ DOMAIN locks = Txns
    BY DEF RefInv, KeyInv, TxnsOK, RowsOK
  <2>3. txn'[t] = [req |-> r, pc |-> pc + 1, seen |-> seen]
    BY <1>1, <2>1, <2>2
  <2> QED BY <1>1, <2>1, <2>2, <2>3
<1>3. Asked(r) /\ Found(r, seen, pc, held)
  BY <1>1 DEF RefInv, KeyInv, TxnsOK, RequestsOK, Asked, FindingsHold
<1>4. /\ InvitationsTyped /\ InvitationsTyped'
      /\ UNCHANGED <<branch, grants, customer, invitation, advisor, work>>
  BY <1>1 DEF RefInv, TypeOK, InvitationsTyped, tables
<1>5. \A k \in Customers : Claims(t, k)' => Claims(t, k) \/ invitation[k].expired = FALSE
  <2> SUFFICES ASSUME NEW k \in Customers, Claims(t, k)', ~Claims(t, k)
               PROVE  invitation[k].expired = FALSE
    OBVIOUS
  <2>1. r.cmd = "claim_customer" /\ r.k = k /\ pc = 6
    BY <1>1, <1>2 DEF Claims, ClockRead
  <2>2. claim_customer(r, seen)[6].ok
    BY <1>1, <2>1 DEF CommandSteps
  <2>3. ~invitation[k].expired
    BY <2>1, <2>2 DEF claim_customer, Reads
  <2> QED BY <1>4, <2>3 DEF InvitationsTyped, InvitationRow
<1>7. DeskStep
  BY <1>2, <1>4, <1>5, SeenMoves
<1>8. TypeOK' /\ WorkIsAtHome' /\ P!DeskInv'
  BY <1>4, <1>7, DeskKeepsItsInvariant
<1>9. \A h : Protected(h)
  BY <1>1, <1>4, NothingMoves
<1>10. FindingsHold'
  <2> SUFFICES ASSUME NEW u \in Txns, Running(u)'
               PROVE  Found(txn[u].req, txn[u].seen, txn[u].pc, locks[u])'
    BY DEF FindingsHold
  <2>1. CASE u # t
    BY <1>2, <1>8, <1>9, <2>1, FindingsStay DEF Running
  <2>2. CASE u = t
    <3> PICK more, next : more = held \union step.lock /\ next = pc + 1
      OBVIOUS
    <3>1. Found(r, seen, next, more)
      BY <1>1, <1>2, <1>3, FoundFurther
    <3>2. Found(r, seen, next, more)'
      BY <1>2, <1>3, <1>8, <1>9, <3>1, FoundStays DEF RefInv
    <3> QED BY <1>2, <2>2, <3>2
  <2> QED BY <2>1, <2>2
<1> QED BY <1>7, <1>8, <1>10, KeyInvStep DEF RefInv

LEMMA RollbackStep ==
    ASSUME RefInv, NEW t \in Txns, Rollback(t)
    PROVE  DeskStep /\ RefInv'
<1>1. /\ Running(t) /\ txn' = [txn EXCEPT ![t] = Idle] /\ locks' = [locks EXCEPT ![t] = {}]
      /\ UNCHANGED <<tables, asked, times>>
  BY DEF Rollback
<1>2. \A u \in Txns : u # t => txn'[u] = txn[u] /\ locks'[u] = locks[u]
  BY <1>1 DEF RefInv, KeyInv, TxnsOK, RowsOK
<1>3. txn'[t] = Idle
  BY <1>1 DEF RefInv, KeyInv, TxnsOK
<1>4. /\ InvitationsTyped /\ InvitationsTyped'
      /\ UNCHANGED <<branch, grants, customer, invitation, advisor, work>>
  BY <1>1 DEF RefInv, TypeOK, InvitationsTyped, tables
<1>5. DeskStep
  <2>1. \A k \in Customers : ~Claims(t, k)'
    BY <1>3 DEF Claims, Running
  <2> QED BY <1>2, <1>4, <2>1, SeenMoves
<1>6. TypeOK' /\ WorkIsAtHome' /\ P!DeskInv'
  BY <1>4, <1>5, DeskKeepsItsInvariant
<1>7. \A h : Protected(h)
  BY <1>1, <1>4, NothingMoves
<1>8. FindingsHold'
  <2> SUFFICES ASSUME NEW u \in Txns, Running(u)'
               PROVE  Found(txn[u].req, txn[u].seen, txn[u].pc, locks[u])'
    BY DEF FindingsHold
  <2>1. u # t
    BY <1>3 DEF Running
  <2> QED BY <1>2, <1>6, <1>7, <2>1, FindingsStay DEF Running
<1> QED BY <1>5, <1>6, <1>8, KeyInvRollback DEF RefInv

LEMMA ExpiresStep ==
    ASSUME RefInv, NEW k \in Customers, InvitationExpires(k)
    PROVE  DeskStep /\ RefInv'
<1>1. /\ invitation[k].status = "pending" /\ ~invitation[k].expired
      /\ invitation' = [invitation EXCEPT ![k].expired = TRUE]
      /\ UNCHANGED <<branch, grants, customer, advisor, work, asked, txn, locks, times>>
  BY DEF InvitationExpires, InvitationRunsOut
<1>2. /\ InvitationsTyped
      /\ \A c \in Customers : c # k => invitation'[c] = invitation[c]
      /\ invitation'[k] = [invitation[k] EXCEPT !.expired = TRUE]
  BY <1>1 DEF RefInv, TypeOK, InvitationsTyped
<1>3. InvitationsTyped'
  BY <1>1, <1>2 DEF InvitationsTyped, InvitationRow
<1>4. \A c \in Customers : /\ invitation'[c].status = invitation[c].status
                           /\ invitation'[c].target = invitation[c].target
                           /\ invitation'[c].branch = invitation[c].branch
  <2>1. /\ invitation'[k].status = invitation[k].status
        /\ invitation'[k].target = invitation[k].target
        /\ invitation'[k].branch = invitation[k].branch
    BY <1>2 DEF InvitationsTyped, InvitationRow
  <2> QED BY <1>2, <2>1
<1>5. \A c : ClaimedInTime(c)' <=> ClaimedInTime(c)
  BY <1>1 DEF ClaimedInTime, Running
<1>6. \A c \in Customers : c # k => InvitationsSeen'[c] = InvitationsSeen[c]
  BY <1>2, <1>3, <1>5, SeenStays
<1>7. DeskStep
  <2>1. /\ InvitationsSeen'[k].status = InvitationsSeen[k].status
        /\ InvitationsSeen'[k].target = InvitationsSeen[k].target
        /\ InvitationsSeen'[k].branch = InvitationsSeen[k].branch
        /\ InvitationsSeen[k].status = "pending" /\ ~InvitationsSeen[k].expired
    <3>1. InvitationsSeen[k] = invitation[k] \/ InvitationsSeen[k] = [invitation[k] EXCEPT !.expired = FALSE]
      BY <1>2, SeenRow
    <3>2. ~InvitationsSeen[k].expired
      BY <1>1, <1>2, <3>1 DEF InvitationsTyped, InvitationRow
    <3> QED BY <1>1, <1>2, <1>3, <1>4, <3>2, SeenRow, NextSeenRow
  <2>2. CASE ClaimedInTime(k)
    <3>1. ~InvitationsSeen'[k].expired
      <4>1. InvitationsSeen'[k] = [invitation'[k] EXCEPT !.expired = FALSE]
        BY <1>3, <1>5, <2>2, NextSeenRow
      <4> QED BY <1>3, <4>1 DEF InvitationsTyped, InvitationRow
    <3>2. InvitationsSeen'[k] = InvitationsSeen[k]
      <4>1. InvitationsSeen[k] \in InvitationRow /\ InvitationsSeen'[k] \in InvitationRow
        BY <1>2, <1>3, SeenIsTyped
      <4> QED BY <2>1, <3>1, <4>1, SameInvitation
    <3>3. InvitationsSeen' = InvitationsSeen
      BY <1>6, <3>2 DEF InvitationsSeen
    <3> QED BY <1>1, <3>3 DEF DeskStep
  <2>3. CASE ~ClaimedInTime(k)
    <3>1. InvitationsSeen'[k].expired
      <4>1. InvitationsSeen'[k] = invitation'[k]
        BY <1>3, <1>5, <2>3, NextSeenRow
      <4> QED BY <1>2, <4>1 DEF InvitationsTyped, InvitationRow
    <3>2. InvitationsSeen' = [InvitationsSeen EXCEPT ![k].expired = TRUE]
      BY <1>2, <1>3, <1>6, <2>1, <3>1, SeenRunsOut
    <3>3. P!InvitationRunsOut(k)
      BY <1>1, <2>1, <3>2 DEF P!InvitationRunsOut
    <3> QED BY <3>3 DEF DeskStep, P!Next, P!CustomerCommands
  <2> QED BY <2>2, <2>3
<1>8. TypeOK' /\ WorkIsAtHome' /\ P!DeskInv'
  BY <1>3, <1>7, DeskKeepsItsInvariant
<1>9. \A held : Protected(held)
  BY <1>1, <1>4, NothingMoves
<1>10. FindingsHold'
  <2> SUFFICES ASSUME NEW u \in Txns, Running(u)'
               PROVE  Found(txn[u].req, txn[u].seen, txn[u].pc, locks[u])'
    BY DEF FindingsHold
  <2> QED BY <1>1, <1>8, <1>9, FindingsStay DEF Running
<1> QED BY <1>7, <1>8, <1>10, KeyInvExpires DEF RefInv

-----------------------------------------------------------------------------
(* What a commit shows of the invitations *)
SeenWritten(r) ==
    /\ \A c \in Customers : /\ InvitationsSeen[c].status = invitation[c].status
                            /\ InvitationsSeen[c].target = invitation[c].target
                            /\ InvitationsSeen[c].branch = invitation[c].branch
    /\ r.cmd = "issue_customer_claim_invitation" =>
         InvitationsSeen' = [InvitationsSeen EXCEPT ![r.k] = Issued(r.k, r.p)]
    /\ r.cmd = "revoke_customer_claim_invitation" =>
         InvitationsSeen' = [InvitationsSeen EXCEPT ![r.k].status = "revoked"]
    /\ r.cmd = "claim_customer" =>
         /\ ~InvitationsSeen[r.k].expired
         /\ InvitationsSeen' = [InvitationsSeen EXCEPT ![r.k].status = "claimed", ![r.k].expired = FALSE]
    /\ r.cmd \notin {"issue_customer_claim_invitation", "revoke_customer_claim_invitation",
                     "claim_customer"} => InvitationsSeen' = InvitationsSeen

(* A commit is a command of the desk. *)
LEMMA CommitIsACommand ==
    ASSUME NEW held, NEW r, NEW seen, TypeOK, WorkIsAtHome, Commits(r, held), SeenWritten(r),
           AllPassed(CommandSteps(r, seen), UnsureAt(r), held), Remains(r)
    PROVE  Covered(held) /\ P!Next
<1>1. /\ r.cmd \in Commands /\ r.k \in Customers /\ r.b \in Branches
      /\ r.cmd = "claim_customer" => r.actor \in Accounts
      /\ r.cmd = "issue_customer_claim_invitation" => r.p \in Accounts
      /\ r.cmd = "assign_customer_advisor" => r.p \in Advisors
      /\ r.cmd = "transfer_customer_branch" => r.p \in Advisors \union {Nobody}
      /\ r.cmd \in {"create_branch_role_grant", "revoke_branch_role_grant"} => r.p \in P!Members
  BY DEF Commits, Asked, RequestOK, Members, P!Members
<1>2. /\ \A c \in Customers : /\ InvitationsSeen[c].status = invitation[c].status
                              /\ InvitationsSeen[c].target = invitation[c].target
                              /\ InvitationsSeen[c].branch = invitation[c].branch
      /\ InvitationsSeen[r.k].status = invitation[r.k].status
      /\ InvitationsSeen[r.k].target = invitation[r.k].target
      /\ InvitationsSeen[r.k].branch = invitation[r.k].branch
  BY <1>1 DEF SeenWritten
<1>3. CASE r.cmd = "create_customer"
  <2>1. AllPassed(create_customer(r), 0, held)
    BY <1>3 DEF CommandSteps, UnsureAt, Reviews
  <2>2. InvitationsSeen' = InvitationsSeen
    BY <1>3 DEF SeenWritten
  <2>3. Covered(held) /\ P!create_customer(r.k, r.b)
    BY <1>3, <1>2, <2>1, <2>2, CreationCommits
  <2> QED BY <1>3, <1>1, <2>3 DEF P!Next, P!CustomerCommands
<1>4. CASE r.cmd = "issue_customer_claim_invitation"
  <2>1. AllPassed(issue_customer_claim_invitation(r), 0, held)
    BY <1>4 DEF CommandSteps, UnsureAt, Reviews
  <2>2. InvitationsSeen' = [InvitationsSeen EXCEPT ![r.k] = Issued(r.k, r.p)]
    BY <1>4 DEF SeenWritten
  <2>3. Covered(held) /\ P!issue_customer_claim_invitation(r.k, r.p)
    BY <1>4, <1>2, <2>1, <2>2, InvitationCommits
  <2> QED BY <1>4, <1>1, <2>3 DEF P!Next, P!CustomerCommands
<1>5. CASE r.cmd = "revoke_customer_claim_invitation"
  <2>1. AllPassed(revoke_customer_claim_invitation(r), 0, held)
    BY <1>5 DEF CommandSteps, UnsureAt, Reviews
  <2>2. InvitationsSeen' = [InvitationsSeen EXCEPT ![r.k].status = "revoked"]
    BY <1>5 DEF SeenWritten
  <2>3. Covered(held) /\ P!revoke_customer_claim_invitation(r.k)
    BY <1>5, <1>2, <2>1, <2>2, RevocationCommits
  <2> QED BY <1>5, <1>1, <2>3 DEF P!Next, P!CustomerCommands
<1>6. CASE r.cmd = "claim_customer"
  <2>1. AllPassed(claim_customer(r, seen), ClockRead, held)
    BY <1>6 DEF CommandSteps, UnsureAt, Reviews
  <2>2. /\ ~InvitationsSeen[r.k].expired
        /\ InvitationsSeen' = [InvitationsSeen EXCEPT ![r.k].status = "claimed", ![r.k].expired = FALSE]
    BY <1>6 DEF SeenWritten
  <2>3. Covered(held) /\ P!claim_customer(r.k, r.actor)
    BY <1>6, <1>2, <2>1, <2>2, ClaimCommits
  <2> QED BY <1>6, <1>1, <2>3 DEF P!Next, P!CustomerCommands
<1>7. CASE r.cmd = "activate_customer"
  <2>1. AllPassed(activate_customer(r), 0, held)
    BY <1>7 DEF CommandSteps, UnsureAt, Reviews
  <2>2. InvitationsSeen' = InvitationsSeen
    BY <1>7 DEF SeenWritten
  <2>3. Covered(held) /\ P!activate_customer(r.k)
    BY <1>7, <1>2, <2>1, <2>2, ActivationCommits
  <2> QED BY <1>7, <1>1, <2>3 DEF P!Next, P!CustomerCommands
<1>8. CASE r.cmd = "deactivate_customer"
  <2>1. AllPassed(deactivate_customer(r), 0, held)
    BY <1>8 DEF CommandSteps, UnsureAt, Reviews
  <2>2. InvitationsSeen' = InvitationsSeen
    BY <1>8 DEF SeenWritten
  <2>3. Covered(held) /\ P!deactivate_customer(r.k)
    BY <1>8, <1>2, <2>1, <2>2, DeactivationCommits
  <2> QED BY <1>8, <1>1, <2>3 DEF P!Next, P!CustomerCommands
<1>9. CASE r.cmd = "withdraw_consent"
  <2>1. AllPassed(withdraw_consent(r), 0, held)
    BY <1>9 DEF CommandSteps, UnsureAt, Reviews
  <2>2. InvitationsSeen' = InvitationsSeen
    BY <1>9 DEF SeenWritten
  <2>3. Covered(held) /\ P!withdraw_consent(r.k)
    BY <1>9, <1>2, <2>1, <2>2, WithdrawalCommits
  <2> QED BY <1>9, <1>1, <2>3 DEF P!Next, P!CustomerCommands
<1>10. CASE r.cmd = "assign_customer_advisor"
  <2>1. AllPassed(assign_customer_advisor(r), 0, held)
    BY <1>10 DEF CommandSteps, UnsureAt, Reviews
  <2>2. InvitationsSeen' = InvitationsSeen
    BY <1>10 DEF SeenWritten
  <2>3. Covered(held) /\ P!assign_customer_advisor(r.k, r.p)
    BY <1>10, <1>2, <2>1, <2>2, AssignmentCommits
  <2> QED BY <1>10, <1>1, <2>3 DEF P!Next, P!CustomerCommands
<1>11. CASE r.cmd = "end_customer_advisor_assignment"
  <2>1. AllPassed(end_customer_advisor_assignment(r), 0, held)
    BY <1>11 DEF CommandSteps, UnsureAt, Reviews
  <2>2. InvitationsSeen' = InvitationsSeen
    BY <1>11 DEF SeenWritten
  <2>3. Covered(held) /\ P!end_customer_advisor_assignment(r.k)
    BY <1>11, <1>2, <2>1, <2>2, UnassignmentCommits
  <2> QED BY <1>11, <1>1, <2>3 DEF P!Next, P!CustomerCommands
<1>12. CASE r.cmd = "transfer_customer_branch"
  <2>1. AllPassed(transfer_customer_branch(r), 0, held)
    BY <1>12 DEF CommandSteps, UnsureAt, Reviews
  <2>2. InvitationsSeen' = InvitationsSeen
    BY <1>12 DEF SeenWritten
  <2>3. Covered(held) /\ P!transfer_customer_branch(r.k, r.b, r.p)
    BY <1>12, <1>2, <2>1, <2>2, TransferCommits
  <2> QED BY <1>12, <1>1, <2>3 DEF P!Next, P!CustomerCommands
<1>13. CASE r.cmd = "deactivate_branch"
  <2>1. AllPassed(deactivate_branch(r), 0, held)
    BY <1>13 DEF CommandSteps, UnsureAt, Reviews
  <2>2. InvitationsSeen' = InvitationsSeen
    BY <1>13 DEF SeenWritten
  <2>3. Covered(held) /\ P!deactivate_branch(r.b)
    BY <1>13, <1>2, <2>1, <2>2, BranchDeactivationCommits
  <2> QED BY <1>13, <1>1, <2>3 DEF P!Next, P!BranchCommands
<1>14. CASE r.cmd = "close_branch"
  <2>1. AllPassed(close_branch(r), 0, held)
    BY <1>14 DEF CommandSteps, UnsureAt, Reviews
  <2>2. InvitationsSeen' = InvitationsSeen
    BY <1>14 DEF SeenWritten
  <2>3. Covered(held) /\ P!close_branch(r.b)
    BY <1>14, <1>2, <2>1, <2>2, ClosureCommits
  <2> QED BY <1>14, <1>1, <2>3 DEF P!Next, P!BranchCommands
<1>15. CASE r.cmd = "create_branch_role_grant"
  <2>1. AllPassed(create_branch_role_grant(r), 0, held)
    BY <1>15 DEF CommandSteps, UnsureAt, Reviews
  <2>2. InvitationsSeen' = InvitationsSeen
    BY <1>15 DEF SeenWritten
  <2>3. Covered(held) /\ P!create_branch_role_grant(r.p, r.b)
    BY <1>15, <1>2, <2>1, <2>2, GrantCommits
  <2> QED BY <1>15, <1>1, <2>3 DEF P!Next, P!BranchCommands
<1>16. CASE r.cmd = "revoke_branch_role_grant"
  <2>1. AllPassed(revoke_branch_role_grant(r), 0, held)
    BY <1>16 DEF CommandSteps, UnsureAt, Reviews
  <2>2. InvitationsSeen' = InvitationsSeen
    BY <1>16 DEF SeenWritten
  <2>3. Covered(held) /\ P!revoke_branch_role_grant(r.p, r.b)
    BY <1>16, <1>2, <2>1, <2>2, GrantRevocationCommits
  <2> QED BY <1>16, <1>1, <2>3 DEF P!Next, P!BranchCommands
<1>17. CASE r.cmd = "create_quote"
  <2>1. AllPassed(create_quote(r, seen), 0, held)
    BY <1>17 DEF CommandSteps, UnsureAt, Reviews
  <2>2. InvitationsSeen' = InvitationsSeen
    BY <1>17 DEF SeenWritten
  <2>3. Covered(held) /\ P!create_quote(r.k)
    BY <1>17, <1>2, <2>1, <2>2, QuoteCommits
  <2> QED BY <1>17, <1>1, <2>3 DEF P!Next, P!WorkCommands
<1>18. CASE r.cmd = "create_order"
  <2>1. AllPassed(create_order(r, seen), 0, held)
    BY <1>18 DEF CommandSteps, UnsureAt, Reviews
  <2>2. InvitationsSeen' = InvitationsSeen
    BY <1>18 DEF SeenWritten
  <2>3. Covered(held) /\ P!create_order(r.k)
    BY <1>18, <1>2, <2>1, <2>2, OrderCommits
  <2> QED BY <1>18, <1>1, <2>3 DEF P!Next, P!WorkCommands
<1>19. CASE r.cmd = "submit_order"
  <2>1. AllPassed(submit_order(r, seen), 5, held)
    BY <1>19 DEF CommandSteps, UnsureAt, Reviews
  <2>2. InvitationsSeen' = InvitationsSeen
    BY <1>19 DEF SeenWritten
  <2>3. Covered(held) /\ P!submit_order(r.k)
    BY <1>19, <1>2, <2>1, <2>2, SubmissionCommits
  <2> QED BY <1>19, <1>1, <2>3 DEF P!Next, P!WorkCommands
<1>20. CASE r.cmd = "approve_order"
  <2>1. AllPassed(approve_order(r, seen), 4, held)
    BY <1>20 DEF CommandSteps, UnsureAt, Reviews
  <2>2. InvitationsSeen' = InvitationsSeen
    BY <1>20 DEF SeenWritten
  <2>3. Covered(held) /\ P!approve_order(r.k, r.actor)
    BY <1>20, <1>2, <2>1, <2>2, ApprovalCommits
  <2>4. r.actor \in Approvers
    BY <2>3 DEF P!approve_order, P!IndependentApprovers
  <2> QED BY <1>1, <2>3, <2>4 DEF P!Next, P!WorkCommands
<1>21. CASE r.cmd = "reject_order"
  <2>1. AllPassed(reject_order(r, seen), 4, held)
    BY <1>21 DEF CommandSteps, UnsureAt, Reviews
  <2>2. InvitationsSeen' = InvitationsSeen
    BY <1>21 DEF SeenWritten
  <2>3. Covered(held) /\ P!reject_order(r.k, r.actor)
    BY <1>21, <1>2, <2>1, <2>2, RejectionCommits
  <2>4. r.actor \in Approvers
    BY <2>3 DEF P!reject_order, P!IndependentApprovers
  <2> QED BY <1>1, <2>3, <2>4 DEF P!Next, P!WorkCommands
<1>22. CASE r.cmd = "request_cancellation"
  <2>1. AllPassed(request_cancellation(r, seen), IF ByCustomer(r) THEN 5 ELSE 6, held)
    BY <1>22 DEF CommandSteps, UnsureAt, Reviews
  <2>2. InvitationsSeen' = InvitationsSeen
    BY <1>22 DEF SeenWritten
  <2>3. Covered(held) /\ P!request_cancellation(r.k)
    BY <1>22, <1>2, <2>1, <2>2, CancellationCommits
  <2> QED BY <1>22, <1>1, <2>3 DEF P!Next, P!WorkCommands
<1>23. CASE r.cmd = "approve_cancellation"
  <2>1. AllPassed(review_cancellation(r, seen, work[r.k].status \in {"draft", "approved"}), 4, held)
    BY <1>23 DEF CommandSteps, UnsureAt, Reviews
  <2>2. InvitationsSeen' = InvitationsSeen
    BY <1>23 DEF SeenWritten
  <2>3. Covered(held) /\ P!approve_cancellation(r.k, r.actor)
    BY <1>23, <1>2, <2>1, <2>2, CaseApprovalCommits
  <2>4. r.actor \in Approvers
    BY <2>3 DEF P!approve_cancellation, P!IndependentApprovers
  <2> QED BY <1>1, <2>3, <2>4 DEF P!Next, P!WorkCommands
<1>24. CASE r.cmd = "reject_cancellation"
  <2>1. AllPassed(review_cancellation(r, seen, TRUE), 4, held)
    BY <1>24 DEF CommandSteps, UnsureAt, Reviews
  <2>2. InvitationsSeen' = InvitationsSeen
    BY <1>24 DEF SeenWritten
  <2>3. Covered(held) /\ P!reject_cancellation(r.k, r.actor)
    BY <1>24, <1>2, <2>1, <2>2, CaseRejectionCommits
  <2>4. r.actor \in Approvers
    BY <2>3 DEF P!reject_cancellation, P!IndependentApprovers
  <2> QED BY <1>1, <2>3, <2>4 DEF P!Next, P!WorkCommands
<1> QED
  BY <1>1, <1>3, <1>4, <1>5, <1>6, <1>7, <1>8, <1>9, <1>10, <1>11, <1>12, <1>13,
     <1>14, <1>15, <1>16, <1>17, <1>18, <1>19, <1>20, <1>21, <1>22, <1>23, <1>24 DEF Commands

-----------------------------------------------------------------------------
(* What is seen after a write *)

LEMMA SeenExpired ==
    /\ InvitationsTyped =>
         \A c \in Customers : InvitationsSeen[c].expired <=> invitation[c].expired /\ ~ClaimedInTime(c)
    /\ InvitationsTyped' =>
         \A c \in Customers : InvitationsSeen'[c].expired <=> invitation'[c].expired /\ ~ClaimedInTime(c)'
<1>1. ASSUME InvitationsTyped, NEW c \in Customers
      PROVE  InvitationsSeen[c].expired <=> invitation[c].expired /\ ~ClaimedInTime(c)
  <2>1. CASE ClaimedInTime(c)
    <3>1. InvitationsSeen[c] = [invitation[c] EXCEPT !.expired = FALSE]
      BY <1>1, <2>1, SeenRow
    <3>2. ~InvitationsSeen[c].expired
      BY <1>1, <3>1 DEF InvitationsTyped, InvitationRow
    <3> QED BY <2>1, <3>2
  <2>2. CASE ~ClaimedInTime(c)
    BY <1>1, <2>2, SeenRow
  <2> QED BY <2>1, <2>2
<1>2. ASSUME InvitationsTyped', NEW c \in Customers
      PROVE  InvitationsSeen'[c].expired <=> invitation'[c].expired /\ ~ClaimedInTime(c)'
  <2>1. CASE ClaimedInTime(c)'
    <3>1. InvitationsSeen'[c] = [invitation'[c] EXCEPT !.expired = FALSE]
      BY <1>2, <2>1, NextSeenRow
    <3>2. ~InvitationsSeen'[c].expired
      BY <1>2, <3>1 DEF InvitationsTyped, InvitationRow
    <3> QED BY <2>1, <3>2
  <2>2. CASE ~ClaimedInTime(c)'
    BY <1>2, <2>2, NextSeenRow
  <2> QED BY <2>1, <2>2
<1> QED BY <1>1, <1>2

(* The rows an issued, a revoked and a claimed invitation have *)
LEMMA OneIsIssued ==
    ASSUME NEW old \in [Customers -> InvitationRow], NEW new \in [Customers -> InvitationRow],
           NEW k \in Customers, \A c \in Customers : c # k => new[c] = old[c], NEW u \in Accounts,
           NEW b \in Branches \union {NoBranch}, new[k].status = "pending", new[k].target = u,
           new[k].branch = b, ~new[k].expired
    PROVE  new = [old EXCEPT ![k] = [status |-> "pending", branch |-> b, target |-> u, expired |-> FALSE]]
<1> PICK row : row = [status |-> "pending", branch |-> b, target |-> u, expired |-> FALSE]
  OBVIOUS
<1>1. /\ row \in InvitationRow /\ row.status = "pending" /\ row.target = u
      /\ row.branch = b /\ ~row.expired
  BY DEF InvitationRow
<1>2. new[k] = row
  BY <1>1, SameInvitation
<1>3. new = [old EXCEPT ![k] = row]
  BY <1>2
<1> QED BY <1>3

LEMMA OneIsRevoked ==
    ASSUME NEW old \in [Customers -> InvitationRow], NEW new \in [Customers -> InvitationRow],
           NEW k \in Customers, \A c \in Customers : c # k => new[c] = old[c],
           new[k].status = "revoked", new[k].target = old[k].target,
           new[k].branch = old[k].branch, new[k].expired <=> old[k].expired
    PROVE  new = [old EXCEPT ![k].status = "revoked"]
<1>1. [old[k] EXCEPT !.status = "revoked"] = new[k]
  BY DEF InvitationRow
<1> QED BY <1>1

LEMMA Claimed ==
    ASSUME NEW old \in InvitationRow, NEW new \in InvitationRow,
           new.status = "claimed", new.target = old.target, new.branch = old.branch, ~new.expired
    PROVE  [old EXCEPT !.status = "claimed", !.expired = FALSE] = new
BY DEF InvitationRow

LEMMA OneIsClaimed ==
    ASSUME NEW old \in [Customers -> InvitationRow], NEW new \in [Customers -> InvitationRow],
           NEW k \in Customers, \A c \in Customers : c # k => new[c] = old[c],
           new[k].status = "claimed", new[k].target = old[k].target,
           new[k].branch = old[k].branch, ~new[k].expired
    PROVE  new = [old EXCEPT ![k].status = "claimed", ![k].expired = FALSE]
<1>1. \A row, out : row \in InvitationRow /\ out \in InvitationRow /\ out.status = "claimed"
                      /\ out.target = row.target /\ out.branch = row.branch /\ ~out.expired
                      => [row EXCEPT !.status = "claimed", !.expired = FALSE] = out
  BY Claimed
<1>2. [old[k] EXCEPT !.status = "claimed", !.expired = FALSE] = new[k]
  BY <1>1
<1>3. \A row : row = [old[k] EXCEPT !.status = "claimed", !.expired = FALSE] =>
         [old EXCEPT ![k] = row] = [old EXCEPT ![k].status = "claimed", ![k].expired = FALSE]
  OBVIOUS
<1>4. [old EXCEPT ![k] = new[k]] = [old EXCEPT ![k].status = "claimed", ![k].expired = FALSE]
  BY <1>2, <1>3
<1>5. [old EXCEPT ![k] = new[k]] = new
  OBVIOUS
<1> QED BY <1>4, <1>5

LEMMA OneIsSeenIssued ==
    ASSUME InvitationsTyped, InvitationsTyped', NEW k \in Customers,
           \A c \in Customers : c # k => InvitationsSeen'[c] = InvitationsSeen[c],
           NEW u \in Accounts, NEW b \in Branches \union {NoBranch},
           InvitationsSeen'[k].status = "pending", InvitationsSeen'[k].target = u,
           InvitationsSeen'[k].branch = b, ~InvitationsSeen'[k].expired
    PROVE  InvitationsSeen' = [InvitationsSeen EXCEPT
                                 ![k] = [status |-> "pending", branch |-> b, target |-> u, expired |-> FALSE]]
<1>1. PICK old : old = InvitationsSeen
  OBVIOUS
<1>2. PICK new : new = InvitationsSeen'
  OBVIOUS
<1>3. old \in [Customers -> InvitationRow] /\ new \in [Customers -> InvitationRow]
  BY <1>1, <1>2, SeenIsTyped
<1>4. /\ \A c \in Customers : c # k => new[c] = old[c]
      /\ new[k].status = "pending" /\ new[k].target = u /\ new[k].branch = b
      /\ ~new[k].expired
  BY <1>1, <1>2
<1>5. new = [old EXCEPT ![k] = [status |-> "pending", branch |-> b, target |-> u, expired |-> FALSE]]
  BY <1>3, <1>4, OneIsIssued
<1> QED BY <1>1, <1>2, <1>5

LEMMA OneIsSeenRevoked ==
    ASSUME InvitationsTyped, InvitationsTyped', NEW k \in Customers,
           \A c \in Customers : c # k => InvitationsSeen'[c] = InvitationsSeen[c],
           InvitationsSeen'[k].status = "revoked",
           InvitationsSeen'[k].target = InvitationsSeen[k].target,
           InvitationsSeen'[k].branch = InvitationsSeen[k].branch,
           InvitationsSeen'[k].expired <=> InvitationsSeen[k].expired
    PROVE  InvitationsSeen' = [InvitationsSeen EXCEPT ![k].status = "revoked"]
<1>1. PICK old : old = InvitationsSeen
  OBVIOUS
<1>2. PICK new : new = InvitationsSeen'
  OBVIOUS
<1>3. old \in [Customers -> InvitationRow] /\ new \in [Customers -> InvitationRow]
  BY <1>1, <1>2, SeenIsTyped
<1>4. /\ \A c \in Customers : c # k => new[c] = old[c]
      /\ new[k].status = "revoked" /\ new[k].target = old[k].target
      /\ new[k].branch = old[k].branch
      /\ new[k].expired <=> old[k].expired
  BY <1>1, <1>2
<1>5. new = [old EXCEPT ![k].status = "revoked"]
  BY <1>3, <1>4, OneIsRevoked
<1> QED BY <1>1, <1>2, <1>5

LEMMA OneIsSeenClaimed ==
    ASSUME InvitationsTyped, InvitationsTyped', NEW k \in Customers,
           \A c \in Customers : c # k => InvitationsSeen'[c] = InvitationsSeen[c],
           InvitationsSeen'[k].status = "claimed",
           InvitationsSeen'[k].target = InvitationsSeen[k].target,
           InvitationsSeen'[k].branch = InvitationsSeen[k].branch, ~InvitationsSeen'[k].expired
    PROVE  InvitationsSeen' = [InvitationsSeen EXCEPT ![k].status = "claimed", ![k].expired = FALSE]
<1>1. PICK old : old = InvitationsSeen
  OBVIOUS
<1>2. PICK new : new = InvitationsSeen'
  OBVIOUS
<1>3. old \in [Customers -> InvitationRow] /\ new \in [Customers -> InvitationRow]
  BY <1>1, <1>2, SeenIsTyped
<1>4. /\ \A c \in Customers : c # k => new[c] = old[c]
      /\ new[k].status = "claimed" /\ new[k].target = old[k].target
      /\ new[k].branch = old[k].branch /\ ~new[k].expired
  BY <1>1, <1>2
<1>5. new = [old EXCEPT ![k].status = "claimed", ![k].expired = FALSE]
  BY <1>3, <1>4, OneIsClaimed
<1> QED BY <1>1, <1>2, <1>5

LEMMA UnsureIsAStep ==
    ASSUME NEW r, NEW seen
    PROVE  /\ UnsureAt(r) \in Nat
           /\ r.cmd = "claim_customer" => Len(CommandSteps(r, seen)) = 7
           /\ UnsureAt(r) > 0 => UnsureAt(r) <= Len(CommandSteps(r, seen))
<1>1. CASE r.cmd = "claim_customer"
  <2>1. CommandSteps(r, seen) = claim_customer(r, seen) /\ UnsureAt(r) = 6
    BY <1>1 DEF CommandSteps, UnsureAt, ClockRead, Reviews
  <2>2. Len(claim_customer(r, seen)) = 7
    BY DEF claim_customer
  <2> QED BY <2>1, <2>2
<1>2. CASE r.cmd = "submit_order"
  <2>1. CommandSteps(r, seen) = submit_order(r, seen) /\ UnsureAt(r) = 5
    BY <1>2 DEF CommandSteps, UnsureAt, Reviews
  <2>2. Len(submit_order(r, seen)) = 6
    BY DEF submit_order
  <2> QED BY <1>2, <2>1, <2>2
<1>3. CASE r.cmd = "request_cancellation"
  <2>1. /\ CommandSteps(r, seen) = request_cancellation(r, seen)
        /\ UnsureAt(r) = IF ByCustomer(r) THEN 5 ELSE 6
    BY <1>3 DEF CommandSteps, UnsureAt, Reviews
  <2>2. CASE ByCustomer(r)
    <3>1. Len(request_cancellation(r, seen)) = 6
      BY <2>2 DEF request_cancellation, ByCustomer
    <3> QED BY <1>3, <2>1, <2>2, <3>1
  <2>3. CASE ~ByCustomer(r)
    <3>1. Len(request_cancellation(r, seen)) = 7
      BY <2>3 DEF request_cancellation, ByCustomer
    <3> QED BY <1>3, <2>1, <2>3, <3>1
  <2> QED BY <2>2, <2>3
<1>4. CASE r.cmd \in Reviews
  <2>1. UnsureAt(r) = 4 /\ r.cmd # "claim_customer"
    BY <1>4 DEF UnsureAt, Reviews
  <2>2. r.cmd \in Commands /\ KeyAt(r) = 6
    BY <1>4 DEF Commands, Reviews, KeyAt, EarlyKey, LateKey
  <2>3. Len(CommandSteps(r, seen)) \in Nat /\ 6 <= Len(CommandSteps(r, seen))
    BY <2>2, EveryCommandHasAKey DEF HasKeyAt
  <2> QED BY <2>1, <2>3
<1>5. CASE r.cmd \notin {"claim_customer", "submit_order", "request_cancellation"} \union Reviews
  <2>1. UnsureAt(r) = 0 /\ r.cmd # "claim_customer"
    BY <1>5 DEF UnsureAt
  <2> QED BY <2>1
<1> QED BY <1>1, <1>2, <1>3, <1>4, <1>5

-----------------------------------------------------------------------------
(* The step that writes *)

LEMMA WritesAreTyped ==
    ASSUME InvitationsTyped, CustomersTyped, NEW r, RequestOK(r), Writes(r)
    PROVE  /\ InvitationsTyped'
           /\ \A c \in Customers : c # r.k => invitation'[c] = invitation[c]
           /\ r.cmd \notin {"issue_customer_claim_invitation", "revoke_customer_claim_invitation",
                            "claim_customer"} => invitation' = invitation
<1>1. CASE r.cmd = "issue_customer_claim_invitation"
  <2>1. invitation' = [invitation EXCEPT ![r.k] = Issued(r.k, r.p)]
    BY <1>1 DEF Writes, InvitationIssued, Issued
  <2>2. Issued(r.k, r.p) \in InvitationRow
    BY <1>1 DEF InvitationRow, RequestOK, Issued, CustomersTyped, CustomerRow, NoCustomer
  <2> QED BY <1>1, <2>1, <2>2 DEF InvitationsTyped
<1>2. CASE r.cmd = "revoke_customer_claim_invitation"
  <2>1. invitation' = [invitation EXCEPT ![r.k].status = "revoked"]
    BY <1>2 DEF Writes, InvitationRevoked
  <2> QED BY <1>2, <2>1 DEF InvitationsTyped, InvitationRow
<1>3. CASE r.cmd = "claim_customer"
  <2>1. invitation' = [invitation EXCEPT ![r.k].status = "claimed", ![r.k].expired = FALSE]
    BY <1>3 DEF Writes, CustomerClaimed
  <2> QED BY <1>3, <2>1 DEF InvitationsTyped, InvitationRow
<1>4. CASE r.cmd \notin {"issue_customer_claim_invitation", "revoke_customer_claim_invitation",
                         "claim_customer"}
  <2>1. invitation' = invitation
    BY <1>4
    DEF Writes, CustomerCreated, CustomerActivated, RelationshipEnded, AdvisorAssigned,
        AdvisorUnassigned, CustomerTransferred, BranchMoved, GrantsAre, WorkIs, WorkMoved
  <2> QED BY <1>4, <2>1 DEF InvitationsTyped
<1> QED BY <1>1, <1>2, <1>3, <1>4

LEMMA CommitIsSeen ==
    ASSUME RefInv, NEW t \in Txns, Commit(t), NEW r, r = txn[t].req
    PROVE  InvitationsTyped' /\ SeenWritten(r)
<1>1. /\ Running(t) /\ txn[t].pc > Len(CommandSteps(r, txn[t].seen)) /\ Writes(r)
      /\ txn' = [txn EXCEPT ![t] = Idle]
  BY DEF Commit, ReadyToCommit, Steps
<1>2. /\ \A u \in Txns : u # t => txn'[u] = txn[u]
      /\ txn'[t] = Idle /\ RequestOK(r) /\ r.k \in Customers
  BY <1>1 DEF RefInv, KeyInv, TxnsOK, RequestsOK, RequestOK
<1>3. InvitationsTyped /\ CustomersTyped
  BY DEF RefInv, TypeOK, InvitationsTyped, CustomersTyped
<1>4. /\ InvitationsTyped'
      /\ \A c \in Customers : c # r.k => invitation'[c] = invitation[c]
      /\ r.cmd \notin {"issue_customer_claim_invitation", "revoke_customer_claim_invitation",
                       "claim_customer"} => invitation' = invitation
  BY <1>1, <1>2, <1>3, WritesAreTyped
<1>5. \A k : ~Claims(t, k)'
  BY <1>2 DEF Claims, Running
<1>6. \A k : r.cmd # "claim_customer" \/ r.k # k => ~Claims(t, k)
  BY DEF Claims
<1>7. \A c \in Customers : c # r.k => InvitationsSeen'[c] = InvitationsSeen[c]
  <2>1. \A c : c # r.k => (ClaimedInTime(c)' <=> ClaimedInTime(c))
    BY <1>2, <1>5, <1>6, ClaimsStay
  <2> QED BY <1>3, <1>4, <2>1, SeenStays
<1>8. \A c \in Customers : /\ InvitationsSeen[c].status = invitation[c].status
                           /\ InvitationsSeen[c].target = invitation[c].target
                           /\ InvitationsSeen[c].branch = invitation[c].branch
                           /\ InvitationsSeen'[c].status = invitation'[c].status
                           /\ InvitationsSeen'[c].target = invitation'[c].target
                           /\ InvitationsSeen'[c].branch = invitation'[c].branch
  BY <1>3, <1>4, SeenRow, NextSeenRow
<1>9. ASSUME r.cmd = "issue_customer_claim_invitation"
      PROVE  InvitationsSeen' = [InvitationsSeen EXCEPT ![r.k] = Issued(r.k, r.p)]
  <2>1. /\ invitation' = [invitation EXCEPT ![r.k] = Issued(r.k, r.p)]
        /\ r.p \in Accounts
    BY <1>1, <1>2, <1>9 DEF Writes, InvitationIssued, RequestOK, Issued
  <2>2. /\ invitation'[r.k].status = "pending" /\ invitation'[r.k].target = r.p
        /\ invitation'[r.k].branch = customer[r.k].branch /\ ~invitation'[r.k].expired
    BY <1>2, <1>3, <2>1 DEF InvitationsTyped, Issued
  <2>3. ~InvitationsSeen'[r.k].expired
    BY <1>2, <1>4, <2>2, SeenExpired
  <2>4. customer[r.k].branch \in Branches \union {NoBranch}
    BY <1>2, <1>3 DEF CustomersTyped, CustomerRow, NoCustomer
  <2>5. /\ InvitationsSeen'[r.k].status = "pending" /\ InvitationsSeen'[r.k].target = r.p
        /\ InvitationsSeen'[r.k].branch = customer[r.k].branch
    BY <1>2, <1>8, <2>2
  <2>6. PICK k, u, b : k = r.k /\ u = r.p /\ b = customer[r.k].branch
    OBVIOUS
  <2>7. /\ k \in Customers /\ u \in Accounts /\ b \in Branches \union {NoBranch}
        /\ InvitationsSeen'[k].status = "pending" /\ InvitationsSeen'[k].target = u
        /\ InvitationsSeen'[k].branch = b /\ ~InvitationsSeen'[k].expired
        /\ \A c \in Customers : c # k => InvitationsSeen'[c] = InvitationsSeen[c]
    BY <1>2, <1>7, <2>1, <2>3, <2>4, <2>5, <2>6
  <2>8. InvitationsSeen' = [InvitationsSeen EXCEPT ![k] =
            [status |-> "pending", branch |-> b, target |-> u, expired |-> FALSE]]
    BY <1>3, <1>4, <2>7, OneIsSeenIssued
  <2>9. Issued(r.k, r.p) =
            [status |-> "pending", branch |-> b, target |-> u, expired |-> FALSE]
    BY <2>6 DEF Issued
  <2> QED BY <2>6, <2>8, <2>9
<1>10. ASSUME r.cmd = "revoke_customer_claim_invitation"
       PROVE  InvitationsSeen' = [InvitationsSeen EXCEPT ![r.k].status = "revoked"]
  <2>1. invitation' = [invitation EXCEPT ![r.k].status = "revoked"]
    BY <1>1, <1>10 DEF Writes, InvitationRevoked
  <2>2. /\ invitation'[r.k].status = "revoked"
        /\ invitation'[r.k].target = invitation[r.k].target
        /\ invitation'[r.k].branch = invitation[r.k].branch
        /\ invitation'[r.k].expired = invitation[r.k].expired
    BY <1>2, <1>3, <2>1 DEF InvitationsTyped, InvitationRow
  <2>3. ClaimedInTime(r.k)' <=> ClaimedInTime(r.k)
    BY <1>2, <1>5, <1>6, <1>10, ClaimsStay
  <2>4. InvitationsSeen'[r.k].expired <=> InvitationsSeen[r.k].expired
    BY <1>2, <1>3, <1>4, <2>2, <2>3, SeenExpired
  <2> QED BY <1>2, <1>3, <1>4, <1>7, <1>8, <2>2, <2>4, OneIsSeenRevoked
<1>11. ASSUME r.cmd = "claim_customer"
       PROVE  /\ ~InvitationsSeen[r.k].expired
              /\ InvitationsSeen' = [InvitationsSeen EXCEPT ![r.k].status = "claimed", ![r.k].expired = FALSE]
  <2>1. invitation' = [invitation EXCEPT ![r.k].status = "claimed", ![r.k].expired = FALSE]
    BY <1>1, <1>11 DEF Writes, CustomerClaimed
  <2>2. /\ invitation'[r.k].status = "claimed"
        /\ invitation'[r.k].target = invitation[r.k].target
        /\ invitation'[r.k].branch = invitation[r.k].branch
        /\ ~invitation'[r.k].expired
    BY <1>2, <1>3, <2>1 DEF InvitationsTyped, InvitationRow
  <2>3. ClaimedInTime(r.k)
    <3>1. txn[t].pc \in Nat /\ Len(CommandSteps(r, txn[t].seen)) = 7
      BY <1>1, <1>11, UnsureIsAStep DEF RefInv, KeyInv, TxnsOK
    <3>2. txn[t].pc > ClockRead
      BY <1>1, <3>1 DEF ClockRead
    <3> QED BY <1>1, <1>11, <3>2 DEF ClaimedInTime
  <2>4. ~InvitationsSeen[r.k].expired /\ ~InvitationsSeen'[r.k].expired
    BY <1>2, <1>3, <1>4, <2>2, <2>3, SeenExpired
  <2>5. /\ InvitationsSeen'[r.k].status = "claimed"
        /\ InvitationsSeen'[r.k].target = InvitationsSeen[r.k].target
        /\ InvitationsSeen'[r.k].branch = InvitationsSeen[r.k].branch
    BY <1>2, <1>8, <2>2
  <2> QED BY <1>2, <1>3, <1>4, <1>7, <2>4, <2>5, OneIsSeenClaimed
<1>12. ASSUME r.cmd \notin {"issue_customer_claim_invitation", "revoke_customer_claim_invitation",
                            "claim_customer"}
       PROVE  InvitationsSeen' = InvitationsSeen
  <2>1. \A k \in Customers : Claims(t, k)' <=> Claims(t, k)
    BY <1>5, <1>6, <1>12
  <2> QED BY <1>2, <1>3, <1>4, <1>12, <2>1, SeenUnchanged
<1> QED BY <1>4, <1>8, <1>9, <1>10, <1>11, <1>12 DEF SeenWritten

LEMMA HomeNow == ASSUME RefInv PROVE WorkIsAtHome
<1>1. \A k \in Customers : /\ InvitationsSeen[k].status = invitation[k].status
                           /\ InvitationsSeen[k].branch = invitation[k].branch
  BY SeenRow DEF RefInv, TypeOK, InvitationsTyped
<1> QED
  BY <1>1
  DEF RefInv, P!DeskInv, P!WorkIsAtHome, WorkIsAtHome, OpenWork, P!OpenWork, Exists, P!Exists,
      NoCustomer, P!NoCustomer, OpenStatuses, P!OpenStatuses, NoAdvisor, P!NoAdvisor

(* A transaction that commits is a command of the desk, and has locked what it     *)
(* changes.                                                                      *)
LEMMA CommitIsCovered ==
    ASSUME RefInv, NEW t \in Txns, Commit(t)
    PROVE  InvitationsTyped' /\ Covered(locks[t]) /\ P!Next
<1> PICK r, seen, pc, held :
        r = txn[t].req /\ seen = txn[t].seen /\ pc = txn[t].pc /\ held = locks[t]
  OBVIOUS
<1>1. /\ Running(t) /\ pc > Len(CommandSteps(r, seen)) /\ Writes(r)
      /\ times' = [times EXCEPT ![r] = @ + 1]
  BY DEF Commit, ReadyToCommit, Steps
<1>2. Asked(r) /\ pc \in Nat \ {0} /\ Found(r, seen, pc, held)
  BY <1>1 DEF RefInv, KeyInv, TxnsOK, RequestsOK, Asked, FindingsHold
<1>3. HasKeyAt(CommandSteps(r, seen), KeyAt(r), r) /\ KeyAt(r) \in 2..6
  BY <1>2, EveryCommandHasAKey DEF Asked, RequestOK
<1>4. Lock(KeyRow(r), "update") \in held
  <2>1. Keyed(t)
    BY <1>1, <1>2, <1>3 DEF HasKeyAt, Keyed
  <2> QED BY <2>1 DEF RefInv, KeyInv, KeysAreHeld
<1>5. Commits(r, held)
  BY <1>1, <1>2, <1>4 DEF Commits, RefInv, KeyInv, RowsOK
<1>6. Remains(r) /\ AllPassed(CommandSteps(r, seen), UnsureAt(r), held)
  <2>1. pc > UnsureAt(r)
    BY <1>1, <1>2, <1>3, UnsureIsAStep DEF HasKeyAt
  <2> QED BY <1>1, <1>2, <1>3, <2>1 DEF Found, StepsHold, AllPassed, HasKeyAt
<1>7. InvitationsTyped' /\ SeenWritten(r)
  BY CommitIsSeen
<1>8. Covered(held) /\ P!Next
  BY <1>5, <1>6, <1>7, HomeNow, CommitIsACommand DEF RefInv
<1> QED BY <1>7, <1>8

LEMMA CommitStep ==
    ASSUME RefInv, NEW t \in Txns, Commit(t)
    PROVE  DeskStep /\ RefInv'
<1>1. InvitationsTyped' /\ Covered(locks[t]) /\ P!Next
  BY CommitIsCovered
<1>2. /\ \A u \in Txns : u # t => txn'[u] = txn[u] /\ locks'[u] = locks[u]
      /\ txn'[t] = Idle
  BY DEF Commit, RefInv, KeyInv, TxnsOK, RowsOK
<1>3. DeskStep
  BY <1>1 DEF DeskStep
<1>4. TypeOK' /\ WorkIsAtHome' /\ P!DeskInv'
  BY <1>1, <1>3, DeskKeepsItsInvariant
<1>5. FindingsHold'
  <2> SUFFICES ASSUME NEW u \in Txns, Running(u)'
               PROVE  Found(txn[u].req, txn[u].seen, txn[u].pc, locks[u])'
    BY DEF FindingsHold
  <2>1. u # t /\ Running(u) /\ txn'[u] = txn[u] /\ locks'[u] = locks[u]
    BY <1>2 DEF Running
  <2>2. Protected(locks[u])
    BY <1>1, <2>1, OthersAreProtected DEF RefInv
  <2> QED BY <1>4, <2>1, <2>2, FindingsStay
<1> QED BY <1>3, <1>4, <1>5, KeyInvCommit DEF RefInv

-----------------------------------------------------------------------------
(* The commands of the desk have two instances here: one of Desk, which the       *)
(* property names, and one of the theorems about it.                            *)

LEMMA SameCommands ==
    /\ \A k, b : P!create_customer(k, b) => D!create_customer(k, b)
    /\ \A k, u : P!issue_customer_claim_invitation(k, u) => D!issue_customer_claim_invitation(k, u)
    /\ \A k : P!revoke_customer_claim_invitation(k) => D!revoke_customer_claim_invitation(k)
    /\ \A k : P!InvitationRunsOut(k) => D!InvitationRunsOut(k)
    /\ \A k, u : P!claim_customer(k, u) => D!claim_customer(k, u)
    /\ \A k : P!activate_customer(k) => D!activate_customer(k)
    /\ \A k : P!deactivate_customer(k) => D!deactivate_customer(k)
    /\ \A k : P!withdraw_consent(k) => D!withdraw_consent(k)
    /\ \A k, p : P!assign_customer_advisor(k, p) => D!assign_customer_advisor(k, p)
    /\ \A k : P!end_customer_advisor_assignment(k) => D!end_customer_advisor_assignment(k)
    /\ \A k, b, p : P!transfer_customer_branch(k, b, p) => D!transfer_customer_branch(k, b, p)
<1> USE DEF P!Exists, D!Exists, P!NoCustomer, D!NoCustomer, P!NoAdvisor, D!NoAdvisor,
            P!InActiveBranch, D!InActiveBranch, P!Active, D!Active
<1>1. \A k, b : P!create_customer(k, b) => D!create_customer(k, b)
  BY DEF P!create_customer, D!create_customer, P!CustomerCreated, D!CustomerCreated
<1>2. \A k, u : P!issue_customer_claim_invitation(k, u) => D!issue_customer_claim_invitation(k, u)
  BY DEF P!issue_customer_claim_invitation, D!issue_customer_claim_invitation,
         P!InvitationIssued, D!InvitationIssued, P!BoundElsewhere, D!BoundElsewhere,
         P!InvitedElsewhere, D!InvitedElsewhere
<1>3. \A k : P!revoke_customer_claim_invitation(k) => D!revoke_customer_claim_invitation(k)
  BY DEF P!revoke_customer_claim_invitation, D!revoke_customer_claim_invitation,
         P!InvitationRevoked, D!InvitationRevoked
<1>4. \A k : P!InvitationRunsOut(k) => D!InvitationRunsOut(k)
  BY DEF P!InvitationRunsOut, D!InvitationRunsOut
<1>5. \A k, u : P!claim_customer(k, u) => D!claim_customer(k, u)
  BY DEF P!claim_customer, D!claim_customer, P!CustomerClaimed, D!CustomerClaimed,
         P!BoundElsewhere, D!BoundElsewhere
<1>6. \A k : P!activate_customer(k) => D!activate_customer(k)
  BY DEF P!activate_customer, D!activate_customer, P!CustomerActivated, D!CustomerActivated
<1>7. \A k : P!RelationshipEnded(k) => D!RelationshipEnded(k)
  BY DEF P!RelationshipEnded, D!RelationshipEnded
<1>8. \A k : P!deactivate_customer(k) => D!deactivate_customer(k)
  BY <1>7 DEF P!deactivate_customer, D!deactivate_customer
<1>9. \A k : P!withdraw_consent(k) => D!withdraw_consent(k)
  BY <1>7 DEF P!withdraw_consent, D!withdraw_consent
<1>10. \A k, p : P!assign_customer_advisor(k, p) => D!assign_customer_advisor(k, p)
  BY DEF P!assign_customer_advisor, D!assign_customer_advisor, P!AdvisorAssigned,
         D!AdvisorAssigned
<1>11. \A k : P!end_customer_advisor_assignment(k) => D!end_customer_advisor_assignment(k)
  BY DEF P!end_customer_advisor_assignment, D!end_customer_advisor_assignment,
         P!AdvisorUnassigned, D!AdvisorUnassigned
<1>12. \A k, b, p : P!transfer_customer_branch(k, b, p) => D!transfer_customer_branch(k, b, p)
  BY DEF P!transfer_customer_branch, D!transfer_customer_branch, P!CustomerTransferred,
         D!CustomerTransferred, P!InOpenBranch, D!InOpenBranch, P!OpenWork, D!OpenWork,
         P!OpenStatuses, D!OpenStatuses
<1> QED
  BY <1>1, <1>2, <1>3, <1>4, <1>5, <1>6, <1>8, <1>9, <1>10, <1>11, <1>12

LEMMA SameBranchCommands ==
    /\ \A b : P!deactivate_branch(b) => D!deactivate_branch(b)
    /\ \A b : P!close_branch(b) => D!close_branch(b)
    /\ \A p, b : P!create_branch_role_grant(p, b) => D!create_branch_role_grant(p, b)
    /\ \A p, b : P!revoke_branch_role_grant(p, b) => D!revoke_branch_role_grant(p, b)
<1>1. \A b : P!deactivate_branch(b) => D!deactivate_branch(b)
  BY DEF P!deactivate_branch, D!deactivate_branch, P!BranchMoved, D!BranchMoved
<1>2. \A b : P!close_branch(b) => D!close_branch(b)
  BY DEF P!close_branch, D!close_branch, P!BranchMoved, D!BranchMoved, P!NoCustomers,
         D!NoCustomers,
         P!NoPendingInvitation, D!NoPendingInvitation, P!NoAssignment, D!NoAssignment,
         P!NoGrant, D!NoGrant, P!Members, D!Members, P!NoReview, D!NoReview,
         P!NoOpenQuote, D!NoOpenQuote, P!NoOpenOrder, D!NoOpenOrder, P!NoOpenCase, D!NoOpenCase
<1>3. \A p, b : P!create_branch_role_grant(p, b) => D!create_branch_role_grant(p, b)
  BY DEF P!create_branch_role_grant, D!create_branch_role_grant, P!GrantsAre, D!GrantsAre
<1>4. \A p, b : P!revoke_branch_role_grant(p, b) => D!revoke_branch_role_grant(p, b)
  <2>1. \A p, b : P!Assigned(p, b) <=> D!Assigned(p, b)
    BY DEF P!Assigned, D!Assigned
  <2>2. \A k, b : P!IndependentApprovers(k, b) = D!IndependentApprovers(k, b)
    BY DEF P!IndependentApprovers, D!IndependentApprovers
  <2>3. \A p, b : P!Replaceable(p, b) => D!Replaceable(p, b)
    BY <2>2 DEF P!Replaceable, D!Replaceable, P!AwaitsApproval, D!AwaitsApproval
  <2> QED BY <2>1, <2>3 DEF P!revoke_branch_role_grant, D!revoke_branch_role_grant, P!GrantsAre,
                            D!GrantsAre
<1> QED BY <1>1, <1>2, <1>3, <1>4

LEMMA SameWorkCommands ==
    /\ \A k : P!create_quote(k) => D!create_quote(k)
    /\ \A k : P!create_order(k) => D!create_order(k)
    /\ \A k : P!submit_order(k) => D!submit_order(k)
    /\ \A k : P!request_cancellation(k) => D!request_cancellation(k)
    /\ \A k, p : P!approve_order(k, p) => D!approve_order(k, p)
    /\ \A k, p : P!reject_order(k, p) => D!reject_order(k, p)
    /\ \A k, p : P!approve_cancellation(k, p) => D!approve_cancellation(k, p)
    /\ \A k, p : P!reject_cancellation(k, p) => D!reject_cancellation(k, p)
<1>1. /\ \A k, b : P!IndependentApprovers(k, b) = D!IndependentApprovers(k, b)
      /\ \A k : P!Active(k) <=> D!Active(k)
      /\ \A k : P!InActiveBranch(k) <=> D!InActiveBranch(k)
      /\ \A k : P!InOpenBranch(k) <=> D!InOpenBranch(k)
      /\ \A k : P!OpenWork(k) <=> D!OpenWork(k)
  BY DEF P!IndependentApprovers, D!IndependentApprovers, P!Active, D!Active, P!InActiveBranch,
         D!InActiveBranch, P!InOpenBranch, D!InOpenBranch, P!Exists, D!Exists, P!NoCustomer,
         D!NoCustomer, P!OpenWork, D!OpenWork, P!OpenStatuses, D!OpenStatuses
<1>2. \A k, new : P!WorkIs(k, new) <=> D!WorkIs(k, new)
  BY DEF P!WorkIs, D!WorkIs
<1>3. \A k, status : P!WorkMoved(k, status) <=> D!WorkMoved(k, status)
  BY <1>2 DEF P!WorkMoved, D!WorkMoved
<1>4. \A k : P!create_quote(k) => D!create_quote(k)
  BY <1>1, <1>2 DEF P!create_quote, D!create_quote
<1>5. \A k : P!create_order(k) => D!create_order(k)
  BY <1>1, <1>3 DEF P!create_order, D!create_order
<1>6. \A k : P!submit_order(k) => D!submit_order(k)
  BY <1>1, <1>3 DEF P!submit_order, D!submit_order
<1>7. \A k : P!request_cancellation(k) => D!request_cancellation(k)
  BY <1>1, <1>2 DEF P!request_cancellation, D!request_cancellation
<1>8. \A k, p : P!approve_order(k, p) => D!approve_order(k, p)
  BY <1>1, <1>3 DEF P!approve_order, D!approve_order
<1>9. \A k, p : P!reject_order(k, p) => D!reject_order(k, p)
  BY <1>1, <1>3 DEF P!reject_order, D!reject_order
<1>10. \A k, p : P!approve_cancellation(k, p) => D!approve_cancellation(k, p)
  BY <1>1, <1>2 DEF P!approve_cancellation, D!approve_cancellation
<1>11. \A k, p : P!reject_cancellation(k, p) => D!reject_cancellation(k, p)
  BY <1>1, <1>2 DEF P!reject_cancellation, D!reject_cancellation
<1> QED BY <1>4, <1>5, <1>6, <1>7, <1>8, <1>9, <1>10, <1>11

LEMMA SameDesk == DeskStep => [D!Next]_D!tables
<1>1. P!CustomerCommands => D!CustomerCommands
  BY SameCommands DEF P!CustomerCommands, D!CustomerCommands
<1>2. P!BranchCommands => D!BranchCommands
  BY SameBranchCommands DEF P!BranchCommands, D!BranchCommands, P!Members, D!Members
<1>3. P!WorkCommands => D!WorkCommands
  BY SameWorkCommands DEF P!WorkCommands, D!WorkCommands
<1> QED BY <1>1, <1>2, <1>3 DEF DeskStep, P!Next, D!Next, D!tables

LEMMA SameGuards == ASSUME P!AcceptedStep PROVE G!AcceptedStep
<1>1. \A k : P!Exists(k) <=> G!Exists(k)
  BY DEF P!Exists, G!Exists, P!NoCustomer, G!NoCustomer
<1>2. /\ \A k : P!Active(k) <=> G!Active(k)
      /\ \A k : P!Active(k)' <=> G!Active(k)'
      /\ \A k : P!InActiveBranch(k) <=> G!InActiveBranch(k)
      /\ \A k : P!InActiveBranch(k)' <=> G!InActiveBranch(k)'
      /\ \A k : P!OpenWork(k) <=> G!OpenWork(k)
      /\ \A k, b : P!IndependentApprovers(k, b) = G!IndependentApprovers(k, b)
  BY DEF P!Exists, G!Exists, P!NoCustomer, G!NoCustomer, P!Active, G!Active, P!InActiveBranch,
         G!InActiveBranch, P!OpenWork, G!OpenWork, P!OpenStatuses, G!OpenStatuses,
         P!IndependentApprovers, G!IndependentApprovers
<1>3. \A b : P!BranchGuard(b) <=> G!BranchGuard(b)
  BY <1>2 DEF P!BranchGuard, G!BranchGuard, P!Deserted, G!Deserted, P!Members, G!Members
<1>4. \A p, b : P!GrantGuard(p, b) <=> G!GrantGuard(p, b)
  BY DEF P!GrantGuard, G!GrantGuard, P!Assigned, G!Assigned, P!AwaitsApproval, G!AwaitsApproval
<1>5. \A k : P!CustomerGuard(k) <=> G!CustomerGuard(k)
  <2>1. \A k : P!TransferGuard(k) <=> G!TransferGuard(k)
    BY <1>2 DEF P!TransferGuard, G!TransferGuard, P!NoAdvisor, G!NoAdvisor
  <2>2. \A k : P!BindingGuard(k) <=> G!BindingGuard(k)
    BY DEF P!BindingGuard, G!BindingGuard
  <2>3. \A k : P!ActiveGuard(k) <=> G!ActiveGuard(k)
    BY DEF P!ActiveGuard, G!ActiveGuard
  <2> QED
    BY <2>1, <2>2, <2>3 DEF P!CustomerGuard, G!CustomerGuard, P!NoCustomer, G!NoCustomer
<1>6. \A k : P!InvitationGuard(k) <=> G!InvitationGuard(k)
  BY <1>2 DEF P!InvitationGuard, G!InvitationGuard
<1>7. \A k : P!AssignmentGuard(k) <=> G!AssignmentGuard(k)
  BY DEF P!AssignmentGuard, G!AssignmentGuard, P!NoAdvisor, G!NoAdvisor
<1>8. \A k : P!WorkGuard(k) <=> G!WorkGuard(k)
  <2>1. \A b : P!SomeApprover(b) <=> G!SomeApprover(b)
    BY DEF P!SomeApprover, G!SomeApprover
  <2>2. \A k : P!Trades(k)' <=> G!Trades(k)'
    BY <1>2 DEF P!Trades, G!Trades
  <2>3. \A k : P!StatusGuard(k) <=> G!StatusGuard(k)
    BY <1>2, <2>1, <2>2 DEF P!StatusGuard, G!StatusGuard, P!OpenStatuses, G!OpenStatuses
  <2>4. \A k : P!CaseGuard(k) <=> G!CaseGuard(k)
    BY <1>2 DEF P!CaseGuard, G!CaseGuard
  <2> QED BY <1>2, <2>3, <2>4 DEF P!WorkGuard, G!WorkGuard
<1> QED
  BY <1>3, <1>4, <1>5, <1>6, <1>7, <1>8 DEF P!AcceptedStep, G!AcceptedStep, P!Members, G!Members

-----------------------------------------------------------------------------
(* The theorems *)

LEMMA RefInvInit == Init => RefInv /\ P!Init
<1> SUFFICES ASSUME Init PROVE RefInv /\ P!Init
  OBVIOUS
<1>1. PICK s \in Scenarios : grants = s.grants /\ customer = s.customer /\ work = s.work
  BY DEF Init
<1>2. \A t \in Txns : ~Running(t)
  BY DEF Init, Running
<1>3. invitation = [k \in Customers |-> NoInvitation] /\ InvitationsTyped
  BY DEF Init, InvitationsTyped, NoInvitation, InvitationRow
<1>4. InvitationsSeen = [k \in Customers |-> NoInvitation]
  <2>1. \A k : ~ClaimedInTime(k)
    BY <1>2 DEF ClaimedInTime
  <2>2. \A k \in Customers : InvitationsSeen[k] = NoInvitation
    BY <1>3, <2>1, SeenRow
  <2> QED BY <2>2 DEF InvitationsSeen
<1>5. P!Init
  <2>1. /\ branch = [b \in Branches |-> "active"] /\ advisor = [k \in Customers |-> P!NoAdvisor]
        /\ InvitationsSeen = [k \in Customers |-> P!NoInvitation]
    BY <1>4 DEF Init, P!NoAdvisor, NoAdvisor, P!NoInvitation, NoInvitation
  <2>2. /\ grants \subseteq P!Members \X Branches /\ work \in [Customers -> P!WorkRow]
        /\ customer \in [Customers -> [branch : Branches, status : {"active"}, account : Accounts]
                                        \union {P!NoCustomer}]
    BY <1>1, ScenariosAssumption
    DEF Members, P!Members, WorkRow, P!WorkRow, OpenStatuses, P!OpenStatuses, NoCustomer,
        P!NoCustomer
  <2>3. \A k, c \in Customers :
          k # c => customer[k].account = Nobody \/ customer[k].account # customer[c].account
    BY <1>1, ScenariosAssumption
  <2>4. \A k \in Customers : work[k] # P!NoWork =>
           /\ P!Exists(k) /\ work[k].branch = customer[k].branch
           /\ work[k].status \in {"draft", "approved"} /\ ~work[k].case
    BY <1>1, ScenariosAssumption DEF NoWork, P!NoWork, P!Exists, NoCustomer, P!NoCustomer
  <2> QED BY <2>1, <2>2, <2>3, <2>4 DEF P!Init
<1>6. P!DeskInv
  BY <1>5, DeskConstants, P!DeskInvInit
<1>7. TypeOK
  BY <1>3, <1>6
  DEF InvitationsTyped, P!DeskInv, P!TypeOK, TypeOK, Members, P!Members, CustomerRow,
      P!CustomerRow,
      NoCustomer, P!NoCustomer, CustomerStatuses, P!CustomerStatuses, NoAdvisor, P!NoAdvisor,
      WorkRow, P!WorkRow, OpenStatuses, P!OpenStatuses
<1>8. FindingsHold
  BY <1>2 DEF FindingsHold
<1> QED BY <1>5, <1>6, <1>7, <1>8, KeyInvInit DEF RefInv

LEMMA NothingStep ==
    ASSUME RefInv, UNCHANGED vars
    PROVE  DeskStep /\ RefInv'
<1>1. UNCHANGED <<branch, grants, customer, invitation, advisor, work, asked, txn, locks, times>>
  BY DEF vars, tables
<1>2. InvitationsTyped /\ InvitationsTyped'
  BY <1>1 DEF RefInv, TypeOK, InvitationsTyped
<1>3. InvitationsSeen' = InvitationsSeen
  <2>1. \A k : ClaimedInTime(k)' <=> ClaimedInTime(k)
    BY <1>1 DEF ClaimedInTime, Running
  <2>2. \A k \in Customers : InvitationsSeen'[k] = InvitationsSeen[k]
    BY <1>1, <1>2, <2>1, SeenStays
  <2> QED BY <2>2 DEF InvitationsSeen
<1>4. DeskStep
  BY <1>1, <1>3 DEF DeskStep
<1>5. TypeOK' /\ WorkIsAtHome' /\ P!DeskInv'
  BY <1>2, <1>4, DeskKeepsItsInvariant
<1>6. FindingsHold'
  <2> SUFFICES ASSUME NEW u \in Txns, Running(u)'
               PROVE  Found(txn[u].req, txn[u].seen, txn[u].pc, locks[u])'
    BY DEF FindingsHold
  <2>1. Protected(locks[u])
    BY <1>1, NothingMoves
  <2> QED BY <1>1, <1>5, <2>1, FindingsStay DEF Running
<1>7. KeyInv'
  <2>1. \A q : KeyAt(q)' = KeyAt(q)
    BY <1>1 DEF KeyAt, ByCustomer
  <2> QED
    BY <1>1, <2>1
    DEF RefInv, KeyInv, RequestsOK, RequestOK, TxnsOK, RowsOK, LocksExclude, KeysAreHeld,
        CustomersAreHeld, HappensOnce, Keyed, Running
<1> QED BY <1>4, <1>5, <1>6, <1>7 DEF RefInv

LEMMA RefInvNext == RefInv /\ [Next]_vars => DeskStep /\ RefInv'
<1> SUFFICES ASSUME RefInv, [Next]_vars PROVE DeskStep /\ RefInv'
  OBVIOUS
<1>1. ASSUME NEW t \in Txns, NEW r \in asked, Begin(t, r) PROVE DeskStep /\ RefInv'
  BY <1>1, BeginStep
<1>2. ASSUME NEW t \in Txns, Step(t) PROVE DeskStep /\ RefInv'
  BY <1>2, StepStep
<1>3. ASSUME NEW t \in Txns, Commit(t) PROVE DeskStep /\ RefInv'
  BY <1>3, CommitStep
<1>4. ASSUME NEW t \in Txns, Rollback(t) PROVE DeskStep /\ RefInv'
  BY <1>4, RollbackStep
<1>5. ASSUME NEW k \in Customers, InvitationExpires(k) PROVE DeskStep /\ RefInv'
  BY <1>5, ExpiresStep
<1>6. CASE UNCHANGED vars
  BY <1>6, NothingStep
<1> QED BY <1>1, <1>2, <1>3, <1>4, <1>5, <1>6 DEF Next

LEMMA FindingsAlwaysHold == Spec => []RefInv
BY RefInvInit, RefInvNext, PTL DEF Spec

(* What the services check under row locks still holds when they write: however   *)
(* the transactions of any number of clients interleave, whatever commits is a    *)
(* command of the desk, done at once.                                           *)
THEOREM TransactionsAreCommands == Spec => ImplementsDesk
<1>1. Init => D!Init
  <2>1. P!Init => D!Init
    BY DEF P!Init, D!Init, P!Members, D!Members, P!NoCustomer, D!NoCustomer, P!WorkRow, D!WorkRow,
           P!OpenStatuses, D!OpenStatuses, P!NoWork, D!NoWork, P!Exists, D!Exists,
           P!NoInvitation, D!NoInvitation, P!NoAdvisor, D!NoAdvisor
  <2> QED BY <2>1, RefInvInit
<1>2. RefInv /\ [Next]_vars => [D!Next]_D!tables
  BY RefInvNext, SameDesk
<1> QED BY <1>1, <1>2, FindingsAlwaysHold, PTL DEF Spec, ImplementsDesk, D!Spec

(* No transaction comes past the checks of its service and is then refused by a   *)
(* trigger, whoever else commits meanwhile.                                     *)
THEOREM TriggersAcceptTransactions == Spec => ImplementsGuards
<1>1. Init => P!Bindings
  BY RefInvInit, DeskConstants, P!BindingsInit
<1>2. RefInv /\ P!Bindings /\ [Next]_vars => P!Bindings' /\ [G!AcceptedStep]_G!tables
  <2> SUFFICES ASSUME RefInv, P!Bindings, [Next]_vars
               PROVE  P!Bindings' /\ [G!AcceptedStep]_G!tables
    OBVIOUS
  <2>1. [P!Next]_P!tables
    BY RefInvNext DEF DeskStep, P!tables
  <2>2. P!Bindings'
    BY <2>1, DeskConstants, P!BindingsNext DEF RefInv, P!DeskInv
  <2>3. [P!AcceptedStep]_P!tables
    BY <2>1, DeskConstants, P!CommandsAccepted DEF RefInv
  <2>4. [G!AcceptedStep]_G!tables
    BY <2>3, SameGuards DEF P!tables, G!tables
  <2> QED BY <2>2, <2>4
<1> QED BY <1>1, <1>2, FindingsAlwaysHold, PTL DEF Spec, ImplementsGuards, G!GuardedDesk

(* The properties of the desk hold of its tables while transactions are under     *)
(* way: they never show a state no command could have left.                     *)
THEOREM TransactionsKeepTheDesk ==
    Spec => [](/\ WorkIsAtHome /\ ClosedIsEmpty /\ ApprovalsHaveAnApprover
               /\ AdvisorsHoldTheirRole /\ OneCustomerPerAccount)
<1>1. RefInv => /\ WorkIsAtHome /\ ClosedIsEmpty /\ ApprovalsHaveAnApprover
                /\ AdvisorsHoldTheirRole /\ OneCustomerPerAccount
  <2> SUFFICES ASSUME RefInv
               PROVE  /\ WorkIsAtHome /\ ClosedIsEmpty /\ ApprovalsHaveAnApprover
                      /\ AdvisorsHoldTheirRole /\ OneCustomerPerAccount
    OBVIOUS
  <2>1. \A k \in Customers : /\ InvitationsSeen[k].status = invitation[k].status
                             /\ InvitationsSeen[k].target = invitation[k].target
                             /\ InvitationsSeen[k].branch = invitation[k].branch
    BY SeenRow DEF RefInv, TypeOK, InvitationsTyped
  <2>2. ClosedIsEmpty
    BY <2>1
    DEF RefInv, P!DeskInv, P!ClosedIsEmpty, ClosedIsEmpty, NoCustomers, P!NoCustomers,
        NoPendingInvitation, P!NoPendingInvitation,
        NoAssignment, P!NoAssignment, NoGrant, P!NoGrant, Members, P!Members, OpenWork,
        P!OpenWork, OpenStatuses, P!OpenStatuses
  <2>3. ApprovalsHaveAnApprover
    BY DEF RefInv, P!DeskInv, P!ApprovalsHaveAnApprover, ApprovalsHaveAnApprover, AwaitsApproval,
           P!AwaitsApproval, IndependentApprovers, P!IndependentApprovers
  <2>4. AdvisorsHoldTheirRole
    BY DEF RefInv, P!DeskInv, P!AdvisorsHoldTheirRole, AdvisorsHoldTheirRole, NoAdvisor,
           P!NoAdvisor
  <2>5. OneCustomerPerAccount
    BY <2>1 DEF RefInv, P!DeskInv, P!OneCustomerPerAccount, OneCustomerPerAccount
  <2> QED BY HomeNow, <2>2, <2>3, <2>4, <2>5
<1> QED BY <1>1, FindingsAlwaysHold, PTL

-----------------------------------------------------------------------------
(* Who waits for whom.  Wants says which locks a command may ask for at which     *)
(* step, over all its steps, and that is what the argument needs of their lists.  *)

(* The commands that lock their branch before anything else *)
ByBranch ==
    {"create_customer", "deactivate_branch", "close_branch", "create_branch_role_grant",
     "revoke_branch_role_grant"}

(* The commands of members who may be approvers or advisors *)
ByStaff == Reviews \union {"create_quote", "request_cancellation"}

LowerBranch(r) == IF customer[r.k].branch < r.b THEN customer[r.k].branch ELSE r.b
UpperBranch(r) == IF customer[r.k].branch < r.b THEN r.b ELSE customer[r.k].branch

(* Where a step takes which lock.  The invitations of a target are locked only to  *)
(* refuse, and a manager who is none is refused once his membership is locked.    *)
WantsFirst(r, pc, l) ==
    /\ pc = 1 /\ l.mode = "update"
    /\ r.cmd \notin ByBranch => l.row = Customer(r.k)
    /\ r.cmd \in ByBranch => l.row = BranchRow(r.b)

WantsOwn(r, pc, l) ==
    \/ l.row = KeyRow(r)
    \/ l.row = Work(r.k) /\ r.cmd \notin ByBranch
    \/ /\ l.row = Invitation(r.k)
       /\ \/ r.cmd = "issue_customer_claim_invitation" /\ pc = 9
          \/ r.cmd = "revoke_customer_claim_invitation" /\ pc = 5
          \/ r.cmd = "claim_customer" /\ pc = 4
          \/ r.cmd = "transfer_customer_branch" /\ pc = 7

WantsBranch(r, pc, l) ==
    \/ /\ r.cmd \notin ByBranch \union {"transfer_customer_branch"}
       /\ pc = 2 \/ r.cmd \in {"deactivate_customer", "withdraw_consent"}
       /\ l = Lock(BranchRow(customer[r.k].branch), "share")
    \/ /\ r.cmd = "transfer_customer_branch" /\ l.mode = "update"
       /\ \/ pc = 4 /\ l.row = BranchRow(LowerBranch(r))
          \/ pc = 5 /\ l.row = BranchRow(UpperBranch(r))

WantsPeople(r, pc, l) ==
    /\ l.mode = "update"
    /\ \/ r.cmd = "revoke_branch_role_grant" /\ pc = 2 /\ l.row = Grant(r.p, r.b)
       \/ r.cmd = "create_branch_role_grant" /\ pc = 4 /\ l.row = Member(r.p)
       \/ /\ r.cmd = "assign_customer_advisor" /\ pc = 6
          /\ l.row \in {Grant(r.p, customer[r.k].branch), Member(r.p)}
       \/ /\ r.cmd = "transfer_customer_branch" /\ pc = 10 /\ r.p # Nobody
          /\ l.row \in {Grant(r.p, r.b), Member(r.p)}

WantsApprover(r, pc, l) ==
    /\ r.cmd \in {"submit_order", "request_cancellation"} /\ pc = KeyAt(r) + 1 /\ l.mode = "share"
    /\ \E p \in Approvers, b \in Branches : l.row \in {Grant(p, b), Member(p)}

WantsMember(r, pc, l) ==
    /\ pc <= 3 \/ (r.cmd = "transfer_customer_branch" /\ pc = 6)
    /\ l = Lock(Member(r.actor), "share")

WantsUser(r, pc, l) ==
    /\ l.mode = "update"
    /\ \/ r.cmd = "issue_customer_claim_invitation" /\ pc = 6 /\ l.row = User(r.p)
       \/ r.cmd = "claim_customer" /\ pc = 3 /\ l.row = User(r.actor)

WantsInvitations(r, pc, l) ==
    /\ r.cmd = "issue_customer_claim_invitation" /\ pc = 8
    /\ \E c \in Customers : /\ l.row = Invitation(c)
                            /\ invitation[c].status = "pending" /\ invitation[c].target = r.p

Wants(r, pc, step, l) ==
    \/ WantsFirst(r, pc, l) \/ WantsOwn(r, pc, l) \/ WantsBranch(r, pc, l) \/ WantsPeople(r, pc, l)
    \/ WantsApprover(r, pc, l) \/ WantsUser(r, pc, l)
    \/ WantsMember(r, pc, l) /\ (step.ok => r.actor \notin Members \/ (r.cmd \in ByStaff /\ pc = 3))
    \/ WantsInvitations(r, pc, l) /\ ~step.ok

Asks(r, pc, step) == \A l \in step.lock : Wants(r, pc, step, l)

LEMMA OrdinaryStepsAsk ==
    ASSUME NEW r, NEW seen, NEW pc, NEW statuses
    PROVE  /\ pc = 1 /\ r.cmd \notin ByBranch =>
                /\ Asks(r, pc, OwnCustomer(r)) /\ Asks(r, pc, BoundCustomer(r, seen))
                /\ Asks(r, pc, TradingCustomer(r, seen))
           /\ pc = 1 /\ r.cmd \in ByBranch => Asks(r, pc, OwnBranch(r.b, statuses))
           /\ /\ r.cmd \notin ByBranch \union {"transfer_customer_branch"}
              /\ pc = 2 \/ r.cmd \in {"deactivate_customer", "withdraw_consent"}
              => Asks(r, pc, Scope(r, statuses))
           /\ Asks(r, pc, Key(r))
           /\ pc \in 2..3 => Asks(r, pc, Manager(r))
           /\ pc = 3 /\ r.cmd \in ByStaff => Asks(r, pc, Actor(r))
<1>1. pc = 1 /\ r.cmd \notin ByBranch =>
        /\ Asks(r, pc, OwnCustomer(r)) /\ Asks(r, pc, BoundCustomer(r, seen))
        /\ Asks(r, pc, TradingCustomer(r, seen))
  BY DEF Asks, Wants, WantsFirst, OwnCustomer, BoundCustomer, TradingCustomer, Takes, Lock
<1>2. pc = 1 /\ r.cmd \in ByBranch => Asks(r, pc, OwnBranch(r.b, statuses))
  BY DEF Asks, Wants, WantsFirst, OwnBranch, Takes, Lock
<1>3. /\ r.cmd \notin ByBranch \union {"transfer_customer_branch"}
      /\ pc = 2 \/ r.cmd \in {"deactivate_customer", "withdraw_consent"}
      => Asks(r, pc, Scope(r, statuses))
  BY DEF Asks, Wants, WantsBranch, Scope, Takes
<1>4. Asks(r, pc, Key(r))
  BY DEF Asks, Wants, WantsOwn, Key, Takes, Lock
<1>5. pc \in 2..3 => Asks(r, pc, Manager(r))
  <2>1. Manager(r).lock = {Lock(Member(r.actor), "share")} /\ (Manager(r).ok => r.actor \notin Members)
    BY DEF Manager, Takes
  <2>2. pc \in 2..3 => WantsMember(r, pc, Lock(Member(r.actor), "share"))
    BY DEF WantsMember
  <2>3. PICK step : step = Manager(r)
    OBVIOUS
  <2> QED BY <2>1, <2>2, <2>3 DEF Asks, Wants
<1>6. pc = 3 /\ r.cmd \in ByStaff => Asks(r, pc, Actor(r))
  <2>1. Actor(r).lock = {Lock(Member(r.actor), "share")}
    BY DEF Actor, Takes
  <2>2. pc = 3 => WantsMember(r, pc, Lock(Member(r.actor), "share"))
    BY DEF WantsMember
  <2>3. PICK step : step = Actor(r)
    OBVIOUS
  <2> QED BY <2>1, <2>2, <2>3 DEF Asks, Wants
<1> QED BY <1>1, <1>2, <1>3, <1>4, <1>5, <1>6

LEMMA OwnRowsAsk ==
    ASSUME NEW r, NEW pc, NEW step
    PROVE  /\ step.lock = {} => Asks(r, pc, step)
           /\ r.cmd \notin ByBranch /\ step.lock = {Lock(Work(r.k), "update")} => Asks(r, pc, step)
           /\ /\ step.lock = {Lock(Invitation(r.k), "update")}
              /\ \/ r.cmd = "issue_customer_claim_invitation" /\ pc = 9
                 \/ r.cmd = "revoke_customer_claim_invitation" /\ pc = 5
                 \/ r.cmd = "claim_customer" /\ pc = 4
                 \/ r.cmd = "transfer_customer_branch" /\ pc = 7
              => Asks(r, pc, step)
BY DEF Asks, Wants, WantsOwn, Lock

LEMMA InvitationAsks ==
    ASSUME NEW r, NEW pc \in 1..9, r.cmd = "issue_customer_claim_invitation"
    PROVE  Asks(r, pc, issue_customer_claim_invitation(r)[pc])
<1>1. PICK steps : steps = issue_customer_claim_invitation(r)
  OBVIOUS
<1>2. /\ steps[1] = OwnCustomer(r) /\ steps[2] = Scope(r, New) /\ steps[3] = Manager(r)
      /\ steps[4] = Key(r) /\ steps[5].lock = {} /\ steps[6] = OwnUser(r.p) /\ steps[7].lock = {}
      /\ steps[8] = TargetInvitations(r) /\ steps[9].lock = {Lock(Invitation(r.k), "update")}
  BY <1>1 DEF issue_customer_claim_invitation, Reads, OwnInvitation, Takes
<1>3. r.cmd \notin ByBranch \union {"transfer_customer_branch"}
  BY DEF ByBranch
<1>4. Asks(r, 1, OwnCustomer(r)) /\ Asks(r, 2, Scope(r, New)) /\ Asks(r, 3, Manager(r)) /\ Asks(r, 4, Key(r))
  BY <1>3, OrdinaryStepsAsk
<1>5. Asks(r, 5, steps[5]) /\ Asks(r, 7, steps[7]) /\ Asks(r, 9, steps[9])
  BY <1>2, OwnRowsAsk
<1>6. Asks(r, 6, OwnUser(r.p))
  BY DEF Asks, Wants, WantsUser, OwnUser, Takes, Lock
<1>7. Asks(r, 8, TargetInvitations(r))
  <2>1. TargetInvitations(r).ok => ~InvitedElsewhere(r.p)
    BY DEF TargetInvitations
  <2>2. \A l \in TargetInvitations(r).lock :
          \E c \in Customers : /\ l.row = Invitation(c)
                              /\ invitation[c].status = "pending" /\ invitation[c].target = r.p
    BY DEF TargetInvitations, Lock
  <2> QED BY <2>1, <2>2 DEF Asks, Wants, WantsInvitations, InvitedElsewhere
<1> QED BY <1>1, <1>2, <1>4, <1>5, <1>6, <1>7

(* Command by command *)

LEMMA ApproverAsks ==
    ASSUME NEW r, NEW pc, TypeOK, r.cmd \in {"submit_order", "request_cancellation"}, pc = KeyAt(r) + 1
    PROVE  Asks(r, pc, SomeApprover(r))
<1> PICK home, one : /\ home = work[r.k].branch
                     /\ one = CHOOSE p \in IndependentApprovers(r.k, home) : TRUE
  OBVIOUS
<1>1. SomeApprover(r).lock =
        IF IndependentApprovers(r.k, home) = {} THEN {}
        ELSE {Lock(Grant(one, home), "share"), Lock(Member(one), "share")}
  BY DEF SomeApprover
<1>2. CASE IndependentApprovers(r.k, home) = {}
  BY <1>1, <1>2 DEF Asks
<1>3. CASE IndependentApprovers(r.k, home) # {}
  <2>1. one \in Approvers /\ <<one, home>> \in grants
    BY <1>3 DEF IndependentApprovers
  <2>2. home \in Branches
    BY <2>1 DEF TypeOK
  <2> QED BY <1>1, <1>3, <2>1, <2>2 DEF Asks, Wants, WantsApprover, Lock
<1> QED BY <1>2, <1>3

LEMMA CreationAsks ==
    ASSUME NEW r, NEW pc \in 1..4, r.cmd = "create_customer"
    PROVE  Asks(r, pc, create_customer(r)[pc])
<1>1. PICK steps : steps = create_customer(r)
  OBVIOUS
<1>2. /\ steps[1] = OwnBranch(r.b, New) /\ steps[2] = Manager(r) /\ steps[3] = Key(r)
      /\ steps[4].lock = {}
  BY <1>1 DEF create_customer, Reads
<1>3. r.cmd \in ByBranch
  BY DEF ByBranch
<1>4. Asks(r, 1, OwnBranch(r.b, New)) /\ Asks(r, 2, Manager(r)) /\ Asks(r, 3, Key(r))
  BY <1>3, OrdinaryStepsAsk
<1>5. Asks(r, 4, steps[4])
  BY <1>2, <1>3, OwnRowsAsk
<1> QED BY <1>1, <1>2, <1>4, <1>5

LEMMA RevocationAsks ==
    ASSUME NEW r, NEW pc \in 1..5, r.cmd = "revoke_customer_claim_invitation"
    PROVE  Asks(r, pc, revoke_customer_claim_invitation(r)[pc])
<1>1. PICK steps : steps = revoke_customer_claim_invitation(r)
  OBVIOUS
<1>2. /\ steps[1] = OwnCustomer(r) /\ steps[2] = Scope(r, AnyStatus) /\ steps[3] = Manager(r)
      /\ steps[4] = Key(r) /\ steps[5].lock = {Lock(Invitation(r.k), "update")}
  BY <1>1 DEF revoke_customer_claim_invitation, OwnInvitation, Takes
<1>3. r.cmd \notin ByBranch \union {"transfer_customer_branch"}
  BY DEF ByBranch
<1>4. /\ Asks(r, 1, OwnCustomer(r)) /\ Asks(r, 2, Scope(r, AnyStatus)) /\ Asks(r, 3, Manager(r))
      /\ Asks(r, 4, Key(r))
  BY <1>3, OrdinaryStepsAsk
<1>5. Asks(r, 5, steps[5])
  BY <1>2, <1>3, OwnRowsAsk
<1> QED BY <1>1, <1>2, <1>4, <1>5

LEMMA ClaimAsks ==
    ASSUME NEW r, NEW seen, NEW pc \in 1..7, r.cmd = "claim_customer"
    PROVE  Asks(r, pc, claim_customer(r, seen)[pc])
<1>1. PICK steps : steps = claim_customer(r, seen)
  OBVIOUS
<1>2. /\ steps[1] = BoundCustomer(r, seen) /\ steps[2] = Scope(r, New)
      /\ steps[3] = OwnUser(r.actor) /\ steps[4].lock = {Lock(Invitation(r.k), "update")}
      /\ steps[5] = Key(r) /\ steps[6].lock = {} /\ steps[7].lock = {}
  BY <1>1 DEF claim_customer, OwnInvitation, Reads, Takes
<1>3. r.cmd \notin ByBranch \union {"transfer_customer_branch"}
  BY DEF ByBranch
<1>4. Asks(r, 1, BoundCustomer(r, seen)) /\ Asks(r, 2, Scope(r, New)) /\ Asks(r, 5, Key(r))
  BY <1>3, OrdinaryStepsAsk
<1>5. Asks(r, 4, steps[4]) /\ Asks(r, 6, steps[6]) /\ Asks(r, 7, steps[7])
  BY <1>2, <1>3, OwnRowsAsk
<1>6. Asks(r, 3, OwnUser(r.actor))
  BY DEF Asks, Wants, WantsUser, OwnUser, Takes, Lock
<1> QED BY <1>1, <1>2, <1>4, <1>5, <1>6

LEMMA ActivationAsks ==
    ASSUME NEW r, NEW pc \in 1..6, r.cmd = "activate_customer"
    PROVE  Asks(r, pc, activate_customer(r)[pc])
<1>1. PICK steps : steps = activate_customer(r)
  OBVIOUS
<1>2. /\ steps[1] = OwnCustomer(r) /\ steps[2] = Scope(r, New) /\ steps[3] = Manager(r)
      /\ steps[4] = Key(r) /\ steps[5].lock = {} /\ steps[6].lock = {}
  BY <1>1 DEF activate_customer, Reads
<1>3. r.cmd \notin ByBranch \union {"transfer_customer_branch"}
  BY DEF ByBranch
<1>4. /\ Asks(r, 1, OwnCustomer(r)) /\ Asks(r, 2, Scope(r, New)) /\ Asks(r, 3, Manager(r))
      /\ Asks(r, 4, Key(r))
  BY <1>3, OrdinaryStepsAsk
<1>5. Asks(r, 5, steps[5]) /\ Asks(r, 6, steps[6])
  BY <1>2, <1>3, OwnRowsAsk
<1> QED BY <1>1, <1>2, <1>4, <1>5

LEMMA WithdrawalAsks ==
    ASSUME NEW r, NEW pc \in 1..5, r.cmd = "withdraw_consent"
    PROVE  Asks(r, pc, withdraw_consent(r)[pc])
<1>1. PICK steps : steps = withdraw_consent(r)
  OBVIOUS
<1>2. /\ steps[1] = OwnCustomer(r) /\ steps[2] = Key(r) /\ steps[3].lock = {}
      /\ steps[4] = Scope(r, AnyStatus) /\ steps[5].lock = {Lock(Work(r.k), "update")}
  BY <1>1 DEF withdraw_consent, OwnWork, Reads, Settles, Takes
<1>3. r.cmd \notin ByBranch \union {"transfer_customer_branch"}
  BY DEF ByBranch
<1>4. Asks(r, 1, OwnCustomer(r)) /\ Asks(r, 2, Key(r)) /\ Asks(r, 4, Scope(r, AnyStatus))
  BY <1>3, OrdinaryStepsAsk
<1>5. Asks(r, 3, steps[3]) /\ Asks(r, 5, steps[5])
  BY <1>2, <1>3, OwnRowsAsk
<1> QED BY <1>1, <1>2, <1>4, <1>5

LEMMA AssignmentAsks ==
    ASSUME NEW r, NEW pc \in 1..7, r.cmd = "assign_customer_advisor"
    PROVE  Asks(r, pc, assign_customer_advisor(r)[pc])
<1>1. PICK steps : steps = assign_customer_advisor(r)
  OBVIOUS
<1>2. /\ steps[1] = OwnCustomer(r) /\ steps[2] = Scope(r, New) /\ steps[3] = Manager(r)
      /\ steps[4] = Key(r) /\ steps[5].lock = {}
      /\ steps[6] = AdvisorGrant(r.p, customer[r.k].branch) /\ steps[7].lock = {}
  BY <1>1 DEF assign_customer_advisor, Reads
<1>3. r.cmd \notin ByBranch \union {"transfer_customer_branch"}
  BY DEF ByBranch
<1>4. /\ Asks(r, 1, OwnCustomer(r)) /\ Asks(r, 2, Scope(r, New)) /\ Asks(r, 3, Manager(r))
      /\ Asks(r, 4, Key(r))
  BY <1>3, OrdinaryStepsAsk
<1>5. Asks(r, 5, steps[5]) /\ Asks(r, 7, steps[7])
  BY <1>2, <1>3, OwnRowsAsk
<1>6. Asks(r, 6, AdvisorGrant(r.p, customer[r.k].branch))
  BY DEF Asks, Wants, WantsPeople, AdvisorGrant, Lock
<1> QED BY <1>1, <1>2, <1>4, <1>5, <1>6

LEMMA UnassignmentAsks ==
    ASSUME NEW r, NEW pc \in 1..5, r.cmd = "end_customer_advisor_assignment"
    PROVE  Asks(r, pc, end_customer_advisor_assignment(r)[pc])
<1>1. PICK steps : steps = end_customer_advisor_assignment(r)
  OBVIOUS
<1>2. /\ steps[1] = OwnCustomer(r) /\ steps[2] = Scope(r, AnyStatus) /\ steps[3] = Manager(r)
      /\ steps[4] = Key(r) /\ steps[5].lock = {}
  BY <1>1 DEF end_customer_advisor_assignment, Reads
<1>3. r.cmd \notin ByBranch \union {"transfer_customer_branch"}
  BY DEF ByBranch
<1>4. /\ Asks(r, 1, OwnCustomer(r)) /\ Asks(r, 2, Scope(r, AnyStatus)) /\ Asks(r, 3, Manager(r))
      /\ Asks(r, 4, Key(r))
  BY <1>3, OrdinaryStepsAsk
<1>5. Asks(r, 5, steps[5])
  BY <1>2, <1>3, OwnRowsAsk
<1> QED BY <1>1, <1>2, <1>4, <1>5

LEMMA BranchDeactivationAsks ==
    ASSUME NEW r, NEW pc \in 1..4, r.cmd = "deactivate_branch"
    PROVE  Asks(r, pc, deactivate_branch(r)[pc])
<1>1. PICK steps : steps = deactivate_branch(r)
  OBVIOUS
<1>2. /\ steps[1] = OwnBranch(r.b, AnyStatus) /\ steps[2] = Manager(r) /\ steps[3] = Key(r)
      /\ steps[4].lock = {}
  BY <1>1 DEF deactivate_branch, Reads
<1>3. r.cmd \in ByBranch
  BY DEF ByBranch
<1>4. Asks(r, 1, OwnBranch(r.b, AnyStatus)) /\ Asks(r, 2, Manager(r)) /\ Asks(r, 3, Key(r))
  BY <1>3, OrdinaryStepsAsk
<1>5. Asks(r, 4, steps[4])
  BY <1>2, <1>3, OwnRowsAsk
<1> QED BY <1>1, <1>2, <1>4, <1>5

LEMMA ClosureAsks ==
    ASSUME NEW r, NEW pc \in 1..12, r.cmd = "close_branch"
    PROVE  Asks(r, pc, close_branch(r)[pc])
<1>1. PICK steps : steps = close_branch(r)
  OBVIOUS
<1>2. /\ steps[1] = OwnBranch(r.b, AnyStatus) /\ steps[2] = Manager(r) /\ steps[3] = Key(r)
      /\ steps[4].lock = {} /\ steps[5].lock = {} /\ steps[6].lock = {} /\ steps[7].lock = {}
      /\ steps[8].lock = {} /\ steps[9].lock = {} /\ steps[10].lock = {} /\ steps[11].lock = {}
      /\ steps[12].lock = {}
  BY <1>1 DEF close_branch, Readiness, Reads
<1>3. r.cmd \in ByBranch
  BY DEF ByBranch
<1>4. Asks(r, 1, OwnBranch(r.b, AnyStatus)) /\ Asks(r, 2, Manager(r)) /\ Asks(r, 3, Key(r))
  BY <1>3, OrdinaryStepsAsk
<1>5. /\ Asks(r, 4, steps[4]) /\ Asks(r, 5, steps[5]) /\ Asks(r, 6, steps[6])
      /\ Asks(r, 7, steps[7]) /\ Asks(r, 8, steps[8]) /\ Asks(r, 9, steps[9])
      /\ Asks(r, 10, steps[10]) /\ Asks(r, 11, steps[11]) /\ Asks(r, 12, steps[12])
  BY <1>2, <1>3, OwnRowsAsk
<1> QED BY <1>1, <1>2, <1>4, <1>5

LEMMA GrantAsks ==
    ASSUME NEW r, NEW pc \in 1..5, r.cmd = "create_branch_role_grant"
    PROVE  Asks(r, pc, create_branch_role_grant(r)[pc])
<1>1. PICK steps : steps = create_branch_role_grant(r)
  OBVIOUS
<1>2. /\ steps[1] = OwnBranch(r.b, New) /\ steps[2] = Manager(r) /\ steps[3] = Key(r)
      /\ steps[4].lock = {Lock(Member(r.p), "update")} /\ steps[5].lock = {}
  BY <1>1 DEF create_branch_role_grant, Reads, Takes
<1>3. r.cmd \in ByBranch
  BY DEF ByBranch
<1>4. Asks(r, 1, OwnBranch(r.b, New)) /\ Asks(r, 2, Manager(r)) /\ Asks(r, 3, Key(r))
  BY <1>3, OrdinaryStepsAsk
<1>5. Asks(r, 5, steps[5])
  BY <1>2, <1>3, OwnRowsAsk
<1>6. Asks(r, 4, steps[4])
  BY <1>2 DEF Asks, Wants, WantsPeople, Lock
<1> QED BY <1>1, <1>2, <1>4, <1>5, <1>6

LEMMA GrantRevocationAsks ==
    ASSUME NEW r, NEW pc \in 1..7, r.cmd = "revoke_branch_role_grant"
    PROVE  Asks(r, pc, revoke_branch_role_grant(r)[pc])
<1>1. PICK steps : steps = revoke_branch_role_grant(r)
  OBVIOUS
<1>2. /\ steps[1] = OwnBranch(r.b, AnyStatus)
      /\ steps[2].lock = {Lock(Grant(r.p, r.b), "update")} /\ steps[3] = Manager(r)
      /\ steps[4] = Key(r) /\ steps[5].lock = {} /\ steps[6].lock = {} /\ steps[7].lock = {}
  BY <1>1 DEF revoke_branch_role_grant, Reads, Takes
<1>3. r.cmd \in ByBranch
  BY DEF ByBranch
<1>4. Asks(r, 1, OwnBranch(r.b, AnyStatus)) /\ Asks(r, 3, Manager(r)) /\ Asks(r, 4, Key(r))
  BY <1>3, OrdinaryStepsAsk
<1>5. Asks(r, 5, steps[5]) /\ Asks(r, 6, steps[6]) /\ Asks(r, 7, steps[7])
  BY <1>2, <1>3, OwnRowsAsk
<1>6. Asks(r, 2, steps[2])
  BY <1>2 DEF Asks, Wants, WantsPeople, Lock
<1> QED BY <1>1, <1>2, <1>4, <1>5, <1>6

LEMMA QuoteAsks ==
    ASSUME NEW r, NEW seen, NEW pc \in 1..5, r.cmd = "create_quote"
    PROVE  Asks(r, pc, create_quote(r, seen)[pc])
<1>1. PICK steps : steps = create_quote(r, seen)
  OBVIOUS
<1>2. /\ steps[1] = TradingCustomer(r, seen) /\ steps[2] = Scope(r, New) /\ steps[3] = Actor(r)
      /\ steps[4] = Key(r) /\ steps[5].lock = {}
  BY <1>1 DEF create_quote, Reads
<1>3. r.cmd \notin ByBranch \union {"transfer_customer_branch"} /\ r.cmd \in ByStaff
  BY DEF ByBranch, ByStaff, Reviews
<1>4. /\ Asks(r, 1, TradingCustomer(r, seen)) /\ Asks(r, 2, Scope(r, New))
      /\ Asks(r, 3, Actor(r)) /\ Asks(r, 4, Key(r))
  BY <1>3, OrdinaryStepsAsk
<1>5. Asks(r, 5, steps[5])
  BY <1>2, <1>3, OwnRowsAsk
<1> QED BY <1>1, <1>2, <1>4, <1>5

LEMMA OrderAsks ==
    ASSUME NEW r, NEW seen, NEW pc \in 1..5, r.cmd = "create_order"
    PROVE  Asks(r, pc, create_order(r, seen)[pc])
<1>1. PICK steps : steps = create_order(r, seen)
  OBVIOUS
<1>2. /\ steps[1] = TradingCustomer(r, seen) /\ steps[2] = Scope(r, New)
      /\ steps[3].lock = {Lock(Work(r.k), "update")} /\ steps[4] = Key(r) /\ steps[5].lock = {}
  BY <1>1 DEF create_order, OwnWork, Reads, Takes
<1>3. r.cmd \notin ByBranch \union {"transfer_customer_branch"}
  BY DEF ByBranch
<1>4. Asks(r, 1, TradingCustomer(r, seen)) /\ Asks(r, 2, Scope(r, New)) /\ Asks(r, 4, Key(r))
  BY <1>3, OrdinaryStepsAsk
<1>5. Asks(r, 3, steps[3]) /\ Asks(r, 5, steps[5])
  BY <1>2, <1>3, OwnRowsAsk
<1> QED BY <1>1, <1>2, <1>4, <1>5

LEMMA SubmissionAsks ==
    ASSUME NEW r, NEW seen, NEW pc \in 1..6, r.cmd = "submit_order", TypeOK
    PROVE  Asks(r, pc, submit_order(r, seen)[pc])
<1>1. PICK steps : steps = submit_order(r, seen)
  OBVIOUS
<1>2. /\ steps[1] = TradingCustomer(r, seen) /\ steps[2] = Scope(r, New)
      /\ steps[3].lock = {Lock(Work(r.k), "update")} /\ steps[4] = Key(r)
      /\ steps[5] = SomeApprover(r) /\ steps[6].lock = {}
  BY <1>1 DEF submit_order, OwnWork, Reads, Takes
<1>3. r.cmd \notin ByBranch \union {"transfer_customer_branch"}
  BY DEF ByBranch
<1>4. Asks(r, 1, TradingCustomer(r, seen)) /\ Asks(r, 2, Scope(r, New)) /\ Asks(r, 4, Key(r))
  BY <1>3, OrdinaryStepsAsk
<1>5. Asks(r, 3, steps[3]) /\ Asks(r, 6, steps[6])
  BY <1>2, <1>3, OwnRowsAsk
<1>6. Asks(r, 5, SomeApprover(r))
  <2>1. KeyAt(r) = 4
    BY DEF KeyAt, EarlyKey, LateKey
  <2> QED BY <2>1, ApproverAsks
<1> QED BY <1>1, <1>2, <1>4, <1>5, <1>6

LEMMA ApprovalAsks ==
    ASSUME NEW r, NEW seen, NEW pc \in 1..7, r.cmd = "approve_order"
    PROVE  Asks(r, pc, approve_order(r, seen)[pc])
<1>1. PICK steps : steps = approve_order(r, seen)
  OBVIOUS
<1>2. /\ steps[1] = TradingCustomer(r, seen) /\ steps[2] = Scope(r, New) /\ steps[3] = Actor(r)
      /\ steps[4].lock = {} /\ steps[5].lock = {Lock(Work(r.k), "update")} /\ steps[6] = Key(r)
      /\ steps[7].lock = {}
  BY <1>1 DEF approve_order, OwnWork, Reads, Reviewer, Takes
<1>3. r.cmd \notin ByBranch \union {"transfer_customer_branch"} /\ r.cmd \in ByStaff
  BY DEF ByBranch, ByStaff, Reviews
<1>4. /\ Asks(r, 1, TradingCustomer(r, seen)) /\ Asks(r, 2, Scope(r, New))
      /\ Asks(r, 3, Actor(r)) /\ Asks(r, 6, Key(r))
  BY <1>3, OrdinaryStepsAsk
<1>5. Asks(r, 4, steps[4]) /\ Asks(r, 5, steps[5]) /\ Asks(r, 7, steps[7])
  BY <1>2, <1>3, OwnRowsAsk
<1> QED BY <1>1, <1>2, <1>4, <1>5

LEMMA RejectionAsks ==
    ASSUME NEW r, NEW seen, NEW pc \in 1..7, r.cmd = "reject_order"
    PROVE  Asks(r, pc, reject_order(r, seen)[pc])
<1>1. PICK steps : steps = reject_order(r, seen)
  OBVIOUS
<1>2. /\ steps[1] = BoundCustomer(r, seen) /\ steps[2] = Scope(r, Drain) /\ steps[3] = Actor(r)
      /\ steps[4].lock = {} /\ steps[5].lock = {Lock(Work(r.k), "update")} /\ steps[6] = Key(r)
      /\ steps[7].lock = {}
  BY <1>1 DEF reject_order, OwnWork, Reads, Reviewer, Takes
<1>3. r.cmd \notin ByBranch \union {"transfer_customer_branch"} /\ r.cmd \in ByStaff
  BY DEF ByBranch, ByStaff, Reviews
<1>4. /\ Asks(r, 1, BoundCustomer(r, seen)) /\ Asks(r, 2, Scope(r, Drain))
      /\ Asks(r, 3, Actor(r)) /\ Asks(r, 6, Key(r))
  BY <1>3, OrdinaryStepsAsk
<1>5. Asks(r, 4, steps[4]) /\ Asks(r, 5, steps[5]) /\ Asks(r, 7, steps[7])
  BY <1>2, <1>3, OwnRowsAsk
<1> QED BY <1>1, <1>2, <1>4, <1>5

LEMMA CaseReviewAsks ==
    ASSUME NEW r, NEW seen, NEW ok, NEW pc \in 1..7, r.cmd \in {"approve_cancellation", "reject_cancellation"}
    PROVE  Asks(r, pc, review_cancellation(r, seen, ok)[pc])
<1>1. PICK steps : steps = review_cancellation(r, seen, ok)
  OBVIOUS
<1>2. /\ steps[1] = BoundCustomer(r, seen) /\ steps[2] = Scope(r, Drain) /\ steps[3] = Actor(r)
      /\ steps[4].lock = {} /\ steps[5].lock = {Lock(Work(r.k), "update")} /\ steps[6] = Key(r)
      /\ steps[7].lock = {}
  BY <1>1 DEF review_cancellation, OwnWork, Reads, Reviewer, Takes
<1>3. r.cmd \notin ByBranch \union {"transfer_customer_branch"} /\ r.cmd \in ByStaff
  BY DEF ByBranch, ByStaff, Reviews
<1>4. /\ Asks(r, 1, BoundCustomer(r, seen)) /\ Asks(r, 2, Scope(r, Drain))
      /\ Asks(r, 3, Actor(r)) /\ Asks(r, 6, Key(r))
  BY <1>3, OrdinaryStepsAsk
<1>5. Asks(r, 4, steps[4]) /\ Asks(r, 5, steps[5]) /\ Asks(r, 7, steps[7])
  BY <1>2, <1>3, OwnRowsAsk
<1> QED BY <1>1, <1>2, <1>4, <1>5

LEMMA DeactivationAsks ==
    ASSUME NEW r, NEW pc \in 1..Len(deactivate_customer(r)), r.cmd = "deactivate_customer"
    PROVE  Asks(r, pc, deactivate_customer(r)[pc])
<1>1. PICK steps : steps = deactivate_customer(r)
  OBVIOUS
<1>2. r.cmd \notin ByBranch \union {"transfer_customer_branch"}
  BY DEF ByBranch
<1>3. /\ Asks(r, 1, OwnCustomer(r)) /\ Asks(r, 3, Manager(r))
      /\ \A i : Asks(r, i, Key(r)) /\ Asks(r, i, Scope(r, AnyStatus))
  BY <1>2, OrdinaryStepsAsk
<1>4. \A i : steps[i].lock \in {{}, {Lock(Work(r.k), "update")}} => Asks(r, i, steps[i])
  BY <1>2, OwnRowsAsk
<1>5. CASE ByCustomer(r)
  <2>1. /\ Len(steps) = 5 /\ steps[1] = OwnCustomer(r) /\ steps[2] = Key(r) /\ steps[3].lock = {}
        /\ steps[4] = Scope(r, AnyStatus) /\ steps[5].lock = {Lock(Work(r.k), "update")}
    <3>1. steps[3] = Reads(customer[r.k].status # "inactive")
      BY <1>1, <1>5, OwnDeactivationSteps
    <3>2. steps[3].lock = {}
      BY <3>1 DEF Reads
    <3> QED BY <1>1, <1>5, <3>2, OwnDeactivationSteps
  <2>2. Asks(r, 3, steps[3]) /\ Asks(r, 5, steps[5])
    BY <1>4, <2>1
  <2> QED BY <1>1, <1>3, <2>1, <2>2
<1>6. CASE ~ByCustomer(r)
  <2>1. /\ Len(steps) = 7 /\ steps[1] = OwnCustomer(r) /\ steps[2] = Scope(r, AnyStatus)
        /\ steps[3] = Manager(r) /\ steps[4] = Key(r) /\ steps[5].lock = {}
        /\ steps[6] = Scope(r, AnyStatus) /\ steps[7].lock = {Lock(Work(r.k), "update")}
    <3>1. steps[5] = Reads(customer[r.k].status # "inactive")
      BY <1>1, <1>6, OrderedDeactivationSteps
    <3>2. steps[5].lock = {}
      BY <3>1 DEF Reads
    <3> QED BY <1>1, <1>6, <3>2, OrderedDeactivationSteps
  <2>2. Asks(r, 5, steps[5]) /\ Asks(r, 7, steps[7])
    BY <1>4, <2>1
  <2> QED BY <1>1, <1>3, <2>1, <2>2
<1> QED BY <1>5, <1>6

LEMMA CancellationAsks ==
    ASSUME NEW r, NEW seen, NEW pc \in 1..Len(request_cancellation(r, seen)), TypeOK,
           r.cmd = "request_cancellation"
    PROVE  Asks(r, pc, request_cancellation(r, seen)[pc])
<1>1. PICK steps : steps = request_cancellation(r, seen)
  OBVIOUS
<1>2. r.cmd \notin ByBranch \union {"transfer_customer_branch"} /\ r.cmd \in ByStaff
  BY DEF ByBranch, ByStaff
<1>3. /\ Asks(r, 1, BoundCustomer(r, seen)) /\ Asks(r, 2, Scope(r, Drain)) /\ Asks(r, 3, Actor(r))
      /\ \A i : Asks(r, i, Key(r))
  BY <1>2, OrdinaryStepsAsk
<1>4. \A i : steps[i].lock \in {{}, {Lock(Work(r.k), "update")}} => Asks(r, i, steps[i])
  BY <1>2, OwnRowsAsk
<1>5. CASE ByCustomer(r)
  <2>1. /\ Len(steps) = 6 /\ steps[1] = BoundCustomer(r, seen) /\ steps[2] = Scope(r, Drain)
        /\ steps[3].lock = {Lock(Work(r.k), "update")} /\ steps[4] = Key(r)
        /\ steps[5] = SomeApprover(r) /\ steps[6].lock = {}
    BY <1>1, <1>5 DEF request_cancellation, ByCustomer, OwnWork, Takes, Reads
  <2>2. Asks(r, 3, steps[3]) /\ Asks(r, 6, steps[6])
    BY <1>4, <2>1
  <2>3. Asks(r, 5, SomeApprover(r))
    <3>1. KeyAt(r) = 4
      BY <1>5 DEF KeyAt, EarlyKey
    <3> QED BY <3>1, ApproverAsks
  <2> QED BY <1>1, <1>3, <2>1, <2>2, <2>3
<1>6. CASE ~ByCustomer(r)
  <2>1. /\ Len(steps) = 7 /\ steps[1] = BoundCustomer(r, seen) /\ steps[2] = Scope(r, Drain)
        /\ steps[3] = Actor(r) /\ steps[4].lock = {Lock(Work(r.k), "update")} /\ steps[5] = Key(r)
        /\ steps[6] = SomeApprover(r) /\ steps[7].lock = {}
    BY <1>1, <1>6 DEF request_cancellation, ByCustomer, OwnWork, Takes, Reads
  <2>2. Asks(r, 4, steps[4]) /\ Asks(r, 7, steps[7])
    BY <1>4, <2>1
  <2>3. Asks(r, 6, SomeApprover(r))
    <3>1. KeyAt(r) = 5
      BY <1>6 DEF KeyAt, LateKey
    <3> QED BY <3>1, ApproverAsks
  <2> QED BY <1>1, <1>3, <2>1, <2>2, <2>3
<1> QED BY <1>5, <1>6

LEMMA TransferAsks ==
    ASSUME NEW r, NEW pc \in 1..Len(transfer_customer_branch(r)),
           r.cmd = "transfer_customer_branch"
    PROVE  Asks(r, pc, transfer_customer_branch(r)[pc])
<1>1. PICK steps : steps = transfer_customer_branch(r)
  OBVIOUS
<1>2. TransferSteps(r, steps)
  BY <1>1, TransferList
<1>3. r.cmd \notin ByBranch
  BY DEF ByBranch
<1>4. Asks(r, 1, OwnCustomer(r)) /\ Asks(r, 2, Key(r))
  BY <1>3, OrdinaryStepsAsk
<1>5. Asks(r, 4, steps[4]) /\ Asks(r, 5, steps[5])
  <2>1. \A b, statuses : OwnBranch(b, statuses).lock = {Lock(BranchRow(b), "update")}
    BY DEF OwnBranch, Takes
  <2>2. /\ BothBranches(r)[1].lock = {Lock(BranchRow(LowerBranch(r)), "update")}
        /\ BothBranches(r)[2].lock = {Lock(BranchRow(UpperBranch(r)), "update")}
    <3>1. CASE customer[r.k].branch < r.b
      BY <2>1, <3>1 DEF BothBranches, LowerBranch, UpperBranch
    <3>2. CASE ~(customer[r.k].branch < r.b)
      BY <2>1, <3>2 DEF BothBranches, LowerBranch, UpperBranch
    <3> QED BY <3>1, <3>2
  <2>3. /\ WantsBranch(r, 4, Lock(BranchRow(LowerBranch(r)), "update"))
        /\ WantsBranch(r, 5, Lock(BranchRow(UpperBranch(r)), "update"))
    BY DEF WantsBranch, Lock
  <2>4. /\ steps[4].lock = {Lock(BranchRow(LowerBranch(r)), "update")}
        /\ steps[5].lock = {Lock(BranchRow(UpperBranch(r)), "update")}
    BY <1>2, <2>2 DEF TransferSteps
  <2> QED BY <2>3, <2>4 DEF Asks, Wants
<1>6. Asks(r, 6, Manager(r))
  <2>1. Manager(r).lock = {Lock(Member(r.actor), "share")} /\ (Manager(r).ok => r.actor \notin Members)
    BY DEF Manager, Takes
  <2>2. WantsMember(r, 6, Lock(Member(r.actor), "share"))
    BY DEF WantsMember
  <2>3. PICK step : step = Manager(r)
    OBVIOUS
  <2> QED BY <2>1, <2>2, <2>3 DEF Asks, Wants
<1>7. Asks(r, 3, steps[3]) /\ Asks(r, 7, steps[7]) /\ Asks(r, 8, steps[8])
  <2>1. /\ steps[3].lock = {} /\ steps[7].lock = {Lock(Invitation(r.k), "update")}
        /\ steps[8].lock = {Lock(Work(r.k), "update")}
    BY <1>2 DEF TransferSteps, NoOpenWork, OwnInvitation, OwnWork, Takes, Reads
  <2> QED BY <1>3, <2>1, OwnRowsAsk
<1>8. r.p # Nobody => Asks(r, 9, steps[9]) /\ Asks(r, 10, AdvisorGrant(r.p, r.b))
  <2>1. r.p # Nobody => steps[9].lock = {}
    BY <1>2 DEF TransferSteps, Reads
  <2>2. r.p # Nobody => Asks(r, 9, steps[9])
    BY <2>1, OwnRowsAsk
  <2>3. r.p # Nobody => Asks(r, 10, AdvisorGrant(r.p, r.b))
    BY DEF Asks, Wants, WantsPeople, AdvisorGrant, Lock
  <2> QED BY <2>2, <2>3
<1>9. CASE r.p = Nobody
  <2>1. pc \in 1..8
    BY <1>1, <1>2, <1>9 DEF TransferSteps
  <2> QED BY <1>1, <1>2, <1>4, <1>5, <1>6, <1>7, <2>1 DEF TransferSteps
<1>10. CASE r.p # Nobody
  <2>1. pc \in 1..10 /\ steps[10] = AdvisorGrant(r.p, r.b)
    BY <1>1, <1>2, <1>10 DEF TransferSteps
  <2> QED BY <1>1, <1>2, <1>4, <1>5, <1>6, <1>7, <1>8, <1>10, <2>1 DEF TransferSteps
<1> QED BY <1>9, <1>10

(* Whatever step a command is at, its locks are the ones it wants there. *)
LEMMA EveryStepAsks ==
    ASSUME NEW r, NEW seen, Asked(r), TypeOK, NEW pc \in 1..Len(CommandSteps(r, seen))
    PROVE  Asks(r, pc, CommandSteps(r, seen)[pc])
<1>1. CASE r.cmd = "create_customer"
  <2>1. CommandSteps(r, seen) = create_customer(r)
    BY <1>1 DEF CommandSteps
  <2>2. Len(create_customer(r)) = 4
    BY DEF create_customer
  <2> QED BY <1>1, <2>1, <2>2, CreationAsks
<1>2. CASE r.cmd = "issue_customer_claim_invitation"
  <2>1. CommandSteps(r, seen) = issue_customer_claim_invitation(r)
    BY <1>2 DEF CommandSteps
  <2>2. Len(issue_customer_claim_invitation(r)) = 9
    BY DEF issue_customer_claim_invitation
  <2> QED BY <1>2, <2>1, <2>2, InvitationAsks
<1>3. CASE r.cmd = "revoke_customer_claim_invitation"
  <2>1. CommandSteps(r, seen) = revoke_customer_claim_invitation(r)
    BY <1>3 DEF CommandSteps
  <2>2. Len(revoke_customer_claim_invitation(r)) = 5
    BY DEF revoke_customer_claim_invitation
  <2> QED BY <1>3, <2>1, <2>2, RevocationAsks
<1>4. CASE r.cmd = "claim_customer"
  <2>1. CommandSteps(r, seen) = claim_customer(r, seen)
    BY <1>4 DEF CommandSteps
  <2>2. Len(claim_customer(r, seen)) = 7
    BY DEF claim_customer
  <2> QED BY <1>4, <2>1, <2>2, ClaimAsks
<1>5. CASE r.cmd = "activate_customer"
  <2>1. CommandSteps(r, seen) = activate_customer(r)
    BY <1>5 DEF CommandSteps
  <2>2. Len(activate_customer(r)) = 6
    BY DEF activate_customer
  <2> QED BY <1>5, <2>1, <2>2, ActivationAsks
<1>6. CASE r.cmd = "withdraw_consent"
  <2>1. CommandSteps(r, seen) = withdraw_consent(r)
    BY <1>6 DEF CommandSteps
  <2>2. Len(withdraw_consent(r)) = 5
    BY DEF withdraw_consent, Settles
  <2> QED BY <1>6, <2>1, <2>2, WithdrawalAsks
<1>7. CASE r.cmd = "assign_customer_advisor"
  <2>1. CommandSteps(r, seen) = assign_customer_advisor(r)
    BY <1>7 DEF CommandSteps
  <2>2. Len(assign_customer_advisor(r)) = 7
    BY DEF assign_customer_advisor
  <2> QED BY <1>7, <2>1, <2>2, AssignmentAsks
<1>8. CASE r.cmd = "end_customer_advisor_assignment"
  <2>1. CommandSteps(r, seen) = end_customer_advisor_assignment(r)
    BY <1>8 DEF CommandSteps
  <2>2. Len(end_customer_advisor_assignment(r)) = 5
    BY DEF end_customer_advisor_assignment
  <2> QED BY <1>8, <2>1, <2>2, UnassignmentAsks
<1>9. CASE r.cmd = "deactivate_branch"
  <2>1. CommandSteps(r, seen) = deactivate_branch(r)
    BY <1>9 DEF CommandSteps
  <2>2. Len(deactivate_branch(r)) = 4
    BY DEF deactivate_branch
  <2> QED BY <1>9, <2>1, <2>2, BranchDeactivationAsks
<1>10. CASE r.cmd = "close_branch"
  <2>1. CommandSteps(r, seen) = close_branch(r)
    BY <1>10 DEF CommandSteps
  <2>2. Len(close_branch(r)) = 12
    BY DEF close_branch, Readiness
  <2> QED BY <1>10, <2>1, <2>2, ClosureAsks
<1>11. CASE r.cmd = "create_branch_role_grant"
  <2>1. CommandSteps(r, seen) = create_branch_role_grant(r)
    BY <1>11 DEF CommandSteps
  <2>2. Len(create_branch_role_grant(r)) = 5
    BY DEF create_branch_role_grant
  <2> QED BY <1>11, <2>1, <2>2, GrantAsks
<1>12. CASE r.cmd = "revoke_branch_role_grant"
  <2>1. CommandSteps(r, seen) = revoke_branch_role_grant(r)
    BY <1>12 DEF CommandSteps
  <2>2. Len(revoke_branch_role_grant(r)) = 7
    BY DEF revoke_branch_role_grant
  <2> QED BY <1>12, <2>1, <2>2, GrantRevocationAsks
<1>13. CASE r.cmd = "create_quote"
  <2>1. CommandSteps(r, seen) = create_quote(r, seen)
    BY <1>13 DEF CommandSteps
  <2>2. Len(create_quote(r, seen)) = 5
    BY DEF create_quote
  <2> QED BY <1>13, <2>1, <2>2, QuoteAsks
<1>14. CASE r.cmd = "create_order"
  <2>1. CommandSteps(r, seen) = create_order(r, seen)
    BY <1>14 DEF CommandSteps
  <2>2. Len(create_order(r, seen)) = 5
    BY DEF create_order
  <2> QED BY <1>14, <2>1, <2>2, OrderAsks
<1>15. CASE r.cmd = "submit_order"
  <2>1. CommandSteps(r, seen) = submit_order(r, seen)
    BY <1>15 DEF CommandSteps
  <2>2. Len(submit_order(r, seen)) = 6
    BY DEF submit_order
  <2> QED BY <1>15, <2>1, <2>2, SubmissionAsks
<1>16. CASE r.cmd = "approve_order"
  <2>1. CommandSteps(r, seen) = approve_order(r, seen)
    BY <1>16 DEF CommandSteps
  <2>2. Len(approve_order(r, seen)) = 7
    BY DEF approve_order
  <2> QED BY <1>16, <2>1, <2>2, ApprovalAsks
<1>17. CASE r.cmd = "reject_order"
  <2>1. CommandSteps(r, seen) = reject_order(r, seen)
    BY <1>17 DEF CommandSteps
  <2>2. Len(reject_order(r, seen)) = 7
    BY DEF reject_order
  <2> QED BY <1>17, <2>1, <2>2, RejectionAsks
<1>18. CASE r.cmd = "deactivate_customer"
  <2>1. CommandSteps(r, seen) = deactivate_customer(r)
    BY <1>18 DEF CommandSteps
  <2> QED BY <1>18, <2>1, DeactivationAsks
<1>19. CASE r.cmd = "request_cancellation"
  <2>1. CommandSteps(r, seen) = request_cancellation(r, seen)
    BY <1>19 DEF CommandSteps
  <2> QED BY <1>19, <2>1, CancellationAsks
<1>20. CASE r.cmd = "transfer_customer_branch"
  <2>1. CommandSteps(r, seen) = transfer_customer_branch(r)
    BY <1>20 DEF CommandSteps
  <2> QED BY <1>20, <2>1, TransferAsks
<1>21. CASE r.cmd = "approve_cancellation"
  <2>1. CommandSteps(r, seen) = review_cancellation(r, seen, work[r.k].status \in {"draft", "approved"})
    BY <1>21 DEF CommandSteps
  <2>2. \A ok : Len(review_cancellation(r, seen, ok)) = 7
    BY DEF review_cancellation
  <2>3. \A ok : \A i \in 1..7 : Asks(r, i, review_cancellation(r, seen, ok)[i])
    BY <1>21, CaseReviewAsks
  <2> QED BY <2>1, <2>2, <2>3
<1>22. CASE r.cmd = "reject_cancellation"
  <2>1. CommandSteps(r, seen) = review_cancellation(r, seen, TRUE)
    BY <1>22 DEF CommandSteps
  <2>2. \A ok : Len(review_cancellation(r, seen, ok)) = 7
    BY DEF review_cancellation
  <2>3. \A ok : \A i \in 1..7 : Asks(r, i, review_cancellation(r, seen, ok)[i])
    BY <1>22, CaseReviewAsks
  <2> QED BY <2>1, <2>2, <2>3
<1> QED
  BY <1>1, <1>2, <1>3, <1>4, <1>5, <1>6, <1>7, <1>8, <1>9, <1>10, <1>11, <1>12, <1>13, <1>14,
     <1>15, <1>16, <1>17, <1>18, <1>19, <1>20, <1>21, <1>22
  DEF Asked, RequestOK, Commands

IsList(steps) == DOMAIN steps = 1..Len(steps)

LEMMA PlainLists ==
    ASSUME NEW r, NEW seen, NEW ok
    PROVE  /\ IsList(create_customer(r))
           /\ IsList(issue_customer_claim_invitation(r))
           /\ IsList(revoke_customer_claim_invitation(r))
           /\ IsList(claim_customer(r, seen))
           /\ IsList(activate_customer(r))
           /\ IsList(assign_customer_advisor(r))
           /\ IsList(end_customer_advisor_assignment(r))
           /\ IsList(deactivate_branch(r))
           /\ IsList(create_branch_role_grant(r))
           /\ IsList(revoke_branch_role_grant(r))
           /\ IsList(create_quote(r, seen))
           /\ IsList(create_order(r, seen))
           /\ IsList(submit_order(r, seen))
           /\ IsList(approve_order(r, seen))
           /\ IsList(reject_order(r, seen))
           /\ IsList(review_cancellation(r, seen, ok))
<1>1. IsList(create_customer(r))
  BY DEF IsList, create_customer
<1>2. IsList(issue_customer_claim_invitation(r))
  BY DEF IsList, issue_customer_claim_invitation
<1>3. IsList(revoke_customer_claim_invitation(r))
  BY DEF IsList, revoke_customer_claim_invitation
<1>4. IsList(claim_customer(r, seen))
  BY DEF IsList, claim_customer
<1>5. IsList(activate_customer(r))
  BY DEF IsList, activate_customer
<1>6. IsList(assign_customer_advisor(r))
  BY DEF IsList, assign_customer_advisor
<1>7. IsList(end_customer_advisor_assignment(r))
  BY DEF IsList, end_customer_advisor_assignment
<1>8. IsList(deactivate_branch(r))
  BY DEF IsList, deactivate_branch
<1>9. IsList(create_branch_role_grant(r))
  BY DEF IsList, create_branch_role_grant
<1>10. IsList(revoke_branch_role_grant(r))
  BY DEF IsList, revoke_branch_role_grant
<1>11. IsList(create_quote(r, seen))
  BY DEF IsList, create_quote
<1>12. IsList(create_order(r, seen))
  BY DEF IsList, create_order
<1>13. IsList(submit_order(r, seen))
  BY DEF IsList, submit_order
<1>14. IsList(approve_order(r, seen))
  BY DEF IsList, approve_order
<1>15. IsList(reject_order(r, seen))
  BY DEF IsList, reject_order
<1>16. IsList(review_cancellation(r, seen, ok))
  BY DEF IsList, review_cancellation
<1> QED BY <1>1, <1>2, <1>3, <1>4, <1>5, <1>6, <1>7, <1>8, <1>9, <1>10, <1>11, <1>12, <1>13, <1>14, <1>15, <1>16

LEMMA JoinedLists ==
    ASSUME NEW r, NEW seen
    PROVE  /\ IsList(withdraw_consent(r)) /\ IsList(close_branch(r)) /\ IsList(deactivate_customer(r))
           /\ IsList(transfer_customer_branch(r)) /\ IsList(request_cancellation(r, seen))
<1>1. IsList(withdraw_consent(r))
  BY DEF IsList, withdraw_consent, Settles
<1>2. IsList(close_branch(r))
  BY DEF IsList, close_branch, Readiness
<1>3. IsList(deactivate_customer(r))
  <2>1. CASE ByCustomer(r)
    BY <2>1 DEF IsList, deactivate_customer, Settles, ByCustomer
  <2>2. CASE ~ByCustomer(r)
    BY <2>2 DEF IsList, deactivate_customer, Settles, ByCustomer
  <2> QED BY <2>1, <2>2
<1>4. IsList(transfer_customer_branch(r))
  <2>1. PICK s, t : BothBranches(r) = <<s, t>>
    BY DEF BothBranches
  <2>2. PICK i, w : NoOpenWork(r) = <<i, w>>
    BY DEF NoOpenWork
  <2>3. CASE r.p = Nobody
    BY <2>1, <2>2, <2>3 DEF transfer_customer_branch, IsList
  <2>4. CASE r.p # Nobody
    BY <2>1, <2>2, <2>4 DEF transfer_customer_branch, IsList
  <2> QED BY <2>3, <2>4
<1>5. IsList(request_cancellation(r, seen))
  <2>1. CASE ByCustomer(r)
    BY <2>1 DEF IsList, request_cancellation, ByCustomer
  <2>2. CASE ~ByCustomer(r)
    BY <2>2 DEF IsList, request_cancellation, ByCustomer
  <2> QED BY <2>1, <2>2
<1> QED BY <1>1, <1>2, <1>3, <1>4, <1>5

LEMMA CommandStepsAreLists ==
    ASSUME NEW r, NEW seen, r.cmd \in Commands
    PROVE  IsList(CommandSteps(r, seen))
BY PlainLists, JoinedLists DEF CommandSteps, Commands

(* A command that has gone on holds the row it locked first. *)
CustomerSteps(r, seen) == {OwnCustomer(r), BoundCustomer(r, seen), TradingCustomer(r, seen)}

LEMMA FirstStep ==
    ASSUME NEW r, NEW seen, Asked(r)
    PROVE  /\ r.cmd \notin ByBranch => CommandSteps(r, seen)[1] \in CustomerSteps(r, seen)
           /\ r.cmd \in ByBranch =>
                CommandSteps(r, seen)[1] \in {OwnBranch(r.b, New), OwnBranch(r.b, AnyStatus)}
<1>1. r.cmd = "issue_customer_claim_invitation" => CommandSteps(r, seen)[1] \in CustomerSteps(r, seen)
  BY DEF CommandSteps, issue_customer_claim_invitation, CustomerSteps
<1>2. r.cmd = "revoke_customer_claim_invitation" => CommandSteps(r, seen)[1] \in CustomerSteps(r, seen)
  BY DEF CommandSteps, revoke_customer_claim_invitation, CustomerSteps
<1>3. r.cmd = "claim_customer" => CommandSteps(r, seen)[1] \in CustomerSteps(r, seen)
  BY DEF CommandSteps, claim_customer, CustomerSteps
<1>4. r.cmd = "activate_customer" => CommandSteps(r, seen)[1] \in CustomerSteps(r, seen)
  BY DEF CommandSteps, activate_customer, CustomerSteps
<1>5. r.cmd = "withdraw_consent" => CommandSteps(r, seen)[1] \in CustomerSteps(r, seen)
  BY DEF CommandSteps, withdraw_consent, Settles, CustomerSteps
<1>6. r.cmd = "assign_customer_advisor" => CommandSteps(r, seen)[1] \in CustomerSteps(r, seen)
  BY DEF CommandSteps, assign_customer_advisor, CustomerSteps
<1>7. r.cmd = "end_customer_advisor_assignment" => CommandSteps(r, seen)[1] \in CustomerSteps(r, seen)
  BY DEF CommandSteps, end_customer_advisor_assignment, CustomerSteps
<1>8. r.cmd = "create_quote" => CommandSteps(r, seen)[1] \in CustomerSteps(r, seen)
  BY DEF CommandSteps, create_quote, CustomerSteps
<1>9. r.cmd = "create_order" => CommandSteps(r, seen)[1] \in CustomerSteps(r, seen)
  BY DEF CommandSteps, create_order, CustomerSteps
<1>10. r.cmd = "submit_order" => CommandSteps(r, seen)[1] \in CustomerSteps(r, seen)
  BY DEF CommandSteps, submit_order, CustomerSteps
<1>11. r.cmd = "approve_order" => CommandSteps(r, seen)[1] \in CustomerSteps(r, seen)
  BY DEF CommandSteps, approve_order, CustomerSteps
<1>12. r.cmd = "reject_order" => CommandSteps(r, seen)[1] \in CustomerSteps(r, seen)
  BY DEF CommandSteps, reject_order, CustomerSteps
<1>13. r.cmd = "deactivate_customer" => CommandSteps(r, seen)[1] \in CustomerSteps(r, seen)
  <2>1. deactivate_customer(r)[1] = OwnCustomer(r)
    BY OwnDeactivationSteps, OrderedDeactivationSteps
  <2> QED BY <2>1 DEF CommandSteps, CustomerSteps
<1>14. r.cmd = "transfer_customer_branch" => CommandSteps(r, seen)[1] \in CustomerSteps(r, seen)
  BY TransferList DEF TransferSteps, CommandSteps, CustomerSteps
<1>15. r.cmd = "request_cancellation" => CommandSteps(r, seen)[1] \in CustomerSteps(r, seen)
  <2>1. request_cancellation(r, seen)[1] = BoundCustomer(r, seen)
    <3>1. CASE ByCustomer(r)
      BY <3>1 DEF request_cancellation, ByCustomer
    <3>2. CASE ~ByCustomer(r)
      BY <3>2 DEF request_cancellation, ByCustomer
    <3> QED BY <3>1, <3>2
  <2> QED BY <2>1 DEF CommandSteps, CustomerSteps
<1>16. r.cmd \in {"approve_cancellation", "reject_cancellation"} =>
        CommandSteps(r, seen)[1] \in CustomerSteps(r, seen)
  <2>1. \A ok : review_cancellation(r, seen, ok)[1] = BoundCustomer(r, seen)
    BY DEF review_cancellation
  <2> QED BY <2>1 DEF CommandSteps, CustomerSteps
<1>17. r.cmd = "create_customer" =>
        CommandSteps(r, seen)[1] \in {OwnBranch(r.b, New), OwnBranch(r.b, AnyStatus)}
  BY DEF CommandSteps, create_customer
<1>18. r.cmd = "deactivate_branch" =>
        CommandSteps(r, seen)[1] \in {OwnBranch(r.b, New), OwnBranch(r.b, AnyStatus)}
  BY DEF CommandSteps, deactivate_branch
<1>19. r.cmd = "close_branch" =>
        CommandSteps(r, seen)[1] \in {OwnBranch(r.b, New), OwnBranch(r.b, AnyStatus)}
  BY DEF CommandSteps, close_branch, Readiness
<1>20. r.cmd = "create_branch_role_grant" =>
        CommandSteps(r, seen)[1] \in {OwnBranch(r.b, New), OwnBranch(r.b, AnyStatus)}
  BY DEF CommandSteps, create_branch_role_grant
<1>21. r.cmd = "revoke_branch_role_grant" =>
        CommandSteps(r, seen)[1] \in {OwnBranch(r.b, New), OwnBranch(r.b, AnyStatus)}
  BY DEF CommandSteps, revoke_branch_role_grant
<1> QED
  BY <1>1, <1>2, <1>3, <1>4, <1>5, <1>6, <1>7, <1>8, <1>9, <1>10, <1>11, <1>12, <1>13, <1>14,
     <1>15, <1>16, <1>17, <1>18, <1>19, <1>20, <1>21
  DEF Asked, RequestOK, Commands, ByBranch

LEMMA FirstLock ==
    ASSUME NEW r, NEW seen, NEW pc \in Nat, NEW held, Asked(r), TypeOK, pc > 1, Found(r, seen, pc, held)
    PROVE  /\ r.cmd \notin ByBranch => OwnsCustomer(r, held)
           /\ r.cmd \in ByBranch => Lock(BranchRow(r.b), "update") \in held
<1> PICK steps : steps = CommandSteps(r, seen)
  OBVIOUS
<1>1. Len(steps) \in Nat /\ Len(steps) >= 1
  BY EveryCommandHasAKey DEF HasKeyAt, Asked, RequestOK
<1>2. UnsureAt(r) # 1
  BY DEF UnsureAt, ClockRead
<1>3. Passed(steps[1], held)
  BY <1>1, <1>2 DEF Found, StepsHold
<1>4. r.cmd \notin ByBranch => OwnsCustomer(r, held)
  BY <1>3, FirstStep, CustomerIsOwned DEF CustomerSteps
<1>5. \A statuses : Passed(OwnBranch(r.b, statuses), held) => Lock(BranchRow(r.b), "update") \in held
  BY DEF Passed, OwnBranch, Takes
<1> QED BY <1>3, <1>4, <1>5, FirstStep

-----------------------------------------------------------------------------
(* What a transaction has locked, it has asked for. *)

(* What a command that went on has locked at a step. *)
Had(r, pc, l) ==
    \/ WantsFirst(r, pc, l) \/ WantsOwn(r, pc, l) \/ WantsBranch(r, pc, l) \/ WantsPeople(r, pc, l)
    \/ WantsApprover(r, pc, l) \/ WantsUser(r, pc, l)
    \/ WantsMember(r, pc, l) /\ (r.actor \notin Members \/ (r.cmd \in ByStaff /\ pc = 3))

Held(r, pc, held) == \A l \in held : \E i \in 1..(pc - 1) : Had(r, i, l)

Begun == [req : asked, pc : Nat, seen : Branches \union {NoBranch}]

HoldInv ==
    /\ Idle \notin Begun
    /\ \A t \in Txns : Running(t) => txn[t] \in Begun /\ Held(txn[t].req, txn[t].pc, locks[t])
    /\ \A t \in Txns : ~Running(t) => locks[t] = {}

LEMMA HadOnceAsked ==
    ASSUME NEW r, NEW pc, NEW step, Asks(r, pc, step), step.ok
    PROVE  \A l \in step.lock : Had(r, pc, l)
BY DEF Asks, Wants, Had

LEMMA HadStays ==
    ASSUME NEW r, NEW pc, NEW l, r.cmd \notin ByBranch => customer'[r.k] = customer[r.k], Had(r, pc, l)
    PROVE  Had(r, pc, l)'
<1>1. /\ WantsFirst(r, pc, l) => WantsFirst(r, pc, l)'
      /\ WantsOwn(r, pc, l) => WantsOwn(r, pc, l)'
      /\ WantsUser(r, pc, l) => WantsUser(r, pc, l)'
      /\ WantsMember(r, pc, l) => WantsMember(r, pc, l)'
  BY DEF WantsFirst, WantsOwn, WantsUser, WantsMember
<1>2. WantsBranch(r, pc, l) => WantsBranch(r, pc, l)'
  BY DEF WantsBranch, ByBranch, LowerBranch, UpperBranch
<1>3. WantsPeople(r, pc, l) => WantsPeople(r, pc, l)'
  BY DEF WantsPeople, ByBranch
<1>4. WantsApprover(r, pc, l) => WantsApprover(r, pc, l)'
  <2>1. r.cmd \notin ByBranch => KeyAt(r)' = KeyAt(r)
    BY DEF KeyAt, ByCustomer
  <2> QED BY <2>1 DEF WantsApprover, ByBranch
<1>5. (r.actor \notin Members \/ (r.cmd \in ByStaff /\ pc = 3))
        => (r.actor \notin Members \/ (r.cmd \in ByStaff /\ pc = 3))'
  BY DEF Members, ByStaff, Reviews
<1> QED BY <1>1, <1>2, <1>3, <1>4, <1>5 DEF Had

LEMMA HeldStays ==
    ASSUME RefInv, NEW u \in Txns, Running(u), Protected(locks[u]), NEW r, NEW pc, NEW held,
           r = txn[u].req, pc = txn[u].pc, held = locks[u], Held(r, pc, held)
    PROVE  Held(r, pc, held)'
<1> PICK seen : seen = txn[u].seen
  OBVIOUS
<1>1. Asked(r) /\ pc \in Nat \ {0} /\ Found(r, seen, pc, held) /\ TypeOK
  BY DEF RefInv, KeyInv, TxnsOK, RequestsOK, Asked, FindingsHold
<1>2. CASE pc = 1
  BY <1>2 DEF Held
<1>3. CASE pc > 1
  <2>1. r.cmd \notin ByBranch => customer'[r.k] = customer[r.k]
    BY <1>1, <1>3, FirstLock, OwnStepsStay DEF RowsStay
  <2>2. \A i, l : Had(r, i, l) => Had(r, i, l)'
    BY <2>1, HadStays
  <2> QED BY <2>2 DEF Held
<1> QED BY <1>1, <1>2, <1>3

LEMMA HoldInvInit == Init => HoldInv
<1> SUFFICES ASSUME Init PROVE HoldInv
  OBVIOUS
<1>1. Idle \notin Begun
  BY IdleAssumption DEF Init, Begun
<1>2. \A t \in Txns : ~Running(t) /\ locks[t] = {}
  BY DEF Init, Running
<1> QED BY <1>1, <1>2 DEF HoldInv

(* Whoever is not at work keeps his locks, and what they are for. *)
LEMMA OthersHold ==
    ASSUME RefInv, HoldInv, UNCHANGED asked, NEW u \in Txns, Protected(locks[u]),
           txn'[u] = txn[u], locks'[u] = locks[u]
    PROVE  /\ Running(u)' => (txn[u] \in Begun /\ Held(txn[u].req, txn[u].pc, locks[u]))'
           /\ ~Running(u)' => locks'[u] = {}
<1> PICK r, pc, held : r = txn[u].req /\ pc = txn[u].pc /\ held = locks[u]
  OBVIOUS
<1>1. Running(u)' <=> Running(u)
  BY DEF Running
<1>2. Running(u) => Held(r, pc, held)'
  BY HeldStays DEF HoldInv
<1> QED BY <1>1, <1>2 DEF HoldInv, Begun

LEMMA HoldInvBegin ==
    ASSUME RefInv, HoldInv, NEW t \in Txns, NEW r \in asked, Begin(t, r)
    PROVE  HoldInv'
<1>1. /\ ~Running(t)
      /\ txn' = [txn EXCEPT ![t] = [req |-> r, pc |-> 1, seen |-> Preview(r)]]
      /\ UNCHANGED <<branch, grants, customer, invitation, advisor, work, asked, locks, times>>
  BY DEF Begin, tables
<1>2. DOMAIN txn = Txns
  BY DEF RefInv, KeyInv, TxnsOK
<1>3. \A held : Protected(held)
  BY <1>1, NothingMoves
<1>4. Preview(r) \in Branches \union {NoBranch}
  BY DEF RefInv, KeyInv, RequestsOK, RequestOK, TypeOK, CustomerRow, NoCustomer, Preview,
         InvitationRow
<1>5. txn'[t] \in Begun' /\ txn'[t].pc = 1 /\ locks'[t] = {}
  BY <1>1, <1>2, <1>4 DEF Begun, HoldInv
<1>6. Held(txn[t].req, txn[t].pc, locks[t])'
  BY <1>5 DEF Held
<1>7. Idle \notin Begun'
  BY <1>1 DEF HoldInv, Begun
<1>8. \A u \in Txns : u # t =>
        /\ Running(u)' => (txn[u] \in Begun /\ Held(txn[u].req, txn[u].pc, locks[u]))'
        /\ ~Running(u)' => locks'[u] = {}
  BY <1>1, <1>2, <1>3, OthersHold
<1> QED BY <1>5, <1>6, <1>7, <1>8 DEF HoldInv

LEMMA HoldInvStep ==
    ASSUME RefInv, HoldInv, NEW t \in Txns, Step(t)
    PROVE  HoldInv'
<1> PICK r, seen, pc, held :
        r = txn[t].req /\ seen = txn[t].seen /\ pc = txn[t].pc /\ held = locks[t]
  OBVIOUS
<1> PICK step : step = CommandSteps(r, seen)[pc]
  OBVIOUS
<1>1. /\ Running(t) /\ pc \in DOMAIN CommandSteps(r, seen) /\ step.ok
      /\ locks' = [locks EXCEPT ![t] = @ \union step.lock]
      /\ txn' = [txn EXCEPT ![t].pc = @ + 1]
      /\ UNCHANGED <<branch, grants, customer, invitation, advisor, work, asked, times>>
  BY DEF Step, Steps, tables
<1>2. /\ DOMAIN txn = Txns /\ DOMAIN locks = Txns /\ Asked(r) /\ pc \in Nat \ {0} /\ TypeOK
      /\ txn[t] = [req |-> r, pc |-> pc, seen |-> seen]
  BY <1>1 DEF RefInv, KeyInv, TxnsOK, RowsOK, RequestsOK, Asked
<1>3. txn'[t] = [req |-> r, pc |-> pc + 1, seen |-> seen] /\ locks'[t] = held \union step.lock
  BY <1>1, <1>2
<1>4. txn'[t] \in Begun' /\ Idle \notin Begun'
  BY <1>1, <1>2, <1>3 DEF HoldInv, Begun
<1>5. \A h : Protected(h)
  BY <1>1, NothingMoves
<1>6. Held(txn[t].req, txn[t].pc, locks[t])'
  <2> PICK next, more : next = pc + 1 /\ more = held \union step.lock
    OBVIOUS
  <2>1. Held(r, pc, held)
    BY <1>1 DEF HoldInv
  <2>2. pc \in 1..Len(CommandSteps(r, seen))
    <3>1. IsList(CommandSteps(r, seen))
      BY <1>2, CommandStepsAreLists DEF Asked, RequestOK
    <3> QED BY <1>1, <3>1 DEF IsList
  <2>3. \A l \in step.lock : Had(r, pc, l)
    BY <1>1, <1>2, <2>2, EveryStepAsks, HadOnceAsked
  <2>4. Held(r, next, more)
    BY <1>2, <2>1, <2>3 DEF Held
  <2>5. Held(r, next, more)'
    <3>1. \A i, l : Had(r, i, l) => Had(r, i, l)'
      BY <1>1, HadStays
    <3> QED BY <2>4, <3>1 DEF Held
  <2> QED BY <1>3, <2>5
<1>7. \A u \in Txns : u # t =>
        /\ Running(u)' => (txn[u] \in Begun /\ Held(txn[u].req, txn[u].pc, locks[u]))'
        /\ ~Running(u)' => locks'[u] = {}
  BY <1>1, <1>2, <1>5, OthersHold
<1>8. Running(t)'
  BY <1>4 DEF Running
<1> QED BY <1>4, <1>6, <1>7, <1>8 DEF HoldInv

LEMMA HoldInvNext ==
    ASSUME RefInv, HoldInv, [Next]_vars
    PROVE  HoldInv'
<1>1. ASSUME NEW t \in Txns, NEW r \in asked, Begin(t, r) PROVE HoldInv'
  BY <1>1, HoldInvBegin
<1>2. ASSUME NEW t \in Txns, Step(t) PROVE HoldInv'
  BY <1>2, HoldInvStep
<1>3. ASSUME NEW t \in Txns, Commit(t) \/ Rollback(t) PROVE HoldInv'
  <2>1. /\ txn' = [txn EXCEPT ![t] = Idle] /\ locks' = [locks EXCEPT ![t] = {}]
        /\ UNCHANGED asked
    BY <1>3 DEF Commit, Rollback
  <2>2. DOMAIN txn = Txns /\ DOMAIN locks = Txns
    BY DEF RefInv, KeyInv, TxnsOK, RowsOK
  <2>3. ~Running(t)' /\ locks'[t] = {}
    BY <2>1, <2>2 DEF Running
  <2>4. \A u \in Txns : u # t => Protected(locks[u])
    <3>1. CASE Commit(t)
      BY <3>1, CommitIsCovered, OthersAreProtected DEF RefInv
    <3>2. CASE Rollback(t)
      BY <3>2, NothingMoves DEF Rollback, tables
    <3> QED BY <1>3, <3>1, <3>2
  <2>5. \A u \in Txns : u # t =>
          /\ Running(u)' => (txn[u] \in Begun /\ Held(txn[u].req, txn[u].pc, locks[u]))'
          /\ ~Running(u)' => locks'[u] = {}
    BY <2>1, <2>2, <2>4, OthersHold
  <2>6. Idle \notin Begun'
    BY <2>1 DEF HoldInv, Begun
  <2> QED BY <2>3, <2>5, <2>6 DEF HoldInv
<1>4. CASE (\E k \in Customers : InvitationExpires(k)) \/ UNCHANGED vars
  <2>1. /\ UNCHANGED <<branch, grants, customer, advisor, work, times, asked, txn, locks>>
        /\ \A c \in Customers : /\ invitation'[c].status = invitation[c].status
                                /\ invitation'[c].target = invitation[c].target
                                /\ invitation'[c].branch = invitation[c].branch
    BY <1>4 DEF InvitationExpires, InvitationRunsOut, vars, tables, RefInv, TypeOK, InvitationRow
  <2>2. \A held : Protected(held)
    BY <2>1, NothingMoves
  <2>3. \A u \in Txns :
          /\ Running(u)' => (txn[u] \in Begun /\ Held(txn[u].req, txn[u].pc, locks[u]))'
          /\ ~Running(u)' => locks'[u] = {}
    BY <2>1, <2>2, OthersHold
  <2>4. Idle \notin Begun'
    BY <2>1 DEF HoldInv, Begun
  <2> QED BY <2>3, <2>4 DEF HoldInv
<1> QED BY <1>1, <1>2, <1>3, <1>4 DEF Next

-----------------------------------------------------------------------------
(* Circles.  Whoever is in one waits for a lock and has got one that another waits  *)
(* for.  One kind of row after the other is ruled out as what somebody waits for:   *)
(* who holds such a row could wait only for a kind that has been ruled out already. *)

(* A circular wait, as it would be if nobody in it had invited another. *)
Tangled(S) ==
    /\ S \in SUBSET Txns /\ CircularWait(S)
    /\ \A t, s \in S : WaitsFor(t, s) => ~InvitesActorOf(s, t)

(* In S, t waits for the lock l, and s holds h, which stands in its way. *)
Jams(S, t, s, l, h) ==
    /\ t \in S /\ s \in S /\ t # s
    /\ l \in NextLocks(t) /\ h \in locks[s] /\ h.row = l.row /\ Conflict(h.mode, l.mode)

LEMMA EverybodyJams ==
    ASSUME NEW S, Tangled(S), NEW t \in S
    PROVE  /\ \E s, l, h : Jams(S, t, s, l, h)
           /\ \E s, l, h : Jams(S, s, t, l, h)
BY DEF Tangled, CircularWait, WaitsFor, Blocks, Jams

LEMMA JamsWait ==
    ASSUME NEW S, Tangled(S), NEW t, NEW s, NEW l, NEW h, Jams(S, t, s, l, h)
    PROVE  t \in Txns /\ s \in Txns /\ ~InvitesActorOf(s, t)
<1>1. WaitsFor(t, s)
  BY DEF Jams, WaitsFor, Blocks
<1> QED BY <1>1 DEF Jams, Tangled

(* What is known of each of them: it has gone on from its first step. *)
LEMMA TangledAtWork ==
    ASSUME RefInv, HoldInv, NEW S, Tangled(S), NEW t \in S, NEW r, NEW pc, NEW seen,
           r = txn[t].req, pc = txn[t].pc, seen = txn[t].seen
    PROVE  /\ t \in Txns /\ Running(t) /\ Asked(r) /\ pc \in Nat /\ pc > 1
           /\ Found(r, seen, pc, locks[t])
           /\ \A h \in locks[t] : \E i \in 1..(pc - 1) : Had(r, i, h)
           /\ r.cmd \notin ByBranch => OwnsCustomer(r, locks[t])
           /\ r.cmd \in ByBranch => Lock(BranchRow(r.b), "update") \in locks[t]
<1>1. t \in Txns
  BY DEF Tangled
<1>2. Running(t)
  <2>1. NextLocks(t) # {}
    BY EverybodyJams DEF Jams
  <2> QED BY <2>1 DEF NextLocks
<1>3. Asked(r) /\ pc \in Nat \ {0} /\ Found(r, seen, pc, locks[t]) /\ TypeOK
  BY <1>1, <1>2 DEF RefInv, KeyInv, TxnsOK, RequestsOK, Asked, FindingsHold
<1>4. \A h \in locks[t] : \E i \in 1..(pc - 1) : Had(r, i, h)
  BY <1>1, <1>2 DEF HoldInv, Held
<1>5. pc > 1
  <2>1. PICK h : h \in locks[t]
    BY EverybodyJams DEF Jams
  <2>2. PICK i \in 1..(pc - 1) : TRUE
    BY <1>4, <2>1
  <2> QED BY <1>3, <2>2
<1>6. /\ r.cmd \notin ByBranch => OwnsCustomer(r, locks[t])
      /\ r.cmd \in ByBranch => Lock(BranchRow(r.b), "update") \in locks[t]
  <2>1. PICK held : held = locks[t]
    OBVIOUS
  <2> QED BY <1>3, <1>5, <2>1, FirstLock
<1> QED BY <1>1, <1>2, <1>3, <1>4, <1>5, <1>6

LEMMA RowKinds ==
    ASSUME NEW x, NEW y
    PROVE  /\ Customer(x)[1] = "customer" /\ Customer(x)[2] = x
           /\ BranchRow(x)[1] = "branch" /\ BranchRow(x)[2] = x
           /\ Member(x)[1] = "member" /\ Member(x)[2] = x
           /\ Grant(x, y)[1] = "grant" /\ Grant(x, y)[2] = x /\ Grant(x, y)[3] = y
           /\ User(x)[1] = "user" /\ User(x)[2] = x
           /\ Invitation(x)[1] = "invitation" /\ Invitation(x)[2] = x
           /\ Work(x)[1] = "work" /\ Work(x)[2] = x
           /\ KeyRow(x)[1] = "key" /\ KeyRow(x)[2] = x
BY DEF Customer, BranchRow, Member, Grant, User, Invitation, Work, KeyRow

LEMMA SameRow ==
    ASSUME NEW x, NEW y
    PROVE  /\ User(x) = User(y) => x = y
           /\ Member(x) = Member(y) => x = y
           /\ BranchRow(x) = BranchRow(y) => x = y
BY DEF User, Member, BranchRow

(* The kind of the row a step locks *)
LEMMA WantedKinds ==
    ASSUME NEW r, NEW i, NEW h
    PROVE  /\ WantsFirst(r, i, h) => \/ r.cmd \notin ByBranch /\ h.row = Customer(r.k) /\ h.row[1] = "customer"
                                     \/ r.cmd \in ByBranch /\ h.row = BranchRow(r.b) /\ h.row[1] = "branch"
           /\ WantsOwn(r, i, h) => h.row[1] \in {"key", "work", "invitation"}
           /\ WantsBranch(r, i, h) => h.row[1] = "branch"
           /\ WantsPeople(r, i, h) => h.row[1] \in {"grant", "member"} /\ h.mode = "update"
           /\ WantsApprover(r, i, h) => h.row[1] \in {"grant", "member"} /\ h.mode = "share"
           /\ WantsMember(r, i, h) => h.row[1] = "member" /\ h.mode = "share"
           /\ WantsUser(r, i, h) => h.row[1] = "user" /\ h.mode = "update"
           /\ WantsInvitations(r, i, h) => h.row[1] = "invitation"
<1>1. WantsFirst(r, i, h) => \/ r.cmd \notin ByBranch /\ h.row = Customer(r.k) /\ h.row[1] = "customer"
                             \/ r.cmd \in ByBranch /\ h.row = BranchRow(r.b) /\ h.row[1] = "branch"
  BY RowKinds DEF WantsFirst
<1>2. WantsOwn(r, i, h) => h.row[1] \in {"key", "work", "invitation"}
  BY RowKinds DEF WantsOwn
<1>3. WantsBranch(r, i, h) => h.row[1] = "branch"
  BY RowKinds DEF WantsBranch, Lock
<1>4. WantsPeople(r, i, h) => h.row[1] \in {"grant", "member"} /\ h.mode = "update"
  BY RowKinds DEF WantsPeople
<1>5. WantsApprover(r, i, h) => h.row[1] \in {"grant", "member"} /\ h.mode = "share"
  BY RowKinds DEF WantsApprover
<1>6. WantsMember(r, i, h) => h.row[1] = "member" /\ h.mode = "share"
  BY RowKinds DEF WantsMember, Lock
<1>7. WantsUser(r, i, h) => h.row[1] = "user" /\ h.mode = "update"
  BY RowKinds DEF WantsUser
<1>8. WantsInvitations(r, i, h) => h.row[1] = "invitation"
  BY RowKinds DEF WantsInvitations
<1> QED BY <1>1, <1>2, <1>3, <1>4, <1>5, <1>6, <1>7, <1>8

(* What for a row of this kind is held *)
LEMMA HadByKind ==
    ASSUME NEW r, NEW i, NEW h, Had(r, i, h)
    PROVE  /\ h.row[1] \in {"key", "work", "invitation"} => WantsOwn(r, i, h)
           /\ h.row[1] = "user" => WantsUser(r, i, h)
           /\ h.row[1] = "branch" => r.cmd \in ByBranch \/ WantsBranch(r, i, h)
           /\ h.row[1] = "grant" => WantsPeople(r, i, h) \/ WantsApprover(r, i, h)
           /\ h.row[1] = "member" =>
                \/ WantsPeople(r, i, h) \/ WantsApprover(r, i, h)
                \/ WantsMember(r, i, h) /\ (r.actor \notin Members \/ (r.cmd \in ByStaff /\ i = 3))
BY WantedKinds DEF Had

(* Two transactions that go on do not have their first lock in common. *)
LEMMA FirstLocksDiffer ==
    ASSUME RefInv, HoldInv, NEW S, Tangled(S), NEW t \in S, NEW s \in S, t # s, NEW r, NEW q,
           r = txn[t].req, q = txn[s].req
    PROVE  /\ r # q
           /\ r.cmd \notin ByBranch /\ q.cmd \notin ByBranch => r.k # q.k
<1>1. /\ t \in Txns /\ s \in Txns
      /\ r.cmd \notin ByBranch => Lock(Customer(r.k), "update") \in locks[t]
      /\ r.cmd \in ByBranch => Lock(BranchRow(r.b), "update") \in locks[t]
      /\ q.cmd \notin ByBranch => Lock(Customer(q.k), "update") \in locks[s]
      /\ q.cmd \in ByBranch => Lock(BranchRow(q.b), "update") \in locks[s]
  BY TangledAtWork DEF OwnsCustomer
<1>2. \A row : ~(Lock(row, "update") \in locks[t] /\ Lock(row, "update") \in locks[s])
  BY <1>1 DEF RefInv, KeyInv, LocksExclude, Lock, Conflict
<1> QED BY <1>1, <1>2

LEMMA OwnRowsAreFree ==
    ASSUME RefInv, HoldInv, NEW S, Tangled(S), NEW t, NEW s, NEW l, NEW h, Jams(S, t, s, l, h)
    PROVE  ~WantsOwn(txn[t].req, txn[t].pc, l)
<1> SUFFICES ASSUME WantsOwn(txn[t].req, txn[t].pc, l) PROVE FALSE
  OBVIOUS
<1> PICK r, q : r = txn[t].req /\ q = txn[s].req
  OBVIOUS
<1>1. t \in S /\ s \in S /\ t # s /\ h \in locks[s] /\ h.row = l.row
  BY DEF Jams
<1>2. PICK i : Had(q, i, h)
  BY <1>1, TangledAtWork
<1>3. WantsOwn(q, i, h)
  BY <1>1, <1>2, HadByKind, WantedKinds
<1>4. r = q \/ (r.cmd \notin ByBranch /\ q.cmd \notin ByBranch /\ r.k = q.k)
  BY <1>1, <1>3, RowKinds DEF WantsOwn, ByBranch
<1> QED BY <1>1, <1>4, FirstLocksDiffer

(* Where somebody in the circle may wait. *)
LEMMA WhereItJams ==
    ASSUME RefInv, HoldInv, NEW S, Tangled(S), NEW t, NEW s, NEW l, NEW h, Jams(S, t, s, l, h),
           NEW r, NEW pc, r = txn[t].req, pc = txn[t].pc
    PROVE  \/ ReadyToCommit(t) /\ l = ActorsKey(t)
           \/ WantsBranch(r, pc, l) \/ WantsPeople(r, pc, l) \/ WantsApprover(r, pc, l)
           \/ WantsMember(r, pc, l) \/ WantsUser(r, pc, l) \/ WantsInvitations(r, pc, l)
<1> PICK seen : seen = txn[t].seen
  OBVIOUS
<1>1. t \in S /\ l \in NextLocks(t)
  BY DEF Jams
<1>2. Running(t) /\ Asked(r) /\ pc \in Nat /\ pc > 1
  BY <1>1, TangledAtWork
<1>3. CASE ReadyToCommit(t)
  BY <1>1, <1>2, <1>3 DEF NextLocks
<1>4. CASE ~ReadyToCommit(t)
  <2>1. l \in CommandSteps(r, seen)[pc].lock
    BY <1>1, <1>2, <1>4 DEF NextLocks, Steps
  <2>2. Len(CommandSteps(r, seen)) \in Nat
    BY <1>2, EveryCommandHasAKey DEF HasKeyAt, Asked, RequestOK
  <2>3. pc \in 1..Len(CommandSteps(r, seen))
    BY <1>2, <1>4, <2>2 DEF ReadyToCommit, Steps
  <2>4. Asks(r, pc, CommandSteps(r, seen)[pc])
    BY <1>2, <2>3, EveryStepAsks DEF RefInv
  <2>5. ~WantsFirst(r, pc, l)
    BY <1>2 DEF WantsFirst
  <2>6. ~WantsOwn(r, pc, l)
    BY OwnRowsAreFree
  <2> QED BY <2>1, <2>4, <2>5, <2>6 DEF Asks, Wants
<1> QED BY <1>3, <1>4

(* Nobody waits for a row he has locked himself: then the other would have to share *)
(* it with him.                                                                 *)
LEMMA OwnLockIsFree ==
    ASSUME RefInv, NEW S, Tangled(S), NEW t, NEW s, NEW l, NEW h, Jams(S, t, s, l, h),
           NEW mine \in locks[t], mine.row = l.row
    PROVE  mine.mode # "update" /\ l.mode = "update"
<1>1. t \in Txns /\ s \in Txns /\ t # s
  BY JamsWait DEF Jams
<1>2. h \in locks[s] /\ h.row = l.row /\ Conflict(h.mode, l.mode)
  BY DEF Jams
<1>3. ~Conflict(mine.mode, h.mode)
  BY <1>1, <1>2 DEF RefInv, KeyInv, LocksExclude
<1> QED BY <1>2, <1>3 DEF Conflict

LEMMA UserHolders ==
    ASSUME RefInv, HoldInv, NEW S, Tangled(S), NEW s \in S, NEW h \in locks[s],
           NEW q, q = txn[s].req, q.cmd = "claim_customer", NEW i \in 1..(txn[s].pc - 1), WantsUser(q, i, h)
    PROVE  FALSE
<1> PICK pc : pc = txn[s].pc
  OBVIOUS
<1>1. pc \in Nat /\ i = 3 /\ h.row = User(q.actor) /\ h.mode = "update"
  BY TangledAtWork DEF WantsUser
<1>2. PICK u, l, g : Jams(S, s, u, l, g)
  BY EverybodyJams
<1>3. l.row # User(q.actor)
  BY <1>1, <1>2, OwnLockIsFree
<1>4. ~(ReadyToCommit(s) /\ l = ActorsKey(s))
  BY <1>3 DEF ActorsKey, Lock
<1>5. ~WantsBranch(q, pc, l) /\ ~WantsMember(q, pc, l) /\ ~WantsUser(q, pc, l)
  BY <1>1 DEF WantsBranch, WantsMember, WantsUser
<1>6. ~WantsPeople(q, pc, l) /\ ~WantsApprover(q, pc, l) /\ ~WantsInvitations(q, pc, l)
  BY DEF WantsPeople, WantsApprover, WantsInvitations
<1> QED BY <1>2, <1>4, <1>5, <1>6, WhereItJams

(* Who waits to commit waits for somebody who has invited him. *)
LEMMA NobodyCommits ==
    ASSUME RefInv, HoldInv, NEW S, Tangled(S), NEW t, NEW s, NEW l, NEW h, Jams(S, t, s, l, h)
    PROVE  ~(ReadyToCommit(t) /\ l = ActorsKey(t))
<1> SUFFICES ASSUME ReadyToCommit(t), l = ActorsKey(t) PROVE FALSE
  OBVIOUS
<1> PICK r, q, pc : r = txn[t].req /\ q = txn[s].req /\ pc = txn[s].pc
  OBVIOUS
<1>1. t \in S /\ s \in S /\ h \in locks[s] /\ h.row = User(r.actor)
  BY DEF Jams, ActorsKey, Lock
<1>2. Running(t) /\ Running(s) /\ ~InvitesActorOf(s, t)
  BY <1>1, TangledAtWork, JamsWait
<1>3. PICK i \in 1..(pc - 1) : Had(q, i, h)
  BY <1>1, TangledAtWork
<1>4. WantsUser(q, i, h)
  BY <1>1, <1>3, HadByKind, RowKinds
<1>5. CASE q.cmd = "claim_customer"
  BY <1>1, <1>3, <1>4, <1>5, UserHolders
<1>6. CASE q.cmd # "claim_customer"
  <2>1. q.cmd = "issue_customer_claim_invitation" /\ h.row = User(q.p)
    BY <1>4, <1>6 DEF WantsUser
  <2>2. q.p = r.actor
    BY <1>1, <2>1, SameRow
  <2> QED BY <1>2, <2>1, <2>2 DEF InvitesActorOf
<1> QED BY <1>5, <1>6

(* Who has locked a grant or a membership for update goes on to his commit, but    *)
(* for a revocation, which asks for the membership of its manager.               *)
LEMMA PeopleHolders ==
    ASSUME RefInv, HoldInv, NEW S, Tangled(S), NEW s, NEW u, NEW l, NEW g, Jams(S, s, u, l, g),
           NEW q, q = txn[s].req, NEW h, NEW i \in 1..(txn[s].pc - 1), WantsPeople(q, i, h)
    PROVE  q.cmd = "revoke_branch_role_grant" /\ WantsMember(q, txn[s].pc, l)
<1> PICK pc : pc = txn[s].pc
  OBVIOUS
<1>1. pc \in Nat /\ i \in 1..(pc - 1)
  BY TangledAtWork DEF Jams
<1>2. /\ ~WantsBranch(q, pc, l) /\ ~WantsPeople(q, pc, l)
      /\ WantsMember(q, pc, l) => q.cmd = "revoke_branch_role_grant"
  BY <1>1 DEF WantsBranch, WantsPeople, WantsMember, ByBranch
<1>3. ~WantsApprover(q, pc, l) /\ ~WantsUser(q, pc, l) /\ ~WantsInvitations(q, pc, l)
  BY DEF WantsPeople, WantsApprover, WantsUser, WantsInvitations
<1> QED BY <1>2, <1>3, WhereItJams, NobodyCommits

LEMMA NobodyWantsMember ==
    ASSUME RefInv, HoldInv, NEW S, Tangled(S), NEW t, NEW s, NEW l, NEW h, Jams(S, t, s, l, h)
    PROVE  ~WantsMember(txn[t].req, txn[t].pc, l)
<1> SUFFICES ASSUME WantsMember(txn[t].req, txn[t].pc, l) PROVE FALSE
  OBVIOUS
<1> PICK r, q, pc : r = txn[t].req /\ q = txn[s].req /\ pc = txn[s].pc
  OBVIOUS
<1>1. /\ s \in S /\ h \in locks[s] /\ h.row = Member(r.actor)
      /\ l.mode = "share" /\ Conflict(h.mode, l.mode)
  BY DEF Jams, WantsMember, Lock
<1>2. h.mode = "update" /\ h.row[1] = "member"
  BY <1>1, RowKinds DEF Conflict
<1>3. PICK i \in 1..(pc - 1) : Had(q, i, h)
  BY <1>1, TangledAtWork
<1>4. WantsPeople(q, i, h)
  BY <1>2, <1>3, HadByKind, WantedKinds
<1>5. q.cmd = "revoke_branch_role_grant"
  <2>1. PICK u, k, g : Jams(S, s, u, k, g)
    BY <1>1, EverybodyJams
  <2> QED BY <1>3, <1>4, <2>1, PeopleHolders
<1>6. h.row = Grant(q.p, q.b)
  BY <1>4, <1>5 DEF WantsPeople
<1> QED BY <1>2, <1>6, RowKinds

LEMMA NobodyHoldsPeople ==
    ASSUME RefInv, HoldInv, NEW S, Tangled(S), NEW s \in S, NEW h, NEW i \in 1..(txn[s].pc - 1)
    PROVE  ~WantsPeople(txn[s].req, i, h)
<1>1. PICK u, k, g : Jams(S, s, u, k, g)
  BY EverybodyJams
<1> QED BY <1>1, PeopleHolders, NobodyWantsMember

LEMMA NobodyWantsApprover ==
    ASSUME RefInv, HoldInv, NEW S, Tangled(S), NEW t, NEW s, NEW l, NEW h, Jams(S, t, s, l, h)
    PROVE  ~WantsApprover(txn[t].req, txn[t].pc, l)
<1> SUFFICES ASSUME WantsApprover(txn[t].req, txn[t].pc, l) PROVE FALSE
  OBVIOUS
<1> PICK q, pc : q = txn[s].req /\ pc = txn[s].pc
  OBVIOUS
<1>1. s \in S /\ h \in locks[s] /\ h.row[1] \in {"grant", "member"} /\ h.mode = "update"
  BY WantedKinds DEF Jams, Conflict
<1>2. PICK i \in 1..(pc - 1) : Had(q, i, h)
  BY <1>1, TangledAtWork
<1>3. WantsPeople(q, i, h)
  BY <1>1, <1>2, HadByKind, WantedKinds
<1> QED BY <1>1, <1>2, <1>3, NobodyHoldsPeople

(* Who has locked an approver, or shares the membership of one who is no manager,   *)
(* takes no lock after it that anybody else could hold.                          *)
LEMMA SharersAreFree ==
    ASSUME RefInv, HoldInv, NEW S, Tangled(S), NEW s \in S, NEW q, q = txn[s].req,
           NEW h, NEW i \in 1..(txn[s].pc - 1),
           WantsApprover(q, i, h) \/ (q.cmd \in ByStaff /\ i = 3)
    PROVE  FALSE
<1> PICK pc : pc = txn[s].pc
  OBVIOUS
<1>1. PICK u, l, g : Jams(S, s, u, l, g)
  BY EverybodyJams
<1>2. pc \in Nat /\ pc > 3
  <2>1. pc \in Nat /\ i \in 1..(pc - 1)
    BY TangledAtWork
  <2>2. WantsApprover(q, i, h) => i >= 3
    <3>1. q.cmd = "submit_order" => KeyAt(q) = 4
      BY DEF KeyAt, EarlyKey, LateKey
    <3>2. q.cmd = "request_cancellation" => KeyAt(q) \in {4, 5}
      BY DEF KeyAt, EarlyKey, LateKey
    <3> QED BY <3>1, <3>2 DEF WantsApprover
  <2> QED BY <2>1, <2>2
<1>3. q.cmd \in ByStaff \union {"submit_order"}
  BY DEF WantsApprover, ByStaff
<1>4. ~WantsBranch(q, pc, l) /\ ~WantsMember(q, pc, l)
  BY <1>2, <1>3 DEF WantsBranch, WantsMember, ByStaff, Reviews
<1>5. ~WantsPeople(q, pc, l) /\ ~WantsUser(q, pc, l) /\ ~WantsInvitations(q, pc, l)
  BY <1>3 DEF WantsPeople, WantsUser, WantsInvitations, ByStaff, Reviews
<1> QED BY <1>1, <1>4, <1>5, WhereItJams, NobodyCommits, NobodyWantsApprover

LEMMA NobodyWantsPeople ==
    ASSUME RefInv, HoldInv, NEW S, Tangled(S), NEW t, NEW s, NEW l, NEW h, Jams(S, t, s, l, h)
    PROVE  ~WantsPeople(txn[t].req, txn[t].pc, l)
<1> SUFFICES ASSUME WantsPeople(txn[t].req, txn[t].pc, l) PROVE FALSE
  OBVIOUS
<1> PICK r, q, pc : r = txn[t].req /\ q = txn[s].req /\ pc = txn[s].pc
  OBVIOUS
<1>1. t \in S /\ s \in S /\ h \in locks[s] /\ h.row = l.row /\ l.row[1] \in {"grant", "member"}
  BY WantedKinds DEF Jams
<1>2. PICK i \in 1..(pc - 1) : Had(q, i, h)
  BY <1>1, TangledAtWork
<1>3. ~WantsPeople(q, i, h) /\ ~WantsApprover(q, i, h)
  BY <1>1, <1>2, NobodyHoldsPeople, SharersAreFree
<1>4. /\ l.row[1] = "member" /\ WantsMember(q, i, h)
      /\ q.actor \notin Members \/ (q.cmd \in ByStaff /\ i = 3)
  BY <1>1, <1>2, <1>3, HadByKind
<1>5. q.actor \in Members
  <2>1. l.row = Member(r.p) /\ r.p \in Members
    <3>1. Asked(r) /\ r.cmd # "revoke_branch_role_grant"
      BY <1>1, <1>4, TangledAtWork, RowKinds DEF WantsPeople
    <3>2. l.row = Member(r.p)
      BY <1>4, <3>1, RowKinds DEF WantsPeople
    <3>3. r.p \in Members
      BY <3>1 DEF WantsPeople, Asked, RequestOK, Members
    <3> QED BY <3>2, <3>3
  <2>2. l.row = Member(q.actor)
    BY <1>1, <1>4 DEF WantsMember, Lock
  <2>3. q.actor = r.p
    BY <2>1, <2>2, SameRow
  <2> QED BY <2>1, <2>3
<1> QED BY <1>1, <1>2, <1>4, <1>5, SharersAreFree

LEMMA NobodyWantsInvitations ==
    ASSUME RefInv, HoldInv, NEW S, Tangled(S), NEW t, NEW s, NEW l, NEW h, Jams(S, t, s, l, h)
    PROVE  ~WantsInvitations(txn[t].req, txn[t].pc, l)
<1> SUFFICES ASSUME WantsInvitations(txn[t].req, txn[t].pc, l) PROVE FALSE
  OBVIOUS
<1> PICK q, pc : q = txn[s].req /\ pc = txn[s].pc
  OBVIOUS
<1>1. s \in S /\ h \in locks[s] /\ h.row[1] = "invitation"
  BY WantedKinds DEF Jams
<1>2. PICK i \in 1..(pc - 1) : Had(q, i, h)
  BY <1>1, TangledAtWork
<1>3. WantsOwn(q, i, h)
  BY <1>1, <1>2, HadByKind
<1>4. \/ q.cmd = "issue_customer_claim_invitation" /\ i = 9
      \/ q.cmd = "revoke_customer_claim_invitation" /\ i = 5
      \/ q.cmd = "claim_customer" /\ i = 4
      \/ q.cmd = "transfer_customer_branch" /\ i = 7
  BY <1>1, <1>3, RowKinds DEF WantsOwn
<1>5. PICK u, k, g : Jams(S, s, u, k, g)
  BY <1>1, EverybodyJams
<1>6. pc \in Nat
  BY <1>1, TangledAtWork
<1>7. ~WantsBranch(q, pc, k) /\ ~WantsUser(q, pc, k) /\ ~WantsInvitations(q, pc, k)
  BY <1>2, <1>4, <1>6 DEF WantsBranch, WantsUser, WantsInvitations
<1> QED
  BY <1>5, <1>7, WhereItJams, NobodyCommits, NobodyWantsMember, NobodyWantsApprover, NobodyWantsPeople

LEMMA NobodyWantsUser ==
    ASSUME RefInv, HoldInv, NEW S, Tangled(S), NEW t, NEW s, NEW l, NEW h, Jams(S, t, s, l, h)
    PROVE  ~WantsUser(txn[t].req, txn[t].pc, l)
<1> SUFFICES ASSUME WantsUser(txn[t].req, txn[t].pc, l) PROVE FALSE
  OBVIOUS
<1> PICK q, pc : q = txn[s].req /\ pc = txn[s].pc
  OBVIOUS
<1>1. s \in S /\ h \in locks[s] /\ h.row[1] = "user"
  BY WantedKinds DEF Jams
<1>2. PICK i \in 1..(pc - 1) : Had(q, i, h)
  BY <1>1, TangledAtWork
<1>3. WantsUser(q, i, h)
  BY <1>1, <1>2, HadByKind
<1>4. q.cmd = "issue_customer_claim_invitation" /\ i = 6
  BY <1>1, <1>2, <1>3, UserHolders DEF WantsUser
<1>5. PICK u, k, g : Jams(S, s, u, k, g)
  BY <1>1, EverybodyJams
<1>6. pc \in Nat
  BY <1>1, TangledAtWork
<1>7. ~WantsBranch(q, pc, k) /\ ~WantsUser(q, pc, k)
  BY <1>2, <1>4, <1>6 DEF WantsBranch, WantsUser
<1> QED
  BY <1>5, <1>7, WhereItJams, NobodyCommits, NobodyWantsMember, NobodyWantsApprover, NobodyWantsPeople,
     NobodyWantsInvitations

(* What is left are the branches, and transfers that have locked one of two. *)
LEMMA AllWantBranches ==
    ASSUME RefInv, HoldInv, NEW S, Tangled(S), NEW t, NEW s, NEW l, NEW h, Jams(S, t, s, l, h)
    PROVE  WantsBranch(txn[t].req, txn[t].pc, l)
BY WhereItJams, NobodyCommits, NobodyWantsMember, NobodyWantsApprover, NobodyWantsPeople,
   NobodyWantsInvitations, NobodyWantsUser

LEMMA AllMove ==
    ASSUME RefInv, HoldInv, NEW S, Tangled(S), NEW t, NEW s, NEW l, NEW h, Jams(S, t, s, l, h),
           NEW q, q = txn[s].req
    PROVE  /\ q.cmd = "transfer_customer_branch" /\ txn[s].pc = 5
           /\ l.row = BranchRow(LowerBranch(q))
<1> PICK pc : pc = txn[s].pc
  OBVIOUS
<1>1. s \in S /\ h \in locks[s] /\ h.row = l.row /\ l.row[1] = "branch"
  BY AllWantBranches, WantedKinds DEF Jams
<1>2. PICK i \in 1..(pc - 1) : Had(q, i, h)
  BY <1>1, TangledAtWork
<1>3. PICK u, k, g : Jams(S, s, u, k, g)
  BY <1>1, EverybodyJams
<1>4. WantsBranch(q, pc, k) /\ pc \in Nat
  BY <1>1, <1>3, AllWantBranches, TangledAtWork
<1>5. WantsBranch(q, i, h)
  <2>1. q.cmd \notin ByBranch
    BY <1>4 DEF WantsBranch, ByBranch
  <2> QED BY <1>1, <1>2, <2>1, HadByKind
<1>6. q.cmd = "transfer_customer_branch"
  <2> SUFFICES ASSUME q.cmd # "transfer_customer_branch" PROVE FALSE
    OBVIOUS
  <2>1. h = Lock(BranchRow(customer[q.k].branch), "share") /\ k = h
    BY <1>4, <1>5 DEF WantsBranch
  <2>2. h.mode = "share"
    BY <2>1 DEF Lock
  <2>3. k.mode = "update"
    BY <1>1, <1>3, <2>1, OwnLockIsFree
  <2> QED BY <2>1, <2>2, <2>3
<1>7. pc = 5 /\ h.row = BranchRow(LowerBranch(q))
  BY <1>2, <1>4, <1>5, <1>6 DEF WantsBranch
<1> QED BY <1>1, <1>6, <1>7

LEMMA LowerThanUpper ==
    ASSUME RefInv, HoldInv, NEW S, Tangled(S), NEW t \in S, NEW r, r = txn[t].req,
           r.cmd = "transfer_customer_branch", txn[t].pc = 5
    PROVE  LowerBranch(r) \in Nat /\ UpperBranch(r) \in Nat /\ LowerBranch(r) < UpperBranch(r)
<1> PICK seen, held, steps :
        seen = txn[t].seen /\ held = locks[t] /\ steps = transfer_customer_branch(r)
  OBVIOUS
<1>1. Asked(r) /\ Found(r, seen, 5, held) /\ (r.cmd \notin ByBranch => OwnsCustomer(r, held))
  BY TangledAtWork
<1>2. customer[r.k].branch \in Nat /\ r.b \in Nat
  BY <1>1, BranchIds DEF ByBranch, OwnsCustomer, Asked, RequestOK
<1>3. r.b # customer[r.k].branch
  <2>1. TransferSteps(r, steps)
    BY TransferList
  <2>2. Len(steps) \in {8, 10} /\ steps[3] = Reads(r.b # customer[r.k].branch)
    BY <2>1 DEF TransferSteps
  <2>3. CommandSteps(r, seen) = steps /\ UnsureAt(r) = 0
    BY DEF CommandSteps, UnsureAt, Reviews
  <2>4. Passed(steps[3], held)
    BY <1>1, <2>2, <2>3 DEF Found, StepsHold
  <2>5. Reads(r.b # customer[r.k].branch).ok
    BY <2>2, <2>4 DEF Passed
  <2> QED BY <2>5 DEF Reads
<1> QED BY <1>2, <1>3 DEF LowerBranch, UpperBranch

LEMMA NothingIsTangled == ASSUME RefInv, HoldInv, NEW S, Tangled(S) PROVE FALSE
<1> DEFINE Upper(t) == UpperBranch(txn[t].req)
           Uppers == {Upper(t) : t \in S}
<1>1. \A s \in S : \E t \in S : Upper(t) < Upper(s)
  <2> SUFFICES ASSUME NEW s \in S PROVE \E t \in S : Upper(t) < Upper(s)
    OBVIOUS
  <2> PICK q : q = txn[s].req
    OBVIOUS
  <2>1. PICK t, l, h : Jams(S, t, s, l, h)
    BY EverybodyJams
  <2> PICK r : r = txn[t].req
    OBVIOUS
  <2>2. t \in S /\ l.row = BranchRow(LowerBranch(q)) /\ LowerBranch(q) < UpperBranch(q)
    <3>1. q.cmd = "transfer_customer_branch" /\ txn[s].pc = 5 /\ l.row = BranchRow(LowerBranch(q))
      BY <2>1, AllMove
    <3> QED BY <2>1, <3>1, LowerThanUpper DEF Jams
  <2>3. PICK u, k, g : Jams(S, u, t, k, g)
    BY <2>2, EverybodyJams
  <2>4. r.cmd = "transfer_customer_branch" /\ txn[t].pc = 5
    BY <2>3, AllMove
  <2>5. WantsBranch(r, 5, l)
    BY <2>1, <2>4, AllWantBranches
  <2>6. l.row = BranchRow(UpperBranch(r))
    BY <2>4, <2>5 DEF WantsBranch
  <2>7. UpperBranch(r) = LowerBranch(q)
    BY <2>2, <2>6, SameRow
  <2> QED BY <2>2, <2>7
<1>2. \A s \in S : Upper(s) \in Nat
  <2> SUFFICES ASSUME NEW s \in S PROVE UpperBranch(txn[s].req) \in Nat
    OBVIOUS
  <2>1. PICK t, l, h : Jams(S, t, s, l, h)
    BY EverybodyJams
  <2> QED BY <2>1, AllMove, LowerThanUpper
<1>3. Uppers \subseteq Nat /\ Uppers # {}
  BY <1>2 DEF Tangled, CircularWait
<1> HIDE DEF Uppers
<1>4. PICK least \in Uppers : \A n \in Uppers : ~(<<n, least>> \in OpToRel(<, Nat))
  BY <1>3, NatLessThanWellFounded, WFMin
<1>5. PICK s \in S : least = Upper(s)
  BY <1>4 DEF Uppers
<1>6. PICK t \in S : Upper(t) < Upper(s)
  BY <1>1
<1>7. <<Upper(t), Upper(s)>> \in OpToRel(<, Nat)
  BY <1>2, <1>6 DEF OpToRel
<1>8. Upper(t) \in Uppers
  BY DEF Uppers
<1> QED BY <1>4, <1>5, <1>7, <1>8

(* Transactions wait in a circle, of any number, only where one of them invites      *)
(* somebody who is at work himself.                                             *)
THEOREM CircularWaitsInviteAnActor == Spec => []NoCircularWait
<1>1. RefInv /\ HoldInv => NoCircularWait
  <2> SUFFICES ASSUME RefInv, HoldInv, NEW S \in SUBSET Txns, CircularWait(S)
               PROVE  \E t, s \in S : WaitsFor(t, s) /\ InvitesActorOf(s, t)
    BY DEF NoCircularWait
  <2> QED BY NothingIsTangled DEF Tangled
<1>2. RefInv /\ HoldInv /\ [Next]_vars => HoldInv'
  BY HoldInvNext
<1> QED BY <1>1, <1>2, HoldInvInit, FindingsAlwaysHold, PTL DEF Spec
=============================================================================
