-------------------------------- MODULE Agency --------------------------------
(* Orders and their cancellation together.  The settlement of a customer's     *)
(* orders, their review, the ledgers and the cancellation cases all move the   *)
(* same order rows, in transactions of different people.                       *)
EXTENDS AgencyOrders, Cancellation

Next == OrdersNext \/ CasesNext

Spec == Init /\ [][Next]_vars

-----------------------------------------------------------------------------
(* Properties *)

Approved(q) == case[q].status \in OpenStatus \ {"approval_pending"}

(* An approved case and its order move together: an order that is being worked *)
(* off is cancellation_pending or in manual_intervention as its case is, and   *)
(* it is cancelled when the case is completed, whatever settlement does to the *)
(* order meanwhile.                                                           *)
FollowsCase(q) ==
    /\ case[q].status \in {"action_pending", "reconciliation_pending"}
          => order[q].status = "cancellation_pending"
    /\ case[q].status = "manual_intervention" => order[q].status = "manual_intervention"
    /\ case[q].status = "completed" => order[q].status = "cancelled"

OrderFollowsCase == \A q \in Quotes : FollowsCase(q)

(* The status of an approved case says what its results leave to be done, so   *)
(* somebody has work to do: a case in manual_intervention can be resumed, and  *)
(* none waits for a reconciliation or a result that nobody may record.         *)
StatusIsProgress ==
    \A q \in Quotes :
        Approved(q) \/ case[q].status = "completed"
          => Progress(case[q].need, case[q].results) =
               (IF case[q].status = "manual_intervention" THEN "action_pending"
                ELSE case[q].status)

(* A completed case was vouched for: each action it needed has a successful     *)
(* latest result that an auditor other than its recorder matched, and the      *)
(* request was approved by neither its author nor the customer.                *)
CompletedIsVerified ==
    \A q \in Quotes : case[q].status = "completed" =>
        /\ \A a \in case[q].need :
              /\ Succeeded(case[q].results, a)
              /\ LET r == case[q].results[Latest(case[q].results, a)] IN
                    r.recon = "matched" /\ r.reconBy \notin {r.by, Nobody}
        /\ case[q].reviewer \notin {case[q].by, Buyer(q), Nobody}

(* Money is not returned twice: a successful result is followed by another of   *)
(* its kind only after an auditor contradicted it.                             *)
NoSecondSuccess ==
    \A q \in Quotes : \A i, j \in DOMAIN case[q].results :
        LET r == case[q].results[i] IN
        i < j /\ r.action = case[q].results[j].action /\ r.outcome = "succeeded"
          => r.recon \in {"mismatched", "unverifiable"}

(* An order under review can always be decided by somebody: it is bound to the  *)
(* revision under review, has no open case, and an approver who is not its     *)
(* customer exists.  Otherwise the order would be stuck, and with it the       *)
(* customer, who is not activated while an order is under review.  (An old     *)
(* draft whose columns show exposure can be submitted and is stuck: neither     *)
(* decision is then allowed.)                                                  *)
ReviewDecidable ==
    \A q \in Quotes : order[q].status = "pending_review" /\ order[q].exposure = {} =>
        /\ \E p \in People : Decidable(q, p)
        /\ ~HasOpenCase(q)

(* A relationship that has ended leaves nothing behind that could still be sold *)
(* or executed unnoticed.                                                      *)
InactiveIsSettled ==
    \A q \in Quotes : customer[CustomerOf[q]].status = "inactive" =>
        /\ quote[q].status \notin {"draft", "offered"}
        /\ quote[q].status = "accepted" => order[q] # NoOrder
        /\ order[q].status \notin {"draft", "approved", "processing", "failed"}

(* An order that was under review when its customer's relationship ended is     *)
(* only ever rejected; coming back does not revive it.                         *)
ReviewDiesWithRelationship ==
    [][\A q \in Quotes :
         order[q].status = "pending_review" /\ customer[CustomerOf[q]].status # "active" =>
            \/ order'[q].status = "review_rejected"
            \/ order'[q].status = "pending_review" /\ customer'[CustomerOf[q]].status # "active"]_vars

(* Neither settlement nor a late decision moves an order that has ended. *)
EndedOrdersStay ==
    [][\A q \in Quotes : order[q].status \in {"cancelled", "review_rejected"}
                            => order'[q] = order[q]]_vars

(* No transaction of the services is turned down by the database: whatever the  *)
(* commands, settlement and the passing of time made of the rows, every write   *)
(* is one the triggers accept.  The services and the triggers state the same    *)
(* rules twice; where they disagreed a command would pass every check of its    *)
(* service and end in a database error, and the order could not go on.         *)
ImplementsGuards == GuardedTables
=============================================================================
