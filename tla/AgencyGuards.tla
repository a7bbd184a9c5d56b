---------------------------- MODULE AgencyGuards ----------------------------
(* What the triggers of migrations 0004, 0007 and 0008 accept: the same rules   *)
(* as the services', written a second time in PL/pgSQL.  A row trigger looks at *)
(* each changed row and its old version, a deferred one at the rows as they are *)
(* at the end of the transaction.  The branch is active throughout, and         *)
(* timestamps, which the triggers tie to the statuses, are left out.           *)
EXTENDS AgencyStore

-----------------------------------------------------------------------------
(* Row triggers on quotes and orders *)

(* zhixing_guard_agency_quote_mutation.  Only a status is ever updated;         *)
(* valid_until passes without an update.                                      *)
QuoteGuard(q) ==
    LET k == CustomerOf[q]  from == quote[q].status  to == quote'[q].status IN
    \/ from = "none" /\ to = "draft" /\ ~quote'[q].expired /\ MayTransact(k)'
    \/ <<from, to>> \in {<<"draft", "offered">>, <<"offered", "accepted">>}
       /\ ~quote'[q].expired
    \/ from \in {"draft", "offered"} /\ to = "cancelled"
    \/ from = "accepted" /\ to = "cancelled" /\ order[q] = NoOrder

OrderTransitions ==
    {<<"draft", "pending_review">>,
     <<"pending_review", "approved">>, <<"pending_review", "review_rejected">>,
     <<"cancellation_pending", "manual_intervention">>}
    \union ({"draft", "approved", "cancellation_pending", "manual_intervention"}
              \X {"cancelled"})
    \union ({"draft", "approved", "processing", "failed", "manual_intervention"}
              \X {"cancellation_pending"})

(* zhixing_guard_agency_order_mutation *)
OrderGuard(q) ==
    IF order[q] = NoOrder
    THEN /\ order'[q] = [status |-> "draft", rev |-> 1, exposure |-> {}]
         /\ MayTransact(CustomerOf[q])'
         /\ quote'[q] = [status |-> "accepted", expired |-> FALSE]
    ELSE /\ order'[q].exposure = order[q].exposure
         /\ order'[q].rev = order[q].rev + 1
         /\ <<order[q].status, order'[q].status>> \in OrderTransitions
         /\ order'[q].status = "pending_review" =>
              ~HasOpenCase(q)' /\ ApproverBeside({Buyer(q)})

-----------------------------------------------------------------------------
(* Row triggers on ledgers, cases and their results *)

(* zhixing_guard_cancellation_ledger_mutation *)
Frozen(q) ==
    \/ order[q].status \in {"cancellation_pending", "manual_intervention", "cancelled"}
    \/ HasOpenCase(q)

CaseTransitions ==
    ({"approval_pending"} \X {"rejected", "action_pending", "completed"})
    \union ({"action_pending"} \X {"reconciliation_pending", "manual_intervention"})
    \union ({"reconciliation_pending"} \X {"completed", "manual_intervention"})
    \union {<<"manual_intervention", "action_pending">>}

(* zhixing_guard_agency_order_cancellation_case, on a new row; an index keeps   *)
(* an order to one open case.                                                 *)
CaseInsertGuard(q) ==
    /\ ~HasOpenCase(q)
    /\ case'[q].orderRev = order[q].rev
    /\ order[q].status \in OldStatus
    /\ case'[q].need = RequiredActions(q)
    /\ ApproverBeside({case'[q].by, Buyer(q)})

(* The same, on an updated row.  A check constraint keeps author and reviewer   *)
(* apart.                                                                     *)
CaseUpdateGuard(q) ==
    LET old == case[q]  new == case'[q] IN
    /\ <<new.orderRev, new.need, new.by>> = <<old.orderRev, old.need, old.by>>
    /\ <<old.status, new.status>> \in CaseTransitions
    /\ IF old.status = "approval_pending" THEN Holds(new.reviewer, "approver")
       ELSE new.reviewer = old.reviewer
    /\ new.reviewer \notin {old.by, Buyer(q)}

(* zhixing_guard_compensation_record_insert and its deferred companion *)
RecordGuard(q, r) ==
    /\ r.action \in case'[q].need
    /\ r.recon = "none"
    /\ IF r.outcome = "succeeded"
       THEN case'[q].status \in {"action_pending", "reconciliation_pending"}
       ELSE case'[q].status = "manual_intervention"

(* zhixing_guard_reconciliation_record_insert and its deferred companion *)
ReconciliationGuard(q, r) ==
    /\ r.outcome = "succeeded"
    /\ r.reconBy # r.by
    /\ IF r.recon = "matched"
       THEN case'[q].status \in {"reconciliation_pending", "manual_intervention", "completed"}
       ELSE case'[q].status = "manual_intervention"

(* Results are append-only. *)
ResultsGuard(q) ==
    LET old == case[q].results  new == case'[q].results IN
    \/ /\ Len(new) = Len(old) + 1 /\ \A i \in DOMAIN old : new[i] = old[i]
       /\ RecordGuard(q, new[Len(new)])
    \/ \E i \in DOMAIN old :
         /\ old[i].recon = "none"
         /\ new = [old EXCEPT ![i].recon = new[i].recon, ![i].reconBy = new[i].reconBy]
         /\ ReconciliationGuard(q, new[i])

-----------------------------------------------------------------------------
(* Deferred triggers *)

(* zhixing_validate_cancellation_case_consistency *)
CaseConsistent(q) ==
    LET c == case[q] IN
    /\ c.status = "approval_pending"
         => order[q].rev = c.orderRev /\ order[q].status # "cancelled"
    /\ c.status \in {"action_pending", "reconciliation_pending"}
         => order[q].status = "cancellation_pending"
    /\ c.status = "manual_intervention" => order[q].status = "manual_intervention"
    /\ c.status = "completed" => order[q].status = "cancelled"
    /\ \A a \in c.need :
         /\ c.status \in {"reconciliation_pending", "completed"} => Succeeded(c.results, a)
         /\ c.status = "completed" => c.results[Latest(c.results, a)].recon = "matched"

(* zhixing_validate_order_cancellation_consistency *)
OrderConsistent(q) ==
    LET o == order[q].status  c == case[q].status IN
    /\ o = "pending_review" => ~HasOpenCase(q)
    /\ o \in {"cancellation_pending", "manual_intervention", "cancelled"} =>
         /\ c \in {"none", "rejected"} => customer[CustomerOf[q]].status # "active"
         /\ c \in {"action_pending", "reconciliation_pending"} => o = "cancellation_pending"
         /\ c = "manual_intervention" => o = "manual_intervention"
         /\ c = "completed" => o = "cancelled"

(* zhixing_validate_agency_order_review_consistency; who decided is not kept.   *)
ReviewMatches(q) ==
    LET o == order[q]  r == review[q] IN
    \/ r.status = "pending" /\ o.status = "pending_review" /\ r.orderRev = o.rev
    \/ /\ <<r.status, o.status>> \in {<<"approved", "approved">>, <<"rejected", "review_rejected">>}
       /\ o.rev = r.orderRev + 1
       /\ o.status = "approved" => MayTransact(CustomerOf[q])

-----------------------------------------------------------------------------
(* zhixing_guard_agency_customer_lifecycle *)
CustomerGuard(k) ==
    /\ customer'[k].status = "active" => customer'[k].granted
    /\ customer[k].status # "active" /\ customer'[k].status = "active" =>
         \A q \in Quotes : CustomerOf[q] = k => order'[q].status # "pending_review"

(* The triggers that fire for a transaction that changes these rows *)
Accepted(q) ==
    /\ quote'[q].status # quote[q].status => QuoteGuard(q)
    /\ order'[q] # order[q] => OrderGuard(q) /\ OrderConsistent(q)'
    /\ \/ review'[q] # review[q]
       \/ order'[q] # order[q]
          /\ order'[q].status \in {"pending_review", "approved", "review_rejected"}
       => ReviewMatches(q)'
    /\ ledger'[q] # ledger[q] => ~Frozen(q)
    /\ case'[q].status # case[q].status =>
         /\ IF case'[q].status = "approval_pending" THEN CaseInsertGuard(q)
            ELSE CaseUpdateGuard(q)
         /\ CaseConsistent(q)'
    /\ case'[q].status # "approval_pending" /\ case'[q].results # case[q].results
         => ResultsGuard(q)

AcceptedStep ==
    /\ \A q \in Quotes : Accepted(q)
    /\ \A k \in Customers : customer'[k] # customer[k] => CustomerGuard(k)

(* The tables as the triggers alone leave them to anybody who writes there *)
GuardedTables == Init /\ [][AcceptedStep]_vars
=============================================================================
