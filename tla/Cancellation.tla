----------------------------- MODULE Cancellation -----------------------------
(* The cancellation of an order by people (cancellation_service.py): a case is *)
(* requested, reviewed by an approver, worked off by operators who record what *)
(* they did outside the platform, and checked by auditors.  Nothing is called  *)
(* from here; the case only says who vouches for what.                         *)
EXTENDS AgencyStore

-----------------------------------------------------------------------------
(* What the results of a case leave to be done *)

(* Actions with no successful result, or with one that did not reconcile. *)
ToDo(need, results) ==
    {a \in need : \/ ~Succeeded(results, a)
                  \/ results[Latest(results, a)].recon \in {"mismatched", "unverifiable"}}

ToReconcile(need, results) ==
    {a \in need : Succeeded(results, a) /\ results[Latest(results, a)].recon = "none"}

(* _progress *)
Progress(need, results) ==
    IF ToDo(need, results) # {} THEN "action_pending"
    ELSE IF ToReconcile(need, results) # {} THEN "reconciliation_pending"
    ELSE "completed"

-----------------------------------------------------------------------------
(* request_cancellation *)

Requestable(o) == o.status \in {"draft", "approved", "processing", "failed",
                                "cancellation_pending", "manual_intervention"}

MayRequest(q, actor) == actor = Buyer(q) \/ Holds(actor, "manager")

request_cancellation(q, actor) ==
    /\ MayRequest(q, actor)
    /\ ApproverBeside({actor, Buyer(q)})
    /\ Requestable(order[q])
    /\ ~HasOpenCase(q)
    /\ case' = [case EXCEPT ![q] =
         [NoCase EXCEPT !.status = "approval_pending", !.orderRev = order[q].rev,
                        !.need = RequiredActions(q), !.by = actor]]
    /\ UNCHANGED <<customer, quote, order, ledger, review>>

-----------------------------------------------------------------------------
(* review_cancellation *)

MayReview(q, actor) ==
    /\ case[q].status = "approval_pending"
    /\ Holds(actor, "approver") /\ actor \notin {case[q].by, Buyer(q)}

Reviewed(q, actor, status) ==
    case' = [case EXCEPT ![q].status = status, ![q].reviewer = actor]

reject_case(q, actor) ==
    /\ MayReview(q, actor)
    /\ Reviewed(q, actor, "rejected")
    /\ UNCHANGED <<customer, quote, order, ledger, review>>

(* _ensure_required_actions_unchanged *)
ExposureUnchanged(q) == RequiredActions(q) = case[q].need

(* Nothing to settle outside: the order is cancelled at once. *)
CompleteInternally(q, actor) ==
    /\ case[q].need = {} /\ order[q].status \in {"draft", "approved"}
    /\ Reviewed(q, actor, "completed")
    /\ order' = [order EXCEPT ![q] = Moved(@, "cancelled")]

StartManualWork(q, actor) ==
    /\ case[q].need # {}
    /\ Reviewed(q, actor, "action_pending")
    /\ order' = IF order[q].status = "cancellation_pending" THEN order
                ELSE [order EXCEPT ![q] = Moved(@, "cancellation_pending")]

(* Mutant: a case is approved whatever happened to its order meanwhile. *)
approve_stale_case(q, actor) ==
    /\ MayReview(q, actor)
    /\ CompleteInternally(q, actor) \/ StartManualWork(q, actor)
    /\ UNCHANGED <<customer, quote, ledger, review>>

approve_case(q, actor) ==
    /\ MayReview(q, actor)
    /\ case[q].orderRev = order[q].rev /\ ExposureUnchanged(q)
    /\ CompleteInternally(q, actor) \/ StartManualWork(q, actor)
    /\ UNCHANGED <<customer, quote, ledger, review>>

-----------------------------------------------------------------------------
(* record_manual_result *)

RecorderRole(a) == IF a = "supplier_cancel" THEN "booking_operator" ELSE "finance"

(* Mutant: only a result that was reconciled as matched stands in the way. *)
AlreadyMatched(results, a) ==
    Succeeded(results, a) /\ results[Latest(results, a)].recon = "matched"

(* A success stands until an auditor contradicts it. *)
AlreadySucceeded(results, a) ==
    Succeeded(results, a) /\ results[Latest(results, a)].recon \in {"none", "matched"}

record_manual_result(q, a, outcome, actor) ==
    LET results == Append(case[q].results,
                          [action |-> a, outcome |-> outcome, by |-> actor,
                           recon |-> "none", reconBy |-> Nobody])
        status == IF outcome = "succeeded" THEN Progress(case[q].need, results)
                  ELSE "manual_intervention"
    IN  /\ case[q].status = "action_pending" /\ a \in case[q].need
        /\ Holds(actor, RecorderRole(a))
        /\ ExposureUnchanged(q)
        /\ ~AlreadySucceeded(case[q].results, a)
        /\ Len(case[q].results) < MaxRecords
        /\ case' = [case EXCEPT ![q].status = status, ![q].results = results]
        /\ order' = IF status = "manual_intervention"
                    THEN [order EXCEPT ![q] = Moved(@, "manual_intervention")] ELSE order
        /\ UNCHANGED <<customer, quote, ledger, review>>

-----------------------------------------------------------------------------
(* reconcile_manual_result *)

(* Mutant: an operator may vouch for the result they recorded. *)
MayReconcileOwn(q, i, actor) ==
    /\ case[q].status = "reconciliation_pending"
    /\ case[q].results[i].outcome = "succeeded" /\ case[q].results[i].recon = "none"
    /\ i = Latest(case[q].results, case[q].results[i].action)
    /\ Holds(actor, "auditor")

MayReconcile(q, i, actor) ==
    /\ case[q].status = "reconciliation_pending"
    /\ case[q].results[i].outcome = "succeeded" /\ case[q].results[i].recon = "none"
    /\ i = Latest(case[q].results, case[q].results[i].action)
    /\ Holds(actor, "auditor") /\ actor # case[q].results[i].by

(* The order follows the case. *)
OrderAfter(q, status) ==
    CASE status = "manual_intervention" -> [order EXCEPT ![q] = Moved(@, "manual_intervention")]
      [] status = "completed" -> [order EXCEPT ![q] = Moved(@, "cancelled")]
      [] OTHER -> order

(* Mutant: the first result that matches completes the case. *)
reconcile_completing_at_once(q, i, outcome, actor) ==
    LET status == IF outcome = "matched" THEN "completed" ELSE "manual_intervention"
    IN  /\ MayReconcile(q, i, actor)
        /\ ExposureUnchanged(q)
        /\ case' = [case EXCEPT ![q].status = status, ![q].results[i].recon = outcome,
                               ![q].results[i].reconBy = actor]
        /\ order' = OrderAfter(q, status)
        /\ UNCHANGED <<customer, quote, ledger, review>>

reconcile_manual_result(q, i, outcome, actor) ==
    LET results == [case[q].results EXCEPT ![i].recon = outcome, ![i].reconBy = actor]
        status == IF outcome = "matched" THEN Progress(case[q].need, results)
                  ELSE "manual_intervention"
    IN  /\ MayReconcile(q, i, actor)
        /\ ExposureUnchanged(q)
        /\ case' = [case EXCEPT ![q].status = status, ![q].results = results]
        /\ order' = OrderAfter(q, status)
        /\ UNCHANGED <<customer, quote, ledger, review>>

-----------------------------------------------------------------------------
(* Mutant: the case goes on and the order stays where it is. *)
resume_case_only(q, actor) ==
    /\ case[q].status = "manual_intervention" /\ Holds(actor, "manager")
    /\ ExposureUnchanged(q)
    /\ Progress(case[q].need, case[q].results) = "action_pending"
    /\ case' = [case EXCEPT ![q].status = "action_pending"]
    /\ UNCHANGED <<customer, quote, order, ledger, review>>

resume_cancellation(q, actor) ==
    /\ case[q].status = "manual_intervention" /\ Holds(actor, "manager")
    /\ ExposureUnchanged(q)
    /\ Progress(case[q].need, case[q].results) = "action_pending"
    /\ case' = [case EXCEPT ![q].status = "action_pending"]
    /\ order' = [order EXCEPT ![q] = Moved(@, "cancellation_pending")]
    /\ UNCHANGED <<customer, quote, ledger, review>>

-----------------------------------------------------------------------------
CasesNext ==
    \E q \in Quotes, actor \in People :
      \/ request_cancellation(q, actor)
      \/ reject_case(q, actor) \/ approve_case(q, actor)
      \/ \E a \in ActionTypes, outcome \in Outcome : record_manual_result(q, a, outcome, actor)
      \/ \E i \in DOMAIN case[q].results, outcome \in Reconciled :
            reconcile_manual_result(q, i, outcome, actor)
      \/ resume_cancellation(q, actor)
=============================================================================
