----------------------------- MODULE AgencyProofs -----------------------------
(* Theorems about Agency, for any branch, any customers and any orders. *)
EXTENDS Agency, TLAPS, SequenceTheorems, WellFoundedInduction

-----------------------------------------------------------------------------
(* Types *)

(* What _derive_required_actions returns is a set of action types. *)
LEMMA RequiredActionsType ==
    ASSUME TypeOK, NEW q \in Quotes
    PROVE  RequiredActions(q) \in SUBSET ActionTypes
BY DEF TypeOK, OrderRow, RequiredActions, ActionTypes

(* An updated order row is an order row. *)
LEMMA MovedType ==
    ASSUME NEW o \in OrderRow, NEW s \in OrderStatus
    PROVE  /\ Moved(o, s) \in OrderRow
           /\ Moved(o, s).status = s
           /\ Moved(o, s).rev = o.rev + 1
           /\ Moved(o, s).exposure = o.exposure
BY DEF Moved, OrderRow

(* A settled order row is an order row. *)
LEMMA SettledType ==
    ASSUME NEW o \in OrderRow
    PROVE  Settled(o) \in OrderRow
BY MovedType DEF Settled, OrderStatus, OldStatus

(* _progress returns the status of an open or a completed case. *)
LEMMA ProgressType ==
    ASSUME NEW need, NEW results
    PROVE  Progress(need, results) \in {"action_pending", "reconciliation_pending", "completed"}
BY DEF Progress

LEMMA OrdersKeepTypes == ASSUME TypeOK, AgencyAssumption, OrdersNext PROVE TypeOK'
<1> USE DEF TypeOK, CustomerRow, QuoteRow, OrderRow, ReviewRow
<1>1. ASSUME NEW q \in Quotes, create_quote(q) PROVE TypeOK'
  BY <1>1 DEF create_quote, QuoteStatus
<1>2. ASSUME NEW q \in Quotes, issue_quote(q) PROVE TypeOK'
  BY <1>2 DEF issue_quote, QuoteStatus
<1>3. ASSUME NEW q \in Quotes, accept_quote(q) PROVE TypeOK'
  BY <1>3 DEF accept_quote, QuoteStatus
<1>4. ASSUME NEW q \in Quotes, QuoteExpires(q) PROVE TypeOK'
  BY <1>4 DEF QuoteExpires
<1>5. ASSUME NEW q \in Quotes, create_order(q) PROVE TypeOK'
  BY <1>5 DEF create_order, OrderStatus, OldStatus
<1>6. ASSUME NEW q \in Quotes, submit_order(q) PROVE TypeOK'
  <2>1. order' \in [Quotes -> OrderRow]
    BY <1>6, MovedType DEF submit_order, OrderStatus
  <2>2. review' \in [Quotes -> ReviewRow]
    BY <1>6, <2>1 DEF submit_order, ReviewStatus
  <2> QED BY <1>6, <2>1, <2>2 DEF submit_order
<1>7. ASSUME NEW q \in Quotes, NEW p \in People, approve_order(q, p) PROVE TypeOK'
  <2>1. order' \in [Quotes -> OrderRow]
    BY <1>7, MovedType DEF approve_order, OrderStatus, OldStatus
  <2> QED BY <1>7, <2>1 DEF approve_order, ReviewStatus
<1>8. ASSUME NEW q \in Quotes, NEW p \in People, reject_order(q, p) PROVE TypeOK'
  <2>1. order' \in [Quotes -> OrderRow]
    BY <1>8, MovedType DEF reject_order, OrderStatus
  <2> QED BY <1>8, <2>1 DEF reject_order, ReviewStatus
<1>9. ASSUME NEW q \in Quotes, NEW shown \in SUBSET ActionTypes, ledger_write(q, shown)
      PROVE  TypeOK'
  BY <1>9 DEF ledger_write
<1>10. ASSUME NEW k \in Customers, activate_customer(k) PROVE TypeOK'
  BY <1>10 DEF activate_customer, CustomerStatus
<1>11. ASSUME NEW k \in Customers, grant_consent(k) PROVE TypeOK'
  BY <1>11 DEF grant_consent
<1>12. ASSUME NEW k \in Customers, SettleTransactions(k)
       PROVE  quote' \in [Quotes -> QuoteRow] /\ order' \in [Quotes -> OrderRow]
  <2>1. order' \in [Quotes -> OrderRow]
    BY <1>12, SettledType DEF SettleTransactions
  <2>2. quote' \in [Quotes -> QuoteRow]
    BY <1>12 DEF SettleTransactions, QuoteStatus
  <2> QED BY <2>1, <2>2
<1>13. ASSUME NEW k \in Customers, deactivate_customer(k) PROVE TypeOK'
  <2>1. PICK granted \in {customer[k].granted, FALSE} :
           customer' = [customer EXCEPT ![k] = [status |-> "inactive", granted |-> granted]]
    BY <1>13 DEF deactivate_customer
  <2>2. customer' \in [Customers -> CustomerRow]
    BY <2>1 DEF CustomerStatus
  <2> QED BY <1>12, <1>13, <2>2 DEF deactivate_customer
<1>14. ASSUME NEW k \in Customers, withdraw_consent(k) PROVE TypeOK'
  <2>1. CASE /\ customer' = [customer EXCEPT ![k] = [status |-> "inactive", granted |-> FALSE]]
             /\ SettleTransactions(k)
    <3>1. customer' \in [Customers -> CustomerRow]
      BY <2>1 DEF CustomerStatus
    <3> QED BY <1>12, <1>14, <2>1, <3>1 DEF withdraw_consent
  <2>2. CASE /\ customer' = [customer EXCEPT ![k].granted = FALSE]
             /\ UNCHANGED <<quote, order>>
    <3>1. customer' \in [Customers -> CustomerRow]
      BY <2>2
    <3> QED BY <1>14, <2>2, <3>1 DEF withdraw_consent
  <2> QED BY <1>14, <2>1, <2>2 DEF withdraw_consent
<1> QED
  BY <1>1, <1>2, <1>3, <1>4, <1>5, <1>6, <1>7, <1>8, <1>9, <1>10, <1>11, <1>13, <1>14
  DEF OrdersNext

(* A result row to which a reconciliation is added is a result row. *)
LEMMA ReconciledType ==
    ASSUME NEW results \in Seq(ResultRow), NEW i \in DOMAIN results,
           NEW outcome \in Reconciled, NEW p \in People
    PROVE  [results EXCEPT ![i].recon = outcome, ![i].reconBy = p] \in Seq(ResultRow)
<1>1. results[i] \in ResultRow /\ i \in 1 .. Len(results)
  OBVIOUS
<1> DEFINE row == [[results[i] EXCEPT !.recon = outcome] EXCEPT !.reconBy = p]
<1>2. row \in ResultRow
  BY <1>1 DEF ResultRow
<1>3. [results EXCEPT ![i] = row] \in Seq(ResultRow)
  BY <1>1, <1>2, ExceptSeq
<1>4. [results EXCEPT ![i].recon = outcome, ![i].reconBy = p] = [results EXCEPT ![i] = row]
  BY <1>1
<1> QED BY <1>3, <1>4

(* A case with a new status and new results is a case. *)
LEMMA WorkedCaseType ==
    ASSUME TypeOK, NEW q \in Quotes, NEW s \in CaseStatus, NEW r \in Seq(ResultRow)
    PROVE  [case EXCEPT ![q].status = s, ![q].results = r] \in [Quotes -> CaseRow]
BY DEF TypeOK, CaseRow

LEMMA CasesKeepTypes == ASSUME TypeOK, AgencyAssumption, CasesNext PROVE TypeOK'
<1> USE DEF TypeOK
<1>1. ASSUME NEW q \in Quotes, NEW p \in People, request_cancellation(q, p) PROVE TypeOK'
  <2>1. <<>> \in Seq(ResultRow)
    OBVIOUS
  <2>2. RequiredActions(q) \in SUBSET ActionTypes
    BY RequiredActionsType
  <2>3. order[q].rev \in Nat
    BY DEF OrderRow
  <2> DEFINE row == [NoCase EXCEPT !.status = "approval_pending", !.orderRev = order[q].rev,
                                   !.need = RequiredActions(q), !.by = p]
  <2>4. row \in CaseRow
    BY <2>1, <2>2, <2>3 DEF NoCase, CaseRow, CaseStatus, OpenStatus
  <2> QED BY <1>1, <2>4 DEF request_cancellation
<1>2. ASSUME NEW q \in Quotes, NEW p \in People, NEW s \in CaseStatus, Reviewed(q, p, s)
      PROVE  case' \in [Quotes -> CaseRow]
  BY <1>2 DEF Reviewed, CaseRow
<1>3. ASSUME NEW q \in Quotes, NEW p \in People, reject_case(q, p) PROVE TypeOK'
  BY <1>2, <1>3 DEF reject_case, CaseStatus
<1>4. ASSUME NEW q \in Quotes, NEW p \in People, approve_case(q, p) PROVE TypeOK'
  <2>1. CASE CompleteInternally(q, p)
    <3>1. order' \in [Quotes -> OrderRow]
      BY <2>1, MovedType DEF CompleteInternally, OrderStatus
    <3> QED BY <1>2, <1>4, <2>1, <3>1 DEF approve_case, CompleteInternally, CaseStatus
  <2>2. CASE StartManualWork(q, p)
    <3>1. order' \in [Quotes -> OrderRow]
      BY <2>2, MovedType DEF StartManualWork, OrderStatus, OldStatus
    <3> QED BY <1>2, <1>4, <2>2, <3>1 DEF approve_case, StartManualWork, CaseStatus, OpenStatus
  <2> QED BY <1>4, <2>1, <2>2 DEF approve_case
<1>5. ASSUME NEW q \in Quotes, NEW p \in People, NEW a \in ActionTypes, NEW o \in Outcome,
             record_manual_result(q, a, o, p)
      PROVE  TypeOK'
  <2> DEFINE row == [action |-> a, outcome |-> o, by |-> p, recon |-> "none", reconBy |-> Nobody]
             results == Append(case[q].results, row)
             status == IF o = "succeeded" THEN Progress(case[q].need, results)
                       ELSE "manual_intervention"
  <2>1. row \in ResultRow
    BY DEF ResultRow
  <2>2. results \in Seq(ResultRow)
    BY <2>1 DEF CaseRow
  <2>3. status \in CaseStatus
    BY ProgressType DEF CaseStatus, OpenStatus
  <2>4. /\ case' = [case EXCEPT ![q].status = status, ![q].results = results]
        /\ order' = IF status = "manual_intervention"
                    THEN [order EXCEPT ![q] = Moved(@, "manual_intervention")] ELSE order
        /\ UNCHANGED <<customer, quote, ledger, review>>
    BY <1>5 DEF record_manual_result
  <2> HIDE DEF results, status
  <2>5. case' \in [Quotes -> CaseRow]
    BY <2>2, <2>3, <2>4, WorkedCaseType
  <2>6. order' \in [Quotes -> OrderRow]
    BY <2>4, MovedType DEF OrderStatus, OldStatus
  <2> QED BY <2>4, <2>5, <2>6
<1>6. ASSUME NEW q \in Quotes, NEW p \in People, NEW i \in DOMAIN case[q].results,
             NEW o \in Reconciled, reconcile_manual_result(q, i, o, p)
      PROVE  TypeOK'
  <2> DEFINE results == [case[q].results EXCEPT ![i].recon = o, ![i].reconBy = p]
             status == IF o = "matched" THEN Progress(case[q].need, results)
                       ELSE "manual_intervention"
  <2>1. results \in Seq(ResultRow)
    BY ReconciledType DEF CaseRow
  <2>2. status \in CaseStatus
    BY ProgressType DEF CaseStatus, OpenStatus
  <2>3. /\ case' = [case EXCEPT ![q].status = status, ![q].results = results]
        /\ order' = OrderAfter(q, status)
        /\ UNCHANGED <<customer, quote, ledger, review>>
    BY <1>6 DEF reconcile_manual_result
  <2> HIDE DEF results, status
  <2>4. case' \in [Quotes -> CaseRow]
    BY <2>1, <2>2, <2>3, WorkedCaseType
  <2>5. order' \in [Quotes -> OrderRow]
    BY <2>3, MovedType DEF OrderAfter, OrderStatus, OldStatus
  <2> QED BY <2>3, <2>4, <2>5
<1>7. ASSUME NEW q \in Quotes, NEW p \in People, resume_cancellation(q, p) PROVE TypeOK'
  <2>1. order' \in [Quotes -> OrderRow]
    BY <1>7, MovedType DEF resume_cancellation, OrderStatus, OldStatus
  <2>2. case' \in [Quotes -> CaseRow]
    BY <1>7 DEF resume_cancellation, CaseRow, CaseStatus, OpenStatus
  <2> QED BY <1>7, <2>1, <2>2 DEF resume_cancellation
<1> QED
  BY <1>1, <1>3, <1>4, <1>5, <1>6, <1>7 DEF CasesNext

LEMMA InitType == ASSUME Init, AgencyAssumption PROVE TypeOK
<1>1. OldRow \subseteq OrderRow
  BY DEF OldRow, OrderRow, OrderStatus
<1>2. NoOrder \in OrderRow
  BY DEF NoOrder, OrderRow, OrderStatus
<1>3. order \in [Quotes -> OrderRow]
  BY <1>1, <1>2 DEF Init
<1>4. <<>> \in Seq(ResultRow)
  OBVIOUS
<1>5. case \in [Quotes -> CaseRow]
  BY <1>4 DEF Init, NoCase, CaseRow, CaseStatus
<1>6. customer \in [Customers -> CustomerRow]
  <2>1. {[status |-> "prospect", granted |-> FALSE],
         [status |-> "active", granted |-> TRUE]} \subseteq CustomerRow
    BY DEF CustomerRow, CustomerStatus
  <2> QED BY <2>1 DEF Init
<1>7. quote \in [Quotes -> QuoteRow]
  BY DEF Init, NoQuote, QuoteRow, QuoteStatus
<1> QED
  BY <1>3, <1>5, <1>6, <1>7 DEF Init, TypeOK, NoReview, ReviewRow, ReviewStatus

(* Every table keeps to its columns' values, whoever does what. *)
THEOREM TypeCorrect == Spec => []TypeOK
<1>1. Init => TypeOK
  BY InitType, AgencyAssumption
<1>2. TypeOK /\ [Next]_vars => TypeOK'
  <2> SUFFICES ASSUME TypeOK, [Next]_vars PROVE TypeOK'
    OBVIOUS
  <2>1. CASE UNCHANGED vars
    BY <2>1 DEF vars, TypeOK
  <2> QED BY <2>1, OrdersKeepTypes, CasesKeepTypes, AgencyAssumption DEF Next
<1> QED BY <1>1, <1>2, PTL DEF Spec

-----------------------------------------------------------------------------
(* The inductive invariant *)

(* A case waiting for its review names a revision its order has had, and if it *)
(* is still the order's revision, a request could still be made.               *)
BoundToOrder(q) ==
    case[q].status = "approval_pending" =>
        /\ case[q].orderRev <= order[q].rev
        /\ case[q].orderRev = order[q].rev => Requestable(order[q])

(* Whoever vouched for a step of a case was allowed to, and a completed case    *)
(* has nothing left to do.                                                     *)
VouchedFor(q) ==
    /\ \A i \in DOMAIN case[q].results :
          case[q].results[i].recon # "none" =>
             case[q].results[i].reconBy \notin {case[q].results[i].by, Nobody}
    /\ Approved(q) \/ case[q].status = "completed" =>
          case[q].reviewer \notin {case[q].by, Buyer(q), Nobody}
    /\ case[q].status = "completed" => Progress(case[q].need, case[q].results) = "completed"

CaseInv(q) == FollowsCase(q) /\ BoundToOrder(q) /\ VouchedFor(q)

IInv == TypeOK /\ \A q \in Quotes : CaseInv(q)

-----------------------------------------------------------------------------
(* What the commands of AgencyOrders do to an order: nothing, create it, or     *)
(* move it on from a status no approved case leaves it in.                     *)
OrderStep(q) ==
    \/ order'[q] = order[q]
    \/ order[q].status = "none" /\ order[q].rev = 0
    \/ /\ order[q].status \in {"draft", "approved", "processing", "failed", "pending_review"}
       /\ order'[q].rev = order[q].rev + 1

LEMMA SettledStep ==
    ASSUME NEW o \in OrderRow
    PROVE  \/ Settled(o) = o
           \/ /\ o.status \in {"draft", "approved", "processing", "failed"}
              /\ Settled(o).rev = o.rev + 1
              /\ Settled(o).status \in {"cancelled", "cancellation_pending"}
BY DEF Settled, Moved, OrderRow

LEMMA OrderSteps ==
    ASSUME TypeOK, OrdersNext
    PROVE  case' = case /\ \A q \in Quotes : OrderStep(q)
<1> USE DEF TypeOK, OrderRow
<1>1. ASSUME NEW r \in Quotes,
             create_quote(r) \/ issue_quote(r) \/ accept_quote(r) \/ QuoteExpires(r)
      PROVE  case' = case /\ \A q \in Quotes : OrderStep(q)
  BY <1>1 DEF create_quote, issue_quote, accept_quote, QuoteExpires, OrderStep
<1>2. ASSUME NEW r \in Quotes, create_order(r)
      PROVE  case' = case /\ \A q \in Quotes : OrderStep(q)
  BY <1>2 DEF create_order, OrderStep, NoOrder
<1>3. ASSUME NEW r \in Quotes, submit_order(r)
      PROVE  case' = case /\ \A q \in Quotes : OrderStep(q)
  BY <1>3 DEF submit_order, OrderStep, Moved
<1>4. ASSUME NEW r \in Quotes, NEW p \in People, approve_order(r, p) \/ reject_order(r, p)
      PROVE  case' = case /\ \A q \in Quotes : OrderStep(q)
  BY <1>4 DEF approve_order, reject_order, Decidable, OrderStep, Moved
<1>5. ASSUME NEW r \in Quotes, NEW shown \in SUBSET ActionTypes, ledger_write(r, shown)
      PROVE  case' = case /\ \A q \in Quotes : OrderStep(q)
  BY <1>5 DEF ledger_write, OrderStep
<1>6. ASSUME NEW k \in Customers, activate_customer(k) \/ grant_consent(k)
      PROVE  case' = case /\ \A q \in Quotes : OrderStep(q)
  BY <1>6 DEF activate_customer, grant_consent, OrderStep
<1>7. ASSUME NEW k \in Customers, SettleTransactions(k)
      PROVE  \A q \in Quotes : OrderStep(q)
  BY <1>7, SettledStep DEF SettleTransactions, OrderStep
<1>8. ASSUME NEW k \in Customers, deactivate_customer(k) \/ withdraw_consent(k)
      PROVE  case' = case /\ \A q \in Quotes : OrderStep(q)
  BY <1>7, <1>8 DEF deactivate_customer, withdraw_consent, OrderStep
<1> QED
  BY <1>1, <1>2, <1>3, <1>4, <1>5, <1>6, <1>8 DEF OrdersNext

(* Settlement, review and the rest never part an order from its case. *)
LEMMA OrdersKeepIInv == ASSUME IInv, AgencyAssumption, OrdersNext PROVE IInv'
<1>1. TypeOK' /\ case' = case /\ \A q \in Quotes : OrderStep(q)
  BY OrdersKeepTypes, OrderSteps DEF IInv
<1> SUFFICES ASSUME NEW q \in Quotes PROVE CaseInv(q)'
  BY <1>1 DEF IInv
<1>2. CaseInv(q) /\ OrderStep(q)
  BY <1>1 DEF IInv
<1>3. FollowsCase(q)'
  BY <1>1, <1>2 DEF CaseInv, FollowsCase, OrderStep
<1>4. BoundToOrder(q)'
  <2> SUFFICES ASSUME case[q].status = "approval_pending"
               PROVE  /\ case[q].orderRev <= order'[q].rev
                      /\ case[q].orderRev = order'[q].rev => Requestable(order'[q])
    BY <1>1 DEF BoundToOrder
  <2>1. /\ case[q].orderRev <= order[q].rev
        /\ case[q].orderRev = order[q].rev => Requestable(order[q])
        /\ case[q].orderRev \in Nat /\ order[q].rev \in Nat /\ order'[q].rev \in Nat
    BY <1>1, <1>2 DEF CaseInv, BoundToOrder, IInv, TypeOK, CaseRow, OrderRow
  <2>2. CASE order'[q] = order[q]
    BY <2>1, <2>2
  <2>3. CASE order[q].status = "none" /\ order[q].rev = 0
    BY <2>1, <2>3 DEF Requestable
  <2>4. CASE order'[q].rev = order[q].rev + 1
    BY <2>1, <2>4
  <2> QED BY <1>2, <2>2, <2>3, <2>4 DEF OrderStep
<1>5. VouchedFor(q)'
  BY <1>1, <1>2 DEF CaseInv, VouchedFor, Approved, Buyer
<1> QED BY <1>3, <1>4, <1>5 DEF CaseInv

-----------------------------------------------------------------------------
(* The results of a case *)

(* The CHOOSE of Latest has a witness: the highest position.  It is the lowest *)
(* when positions are counted from the end.                                   *)
LEMMA LatestExists ==
    ASSUME NEW results \in Seq(ResultRow), NEW a, ResultsFor(results, a) # {}
    PROVE  /\ Latest(results, a) \in ResultsFor(results, a)
           /\ \A j \in ResultsFor(results, a) : j <= Latest(results, a)
<1> DEFINE n == Len(results)
           fromEnd == {n - i : i \in ResultsFor(results, a)}
<1>1. n \in Nat /\ ResultsFor(results, a) \subseteq 1 .. n
  BY DEF ResultsFor
<1>2. fromEnd \subseteq Nat /\ fromEnd # {}
  BY <1>1
<1>3. PICK low \in fromEnd : \A m \in fromEnd : ~(<<m, low>> \in OpToRel(<, Nat))
  BY <1>2, NatLessThanWellFounded, WFMin, Zenon
<1>4. \A m \in fromEnd : low <= m
  <2> SUFFICES ASSUME NEW m \in fromEnd PROVE low <= m
    OBVIOUS
  <2>1. m \in Nat /\ low \in Nat
    BY <1>2
  <2> HIDE DEF fromEnd
  <2>2. ~(m < low)
    BY <1>3, <2>1 DEF OpToRel
  <2> QED BY <2>1, <2>2
<1>5. PICK i \in ResultsFor(results, a) : low = n - i
  OBVIOUS
<1>6. \A j \in ResultsFor(results, a) : j <= i
  <2> SUFFICES ASSUME NEW j \in ResultsFor(results, a) PROVE j <= i
    OBVIOUS
  <2>1. n - j \in fromEnd
    OBVIOUS
  <2>2. low <= n - j
    BY <1>4, <2>1
  <2>3. i \in Nat /\ j \in Nat
    BY <1>1
  <2> QED BY <1>1, <1>5, <2>2, <2>3
<1> QED BY <1>6 DEF Latest

(* A result just recorded is the latest of its action. *)
LEMMA LatestAfterAppend ==
    ASSUME NEW results \in Seq(ResultRow), NEW row \in ResultRow
    PROVE  /\ ResultsFor(Append(results, row), row.action) # {}
           /\ Latest(Append(results, row), row.action) = Len(results) + 1
<1> DEFINE after == Append(results, row)
           n == Len(results) + 1
<1>1. after \in Seq(ResultRow) /\ Len(after) = n /\ after[n] = row /\ n \in Nat
  BY AppendProperties
<1>2. n \in ResultsFor(after, row.action)
  BY <1>1 DEF ResultsFor
<1>3. ResultsFor(after, row.action) \subseteq 1 .. n
  BY <1>1 DEF ResultsFor
<1> HIDE DEF after
<1>4. Latest(after, row.action) \in 1 .. n /\ n <= Latest(after, row.action)
  BY <1>1, <1>2, <1>3, LatestExists
<1> QED BY <1>1, <1>2, <1>4 DEF after

(* An order is never finished by recording a result: an auditor comes last. *)
LEMMA RecordingDoesNotComplete ==
    ASSUME NEW results \in Seq(ResultRow), NEW row \in ResultRow, NEW need,
           row.action \in need, row.recon = "none"
    PROVE  Progress(need, Append(results, row)) # "completed"
<1> DEFINE after == Append(results, row)
           a == row.action
<1>1. after[Latest(after, a)] = row /\ ResultsFor(after, a) # {}
  BY LatestAfterAppend, AppendProperties
<1>2. CASE row.outcome = "succeeded"
  <2>1. a \in ToReconcile(need, after)
    BY <1>1, <1>2 DEF ToReconcile, Succeeded
  <2> QED BY <2>1 DEF Progress
<1>3. CASE row.outcome # "succeeded"
  <2>1. a \in ToDo(need, after)
    BY <1>1, <1>3 DEF ToDo, Succeeded
  <2> QED BY <2>1 DEF Progress
<1> QED BY <1>2, <1>3

-----------------------------------------------------------------------------
(* A command about one order leaves the others and their cases alone. *)
LEMMA OtherOrders ==
    ASSUME IInv, TypeOK', NEW q \in Quotes, CaseInv(q)',
           \A r \in Quotes \ {q} : case'[r] = case[r] /\ order'[r] = order[r]
    PROVE  IInv'
BY DEF IInv, CaseInv, FollowsCase, BoundToOrder, VouchedFor, Approved, Buyer

LEMMA CasesKeepIInv == ASSUME IInv, AgencyAssumption, CasesNext PROVE IInv'
<1>1. TypeOK /\ TypeOK' /\ \A q \in Quotes : CaseInv(q)
  BY CasesKeepTypes DEF IInv
<1>2. ASSUME NEW q \in Quotes, NEW p \in People, request_cancellation(q, p) PROVE IInv'
  <2>1. /\ case'[q] = [NoCase EXCEPT !.status = "approval_pending", !.orderRev = order[q].rev,
                                     !.need = RequiredActions(q), !.by = p]
        /\ \A r \in Quotes \ {q} : case'[r] = case[r]
        /\ order' = order /\ Requestable(order[q])
    BY <1>1, <1>2 DEF request_cancellation, TypeOK
  <2>2. /\ case'[q].status = "approval_pending" /\ case'[q].orderRev = order[q].rev
        /\ case'[q].results = <<>>
    BY <2>1 DEF NoCase
  <2>3. order[q].rev \in Nat
    BY <1>1 DEF TypeOK, OrderRow
  <2>4. CaseInv(q)'
    BY <2>1, <2>2, <2>3
    DEF CaseInv, FollowsCase, BoundToOrder, VouchedFor, Approved, OpenStatus
  <2> QED BY <1>1, <2>1, <2>4, OtherOrders
<1>3. ASSUME NEW q \in Quotes, NEW p \in People, reject_case(q, p) PROVE IInv'
  <2>1. /\ case'[q].status = "rejected" /\ case'[q].results = case[q].results
        /\ \A r \in Quotes \ {q} : case'[r] = case[r]
        /\ order' = order
    BY <1>1, <1>3 DEF reject_case, Reviewed, TypeOK, CaseRow
  <2>2. CaseInv(q)'
    BY <1>1, <2>1 DEF CaseInv, FollowsCase, BoundToOrder, VouchedFor, Approved, OpenStatus
  <2> QED BY <1>1, <2>1, <2>2, OtherOrders
<1>4. ASSUME NEW q \in Quotes, NEW p \in People, approve_case(q, p) PROVE IInv'
  <2>1. p \notin {case[q].by, Buyer(q), Nobody}
    BY <1>1, <1>4 DEF approve_case, MayReview, AgencyAssumption
  <2>2. CASE CompleteInternally(q, p)
    <3>1. /\ case'[q] = [case[q] EXCEPT !.status = "completed", !.reviewer = p]
          /\ \A r \in Quotes \ {q} : case'[r] = case[r] /\ order'[r] = order[r]
          /\ order'[q].status = "cancelled" /\ case[q].need = {}
      BY <1>1, <2>2 DEF CompleteInternally, Reviewed, TypeOK, Moved
    <3>2. /\ case'[q].status = "completed" /\ case'[q].reviewer = p
          /\ case'[q].by = case[q].by /\ case'[q].results = case[q].results
          /\ case'[q].need = {}
      BY <1>1, <3>1 DEF TypeOK, CaseRow
    <3>3. Progress({}, case[q].results) = "completed"
      BY DEF Progress, ToDo, ToReconcile
    <3>4. CaseInv(q)'
      BY <1>1, <2>1, <3>1, <3>2, <3>3
      DEF CaseInv, FollowsCase, BoundToOrder, VouchedFor, Approved, OpenStatus, Buyer
    <3> QED BY <1>1, <3>1, <3>4, OtherOrders
  <2>3. CASE StartManualWork(q, p)
    <3>1. /\ case'[q] = [case[q] EXCEPT !.status = "action_pending", !.reviewer = p]
          /\ \A r \in Quotes \ {q} : case'[r] = case[r] /\ order'[r] = order[r]
          /\ order'[q].status = "cancellation_pending"
      BY <1>1, <2>3 DEF StartManualWork, Reviewed, TypeOK, Moved
    <3>2. /\ case'[q].status = "action_pending" /\ case'[q].reviewer = p
          /\ case'[q].by = case[q].by /\ case'[q].results = case[q].results
      BY <1>1, <3>1 DEF TypeOK, CaseRow
    <3>3. CaseInv(q)'
      BY <1>1, <2>1, <3>1, <3>2
      DEF CaseInv, FollowsCase, BoundToOrder, VouchedFor, Approved, OpenStatus, Buyer
    <3> QED BY <1>1, <3>1, <3>3, OtherOrders
  <2> QED BY <1>4, <2>2, <2>3 DEF approve_case
<1>5. ASSUME NEW q \in Quotes, NEW p \in People, NEW a \in ActionTypes, NEW o \in Outcome,
             record_manual_result(q, a, o, p)
      PROVE  IInv'
  <2> DEFINE row == [action |-> a, outcome |-> o, by |-> p, recon |-> "none", reconBy |-> Nobody]
             results == Append(case[q].results, row)
             status == IF o = "succeeded" THEN Progress(case[q].need, results)
                       ELSE "manual_intervention"
  <2>1. row \in ResultRow /\ case[q].results \in Seq(ResultRow)
    BY <1>1 DEF ResultRow, TypeOK, CaseRow
  <2>2. /\ case' = [case EXCEPT ![q].status = status, ![q].results = results]
        /\ order' = IF status = "manual_intervention"
                    THEN [order EXCEPT ![q] = Moved(@, "manual_intervention")] ELSE order
        /\ case[q].status = "action_pending" /\ a \in case[q].need
    BY <1>5 DEF record_manual_result
  <2>3. status \in {"action_pending", "reconciliation_pending", "manual_intervention"}
    BY <2>1, <2>2, ProgressType, RecordingDoesNotComplete
  <2>4. \A i \in DOMAIN results :
          results[i].recon # "none" => results[i].reconBy \notin {results[i].by, Nobody}
    <3>1. \A i \in DOMAIN results :
            \/ results[i] = row
            \/ i \in DOMAIN case[q].results /\ results[i] = case[q].results[i]
      BY <2>1, AppendProperties
    <3>2. row.recon = "none"
      OBVIOUS
    <3> QED BY <1>1, <3>1, <3>2 DEF CaseInv, VouchedFor
  <2> HIDE DEF results, status
  <2>5. /\ case'[q].status = status /\ case'[q].results = results
        /\ case'[q].reviewer = case[q].reviewer /\ case'[q].by = case[q].by
        /\ \A r \in Quotes \ {q} : case'[r] = case[r] /\ order'[r] = order[r]
    BY <1>1, <2>2 DEF TypeOK, CaseRow
  <2>6. order'[q].status = IF status = "manual_intervention" THEN "manual_intervention"
                           ELSE "cancellation_pending"
    BY <1>1, <2>2 DEF TypeOK, CaseInv, FollowsCase, Moved
  <2>7. CaseInv(q)'
    BY <1>1, <2>2, <2>3, <2>4, <2>5, <2>6
    DEF CaseInv, FollowsCase, BoundToOrder, VouchedFor, Approved, OpenStatus, Buyer
  <2> QED BY <1>1, <2>5, <2>7, OtherOrders
<1>6. ASSUME NEW q \in Quotes, NEW p \in People, NEW i \in DOMAIN case[q].results,
             NEW o \in Reconciled, reconcile_manual_result(q, i, o, p)
      PROVE  IInv'
  <2> DEFINE results == [case[q].results EXCEPT ![i].recon = o, ![i].reconBy = p]
             status == IF o = "matched" THEN Progress(case[q].need, results)
                       ELSE "manual_intervention"
  <2>1. case[q].results \in Seq(ResultRow)
    BY <1>1 DEF TypeOK, CaseRow
  <2>2. /\ case' = [case EXCEPT ![q].status = status, ![q].results = results]
        /\ order' = OrderAfter(q, status)
        /\ case[q].status = "reconciliation_pending" /\ p # case[q].results[i].by
    BY <1>6 DEF reconcile_manual_result, MayReconcile
  <2>3. status \in {"action_pending", "reconciliation_pending", "completed",
                    "manual_intervention"}
    BY ProgressType
  <2>4. status = "completed" => Progress(case[q].need, results) = "completed"
    OBVIOUS
  <2>5. \A j \in DOMAIN results :
          results[j].recon # "none" => results[j].reconBy \notin {results[j].by, Nobody}
    <3>1. DOMAIN results = DOMAIN case[q].results
      BY <2>1
    <3>2. \A j \in DOMAIN results : j # i => results[j] = case[q].results[j]
      BY <2>1
    <3>3. case[q].results[i] \in ResultRow
      BY <2>1
    <3>4. results[i] = [[case[q].results[i] EXCEPT !.recon = o] EXCEPT !.reconBy = p]
      BY <2>1
    <3>5. results[i].reconBy = p /\ results[i].by = case[q].results[i].by
      BY <3>3, <3>4 DEF ResultRow
    <3> QED BY <1>1, <2>2, <3>1, <3>2, <3>5 DEF CaseInv, VouchedFor, AgencyAssumption
  <2> HIDE DEF results, status
  <2>6. /\ case'[q].status = status /\ case'[q].results = results
        /\ case'[q].reviewer = case[q].reviewer /\ case'[q].by = case[q].by
        /\ case'[q].need = case[q].need
        /\ \A r \in Quotes \ {q} : case'[r] = case[r] /\ order'[r] = order[r]
    BY <1>1, <2>2 DEF TypeOK, CaseRow, OrderAfter
  <2>7. order'[q].status = CASE status = "manual_intervention" -> "manual_intervention"
                             [] status = "completed" -> "cancelled"
                             [] OTHER -> "cancellation_pending"
    BY <1>1, <2>2 DEF TypeOK, CaseInv, FollowsCase, Moved, OrderAfter
  <2>8. CaseInv(q)'
    BY <1>1, <2>2, <2>3, <2>4, <2>5, <2>6, <2>7
    DEF CaseInv, FollowsCase, BoundToOrder, VouchedFor, Approved, OpenStatus, Buyer
  <2> QED BY <1>1, <2>6, <2>8, OtherOrders
<1>7. ASSUME NEW q \in Quotes, NEW p \in People, resume_cancellation(q, p) PROVE IInv'
  <2>1. /\ case'[q] = [case[q] EXCEPT !.status = "action_pending"]
        /\ \A r \in Quotes \ {q} : case'[r] = case[r] /\ order'[r] = order[r]
        /\ order'[q].status = "cancellation_pending" /\ case[q].status = "manual_intervention"
    BY <1>1, <1>7 DEF resume_cancellation, TypeOK, Moved
  <2>2. /\ case'[q].status = "action_pending" /\ case'[q].reviewer = case[q].reviewer
        /\ case'[q].by = case[q].by /\ case'[q].results = case[q].results
    BY <1>1, <2>1 DEF TypeOK, CaseRow
  <2>3. CaseInv(q)'
    BY <1>1, <2>1, <2>2
    DEF CaseInv, FollowsCase, BoundToOrder, VouchedFor, Approved, OpenStatus, Buyer
  <2> QED BY <1>1, <2>1, <2>3, OtherOrders
<1> QED
  BY <1>2, <1>3, <1>4, <1>5, <1>6, <1>7 DEF CasesNext

LEMMA InitIInv == ASSUME Init, AgencyAssumption PROVE IInv
<1>1. TypeOK
  BY InitType
<1>2. \A q \in Quotes : case[q] = NoCase
  BY DEF Init
<1>3. DOMAIN <<>> = {}
  OBVIOUS
<1>4. NoCase.status = "none" /\ NoCase.results = <<>>
  BY DEF NoCase
<1> QED
  BY <1>1, <1>2, <1>3, <1>4
  DEF IInv, CaseInv, FollowsCase, BoundToOrder, VouchedFor, Approved, OpenStatus

(* The invariant is inductive. *)
THEOREM CasesAndOrders == Spec => []IInv
<1>1. Init => IInv
  BY InitIInv, AgencyAssumption
<1>2. IInv /\ [Next]_vars => IInv'
  <2> SUFFICES ASSUME IInv, [Next]_vars PROVE IInv'
    OBVIOUS
  <2>1. CASE UNCHANGED vars
    BY <2>1 DEF vars, IInv, TypeOK, CaseInv, FollowsCase, BoundToOrder, Requestable,
                VouchedFor, Approved, Buyer
  <2> QED BY <2>1, OrdersKeepIInv, CasesKeepIInv, AgencyAssumption DEF Next
<1> QED BY <1>1, <1>2, PTL DEF Spec

-----------------------------------------------------------------------------
(* What follows from it *)

(* An approved case and its order move together. *)
THEOREM OrdersFollowTheirCases == Spec => []OrderFollowsCase
<1>1. IInv => OrderFollowsCase
  BY DEF IInv, CaseInv, OrderFollowsCase
<1> QED BY <1>1, CasesAndOrders, PTL

(* A case that has nothing left to do has a matched success for each action. *)
LEMMA NothingLeft ==
    ASSUME NEW results \in Seq(ResultRow), NEW need, NEW a \in need,
           Progress(need, results) = "completed"
    PROVE  /\ Succeeded(results, a)
           /\ Latest(results, a) \in DOMAIN results
           /\ results[Latest(results, a)].recon = "matched"
<1>1. ToDo(need, results) = {} /\ ToReconcile(need, results) = {}
  BY DEF Progress
<1>2. Succeeded(results, a)
  BY <1>1 DEF ToDo
<1>3. Latest(results, a) \in DOMAIN results
  BY <1>2, LatestExists DEF Succeeded, ResultsFor
<1>4. results[Latest(results, a)].recon \in Reconciled \union {"none"}
  <2>1. results[Latest(results, a)] \in ResultRow
    BY <1>3
  <2> QED BY <2>1 DEF ResultRow
<1>5. results[Latest(results, a)].recon \notin {"none", "mismatched", "unverifiable"}
  BY <1>1, <1>2 DEF ToDo, ToReconcile
<1> QED BY <1>2, <1>3, <1>4, <1>5 DEF Reconciled

(* Nobody completes a case alone: its review and the reconciliation of each of  *)
(* its results come from somebody else than the request and the result do.     *)
THEOREM CompletedCasesAreVerified == Spec => []CompletedIsVerified
<1>1. ASSUME IInv, NEW q \in Quotes, case[q].status = "completed", NEW a \in case[q].need
      PROVE  /\ Succeeded(case[q].results, a)
             /\ LET r == case[q].results[Latest(case[q].results, a)] IN
                   r.recon = "matched" /\ r.reconBy \notin {r.by, Nobody}
  <2>1. /\ case[q].results \in Seq(ResultRow)
        /\ Progress(case[q].need, case[q].results) = "completed"
    BY <1>1 DEF IInv, TypeOK, CaseRow, CaseInv, VouchedFor
  <2>2. /\ Succeeded(case[q].results, a)
        /\ Latest(case[q].results, a) \in DOMAIN case[q].results
        /\ case[q].results[Latest(case[q].results, a)].recon = "matched"
    BY <2>1, NothingLeft
  <2> QED BY <1>1, <2>2 DEF IInv, CaseInv, VouchedFor
<1>2. IInv => CompletedIsVerified
  BY <1>1 DEF IInv, CaseInv, VouchedFor, CompletedIsVerified
<1> QED BY <1>2, CasesAndOrders, PTL

-----------------------------------------------------------------------------
(* What the commands of Cancellation do to an order: nothing, or move it on     *)
(* from a status in which its cancellation may be requested.                   *)
CaseStep(q) ==
    \/ order'[q] = order[q]
    \/ /\ Requestable(order[q])
       /\ order'[q].status \in {"cancelled", "cancellation_pending", "manual_intervention"}

LEMMA CaseSteps ==
    ASSUME IInv, CasesNext
    PROVE  customer' = customer /\ quote' = quote /\ \A q \in Quotes : CaseStep(q)
<1>1. TypeOK /\ \A q \in Quotes : FollowsCase(q) /\ BoundToOrder(q)
  BY DEF IInv, CaseInv
<1>9. customer' = customer /\ quote' = quote
  <2>1. PICK r \in Quotes, p \in People :
          \/ request_cancellation(r, p)
          \/ reject_case(r, p) \/ approve_case(r, p)
          \/ \E a \in ActionTypes, o \in Outcome : record_manual_result(r, a, o, p)
          \/ \E i \in DOMAIN case[r].results, o \in Reconciled :
                reconcile_manual_result(r, i, o, p)
          \/ resume_cancellation(r, p)
    BY DEF CasesNext
  <2>2. CASE request_cancellation(r, p) \/ reject_case(r, p) \/ approve_case(r, p)
    BY <2>2 DEF request_cancellation, reject_case, approve_case
  <2>3. ASSUME NEW a \in ActionTypes, NEW o \in Outcome, record_manual_result(r, a, o, p)
        PROVE  customer' = customer /\ quote' = quote
    BY <2>3 DEF record_manual_result
  <2>4. ASSUME NEW i \in DOMAIN case[r].results, NEW o \in Reconciled,
               reconcile_manual_result(r, i, o, p)
        PROVE  customer' = customer /\ quote' = quote
    BY <2>4 DEF reconcile_manual_result
  <2>5. CASE resume_cancellation(r, p)
    BY <2>5 DEF resume_cancellation
  <2> QED BY <2>1, <2>2, <2>3, <2>4, <2>5
<1> SUFFICES ASSUME NEW q \in Quotes PROVE CaseStep(q)
  BY <1>9
<1>2. ASSUME NEW r \in Quotes, NEW s \in {"cancelled", "cancellation_pending", "manual_intervention"},
             Requestable(order[r]), order' = [order EXCEPT ![r] = Moved(@, s)]
      PROVE  CaseStep(q)
  BY <1>1, <1>2 DEF CaseStep, Moved, TypeOK
<1>3. ASSUME order' = order PROVE CaseStep(q)
  BY <1>3 DEF CaseStep
<1>4. ASSUME NEW r \in Quotes, NEW p \in People, request_cancellation(r, p) \/ reject_case(r, p)
      PROVE  CaseStep(q)
  BY <1>3, <1>4 DEF request_cancellation, reject_case
<1>5. ASSUME NEW r \in Quotes, NEW p \in People, approve_case(r, p)
      PROVE  CaseStep(q)
  <2>1. Requestable(order[r])
    BY <1>1, <1>5 DEF approve_case, MayReview, BoundToOrder
  <2> QED BY <1>2, <1>3, <1>5, <2>1 DEF approve_case, CompleteInternally, StartManualWork
<1>6. ASSUME NEW r \in Quotes, NEW p \in People, NEW a \in ActionTypes, NEW o \in Outcome,
             record_manual_result(r, a, o, p)
      PROVE  CaseStep(q)
  <2>1. Requestable(order[r])
    BY <1>1, <1>6 DEF record_manual_result, FollowsCase, Requestable
  <2>2. order' = order \/ order' = [order EXCEPT ![r] = Moved(@, "manual_intervention")]
    BY <1>6 DEF record_manual_result
  <2> QED BY <1>2, <1>3, <2>1, <2>2
<1>7. ASSUME NEW r \in Quotes, NEW p \in People, NEW i \in DOMAIN case[r].results,
             NEW o \in Reconciled, reconcile_manual_result(r, i, o, p)
      PROVE  CaseStep(q)
  <2>1. Requestable(order[r])
    BY <1>1, <1>7 DEF reconcile_manual_result, MayReconcile, FollowsCase, Requestable
  <2>2. \E s \in CaseStatus : order' = OrderAfter(r, s)
    <3> DEFINE results == [case[r].results EXCEPT ![i].recon = o, ![i].reconBy = p]
               status == IF o = "matched" THEN Progress(case[r].need, results)
                         ELSE "manual_intervention"
    <3>1. order' = OrderAfter(r, status)
      BY <1>7 DEF reconcile_manual_result
    <3>2. status \in CaseStatus
      BY ProgressType DEF CaseStatus, OpenStatus
    <3> QED BY <3>1, <3>2
  <2>3. \/ order' = order
        \/ order' = [order EXCEPT ![r] = Moved(@, "manual_intervention")]
        \/ order' = [order EXCEPT ![r] = Moved(@, "cancelled")]
    BY <2>2 DEF OrderAfter
  <2> QED BY <1>2, <1>3, <2>1, <2>2, <2>3
<1>8. ASSUME NEW r \in Quotes, NEW p \in People, resume_cancellation(r, p)
      PROVE  CaseStep(q)
  <2>1. Requestable(order[r])
    BY <1>1, <1>8 DEF resume_cancellation, FollowsCase, Requestable
  <2> QED BY <1>2, <1>8, <2>1 DEF resume_cancellation
<1> QED
  BY <1>4, <1>5, <1>6, <1>7, <1>8 DEF CasesNext

(* No decision, settlement, approval or result moves an order that has ended,   *)
(* however late it comes.                                                     *)
THEOREM EndedOrdersAreFinal == Spec => EndedOrdersStay
<1>1. ASSUME IInv, [Next]_vars, NEW q \in Quotes,
             order[q].status \in {"cancelled", "review_rejected"}
      PROVE  order'[q] = order[q]
  <2>1. TypeOK /\ ~Requestable(order[q])
    BY <1>1 DEF IInv, Requestable
  <2>2. CASE OrdersNext
    BY <1>1, <2>1, <2>2, OrderSteps DEF OrderStep
  <2>3. CASE CasesNext
    BY <1>1, <2>1, <2>3, CaseSteps DEF CaseStep
  <2>4. CASE UNCHANGED vars
    BY <2>4 DEF vars
  <2> QED BY <1>1, <2>2, <2>3, <2>4 DEF Next
<1>2. IInv /\ [Next]_vars => [\A q \in Quotes : order[q].status \in {"cancelled", "review_rejected"}
                                 => order'[q] = order[q]]_vars
  BY <1>1
<1> QED BY <1>2, CasesAndOrders, PTL DEF Spec, EndedOrdersStay

-----------------------------------------------------------------------------
(* The end of a relationship *)

(* What is left of the quote and the order of a relationship that has ended. *)
SettledRow(q) ==
    /\ quote[q].status \notin {"draft", "offered"}
    /\ quote[q].status = "accepted" => order[q] # NoOrder
    /\ order[q].status \notin {"draft", "approved", "processing", "failed"}

(* Settling leaves nothing to settle. *)
LEMMA SettlingSettles ==
    ASSUME TypeOK, NEW k \in Customers, SettleTransactions(k), NEW q \in Quotes,
           CustomerOf[q] = k
    PROVE  SettledRow(q)'
<1>1. order'[q] = Settled(order[q]) /\ order[q] \in OrderRow
  BY DEF SettleTransactions, TypeOK
<1>2. order'[q].status \notin {"draft", "approved", "processing", "failed"}
  BY <1>1 DEF Settled, Moved, OrderRow
<1>3. order[q] # NoOrder => order'[q] # NoOrder
  BY <1>1 DEF Settled, Moved, NoOrder, OrderRow
<1>4. quote'[q].status = IF QuoteToCancel(q) THEN "cancelled" ELSE quote[q].status
  BY DEF SettleTransactions, TypeOK, QuoteRow
<1> QED BY <1>2, <1>3, <1>4 DEF SettledRow, QuoteToCancel

(* Everything else that may happen while the customer is not active keeps it so. *)
LEMMA SettledStaysSettled ==
    ASSUME TypeOK, OrdersNext, NEW q \in Quotes, SettledRow(q),
           customer[CustomerOf[q]].status # "active"
    PROVE  SettledRow(q)'
<1> USE DEF TypeOK, SettledRow
<1>1. ASSUME NEW r \in Quotes, create_quote(r) PROVE SettledRow(q)'
  BY <1>1 DEF create_quote, MayTransact
<1>2. ASSUME NEW r \in Quotes, issue_quote(r) PROVE SettledRow(q)'
  BY <1>2 DEF issue_quote, MayTransact
<1>3. ASSUME NEW r \in Quotes, accept_quote(r) PROVE SettledRow(q)'
  BY <1>3 DEF accept_quote, MayTransact
<1>4. ASSUME NEW r \in Quotes, QuoteExpires(r) PROVE SettledRow(q)'
  BY <1>4 DEF QuoteExpires, QuoteRow
<1>5. ASSUME NEW r \in Quotes, create_order(r) PROVE SettledRow(q)'
  BY <1>5 DEF create_order, MayTransact
<1>6. ASSUME NEW r \in Quotes, submit_order(r) PROVE SettledRow(q)'
  BY <1>6 DEF submit_order, MayTransact
<1>7. ASSUME NEW r \in Quotes, NEW p \in People, approve_order(r, p) PROVE SettledRow(q)'
  BY <1>7 DEF approve_order, MayTransact
<1>8. ASSUME NEW r \in Quotes, NEW p \in People, reject_order(r, p) PROVE SettledRow(q)'
  BY <1>8 DEF reject_order, Moved, NoOrder
<1>9. ASSUME NEW r \in Quotes, NEW shown \in SUBSET ActionTypes, ledger_write(r, shown)
      PROVE  SettledRow(q)'
  BY <1>9 DEF ledger_write
<1>10. ASSUME NEW k \in Customers, activate_customer(k) \/ grant_consent(k)
       PROVE  SettledRow(q)'
  BY <1>10 DEF activate_customer, grant_consent
<1>11. ASSUME NEW k \in Customers, SettleTransactions(k) PROVE SettledRow(q)'
  <2>1. CASE CustomerOf[q] = k
    BY <1>11, <2>1, SettlingSettles
  <2>2. CASE CustomerOf[q] # k
    BY <1>11, <2>2 DEF SettleTransactions
  <2> QED BY <2>1, <2>2
<1>12. ASSUME NEW k \in Customers, deactivate_customer(k) \/ withdraw_consent(k)
       PROVE  SettledRow(q)'
  BY <1>11, <1>12 DEF deactivate_customer, withdraw_consent
<1> QED
  BY <1>1, <1>2, <1>3, <1>4, <1>5, <1>6, <1>7, <1>8, <1>9, <1>10, <1>12 DEF OrdersNext

(* A relationship ends only in a transaction that settles. *)
LEMMA EndingSettles ==
    ASSUME TypeOK, OrdersNext, NEW k \in Customers,
           customer[k].status # "inactive", customer'[k].status = "inactive"
    PROVE  SettleTransactions(k)
<1> USE DEF TypeOK, CustomerRow
<1>1. customer' # customer
  OBVIOUS
<1>2. ASSUME NEW l \in Customers, activate_customer(l) PROVE FALSE
  BY <1>2 DEF activate_customer
<1>3. ASSUME NEW l \in Customers, grant_consent(l) PROVE FALSE
  BY <1>3 DEF grant_consent
<1>4. ASSUME NEW l \in Customers, deactivate_customer(l) PROVE SettleTransactions(k)
  BY <1>4 DEF deactivate_customer
<1>5. ASSUME NEW l \in Customers, withdraw_consent(l) PROVE SettleTransactions(k)
  BY <1>5 DEF withdraw_consent
<1>6. ASSUME NEW r \in Quotes, create_quote(r) \/ issue_quote(r) \/ accept_quote(r) \/ QuoteExpires(r)
      PROVE  FALSE
  BY <1>1, <1>6 DEF create_quote, issue_quote, accept_quote, QuoteExpires
<1>7. ASSUME NEW r \in Quotes, create_order(r) \/ submit_order(r) PROVE FALSE
  BY <1>1, <1>7 DEF create_order, submit_order
<1>8. ASSUME NEW r \in Quotes, NEW p \in People, approve_order(r, p) \/ reject_order(r, p)
      PROVE  FALSE
  BY <1>1, <1>8 DEF approve_order, reject_order
<1>9. ASSUME NEW r \in Quotes, NEW shown \in SUBSET ActionTypes, ledger_write(r, shown)
      PROVE  FALSE
  BY <1>1, <1>9 DEF ledger_write
<1> QED
  BY <1>2, <1>3, <1>4, <1>5, <1>6, <1>7, <1>8, <1>9 DEF OrdersNext

(* While a relationship is over nothing of it can be sold or executed unnoticed. *)
THEOREM EndedRelationshipsAreSettled == Spec => []InactiveIsSettled
<1> DEFINE Inv == \A q \in Quotes : customer[CustomerOf[q]].status = "inactive" => SettledRow(q)
<1>1. Inv <=> InactiveIsSettled
  BY DEF InactiveIsSettled, SettledRow
<1>2. Init => Inv
  <2> SUFFICES ASSUME Init, NEW q \in Quotes
               PROVE  customer[CustomerOf[q]].status # "inactive"
    OBVIOUS
  <2>1. CustomerOf[q] \in Customers
    BY AgencyAssumption
  <2> QED BY <2>1 DEF Init
<1>3. IInv /\ Inv /\ [Next]_vars => Inv'
  <2> SUFFICES ASSUME IInv, Inv, [Next]_vars, NEW q \in Quotes,
                      customer'[CustomerOf[q]].status = "inactive"
               PROVE  SettledRow(q)'
    OBVIOUS
  <2>1. TypeOK /\ CustomerOf[q] \in Customers
    BY AgencyAssumption DEF IInv
  <2>2. CASE OrdersNext
    <3>1. CASE customer[CustomerOf[q]].status = "inactive"
      BY <2>1, <2>2, <3>1, SettledStaysSettled
    <3>2. CASE customer[CustomerOf[q]].status # "inactive"
      BY <2>1, <2>2, <3>2, EndingSettles, SettlingSettles
    <3> QED BY <3>1, <3>2
  <2>3. CASE CasesNext
    <3>1. SettledRow(q) /\ quote' = quote /\ CaseStep(q)
      BY <2>3, CaseSteps
    <3>2. order'[q] # NoOrder \/ order'[q] = order[q]
      BY <3>1 DEF CaseStep, NoOrder
    <3> QED BY <3>1, <3>2 DEF CaseStep, SettledRow
  <2>4. CASE UNCHANGED vars
    BY <2>4 DEF vars, SettledRow
  <2> QED BY <2>2, <2>3, <2>4 DEF Next
<1> HIDE DEF Inv
<1> QED BY <1>1, <1>2, <1>3, CasesAndOrders, PTL DEF Spec

-----------------------------------------------------------------------------
(* The review of an order whose customer has gone *)

LEMMA ReviewUnderOrders ==
    ASSUME TypeOK, OrdersNext, NEW q \in Quotes, CustomerOf[q] \in Customers,
           order[q].status = "pending_review", customer[CustomerOf[q]].status # "active"
    PROVE  \/ order'[q].status = "review_rejected"
           \/ order'[q].status = "pending_review" /\ customer'[CustomerOf[q]].status # "active"
<1> USE DEF TypeOK, CustomerRow
<1>1. ASSUME NEW r \in Quotes, create_quote(r) \/ issue_quote(r) \/ accept_quote(r) \/ QuoteExpires(r)
      PROVE  order' = order /\ customer' = customer
  BY <1>1 DEF create_quote, issue_quote, accept_quote, QuoteExpires
<1>2. ASSUME NEW r \in Quotes, create_order(r)
      PROVE  order'[q] = order[q] /\ customer' = customer
  BY <1>2 DEF create_order, NoOrder
<1>3. ASSUME NEW r \in Quotes, submit_order(r)
      PROVE  order'[q] = order[q] /\ customer' = customer
  BY <1>3 DEF submit_order
<1>4. ASSUME NEW r \in Quotes, NEW p \in People, approve_order(r, p)
      PROVE  order'[q] = order[q] /\ customer' = customer
  BY <1>4 DEF approve_order, MayTransact
<1>5. ASSUME NEW r \in Quotes, NEW p \in People, reject_order(r, p)
      PROVE  /\ order'[q].status = "review_rejected" \/ order'[q] = order[q]
             /\ customer' = customer
  BY <1>5 DEF reject_order, Moved
<1>6. ASSUME NEW r \in Quotes, NEW shown \in SUBSET ActionTypes, ledger_write(r, shown)
      PROVE  order' = order /\ customer' = customer
  BY <1>6 DEF ledger_write
<1>7. ASSUME NEW k \in Customers, activate_customer(k) \/ grant_consent(k)
      PROVE  order' = order /\ customer'[CustomerOf[q]].status # "active"
  BY <1>7 DEF activate_customer, grant_consent
<1>8. ASSUME NEW k \in Customers, SettleTransactions(k) PROVE order'[q] = order[q]
  BY <1>8 DEF SettleTransactions, Settled
<1>9. ASSUME NEW k \in Customers, deactivate_customer(k)
      PROVE  order'[q] = order[q] /\ customer'[CustomerOf[q]].status # "active"
  BY <1>8, <1>9 DEF deactivate_customer
<1>10. ASSUME NEW k \in Customers, withdraw_consent(k)
       PROVE  order'[q] = order[q] /\ customer'[CustomerOf[q]].status # "active"
  BY <1>8, <1>10 DEF withdraw_consent
<1> QED
  BY <1>1, <1>2, <1>3, <1>4, <1>5, <1>6, <1>7, <1>9, <1>10 DEF OrdersNext

(* Once its customer's relationship has ended, an order under review can only be *)
(* rejected, and the customer does not come back before it is.                 *)
THEOREM ReviewsDieWithRelationships == Spec => ReviewDiesWithRelationship
<1>1. ASSUME IInv, [Next]_vars, NEW q \in Quotes,
             order[q].status = "pending_review", customer[CustomerOf[q]].status # "active"
      PROVE  \/ order'[q].status = "review_rejected"
             \/ order'[q].status = "pending_review" /\ customer'[CustomerOf[q]].status # "active"
  <2>1. TypeOK /\ CustomerOf[q] \in Customers /\ ~Requestable(order[q])
    BY <1>1, AgencyAssumption DEF IInv, Requestable
  <2>2. CASE OrdersNext
    BY <1>1, <2>1, <2>2, ReviewUnderOrders
  <2>3. CASE CasesNext
    BY <1>1, <2>1, <2>3, CaseSteps DEF CaseStep
  <2>4. CASE UNCHANGED vars
    BY <1>1, <2>4 DEF vars
  <2> QED BY <1>1, <2>2, <2>3, <2>4 DEF Next
<1>2. IInv /\ [Next]_vars =>
        [\A q \in Quotes :
           order[q].status = "pending_review" /\ customer[CustomerOf[q]].status # "active" =>
              \/ order'[q].status = "review_rejected"
              \/ order'[q].status = "pending_review" /\ customer'[CustomerOf[q]].status # "active"]_vars
  BY <1>1
<1> QED BY <1>2, CasesAndOrders, PTL DEF Spec, ReviewDiesWithRelationship

--------------------------------------------------------------------------
(* What the results of a case say *)

(* A successful result is followed by another of its kind only when contradicted. *)
Contradicted(results) ==
    \A i, j \in DOMAIN results :
        i < j /\ results[i].action = results[j].action /\ results[i].outcome = "succeeded"
          => results[i].recon \in {"mismatched", "unverifiable"}

(* The results of a case are those of its actions, begin with its approval, and   *)
(* say what its status says.                                                    *)
ResultsInv(q) ==
    /\ case[q].status = "approval_pending" => case[q].results = <<>>
    /\ \A i \in DOMAIN case[q].results : case[q].results[i].action \in case[q].need
    /\ Contradicted(case[q].results)
    /\ Approved(q) \/ case[q].status = "completed"
         => Progress(case[q].need, case[q].results) =
              (IF case[q].status = "manual_intervention" THEN "action_pending"
               ELSE case[q].status)

(* Nothing has been done about a case without results. *)
LEMMA NothingDone ==
    ASSUME NEW need, need # {}
    PROVE  Progress(need, <<>>) = "action_pending"
<1>1. \A a : ~Succeeded(<<>>, a)
  BY DEF Succeeded, ResultsFor
<1>2. ToDo(need, <<>>) = need
  BY <1>1 DEF ToDo
<1> QED BY <1>2 DEF Progress

(* What is to be done again keeps the case at work. *)
LEMMA FailureIsToDo ==
    ASSUME NEW results \in Seq(ResultRow), NEW need, NEW a \in need,
           ResultsFor(results, a) # {},
           \/ results[Latest(results, a)].outcome # "succeeded"
           \/ results[Latest(results, a)].recon \in {"mismatched", "unverifiable"}
    PROVE  Progress(need, results) = "action_pending"
<1>1. a \in ToDo(need, results)
  BY DEF ToDo, Succeeded
<1> QED BY <1>1 DEF Progress

(* Appending leaves the rows before as they are. *)
LEMMA AppendedRows ==
    ASSUME NEW S, NEW old \in Seq(S), NEW row \in S
    PROVE  \A i \in DOMAIN Append(old, row) :
              Append(old, row)[i] = row \/ (i \in DOMAIN old /\ Append(old, row)[i] = old[i])
<1> DEFINE after == Append(old, row)
<1>1. /\ DOMAIN after = 1 .. Len(old) + 1 /\ DOMAIN old = 1 .. Len(old) /\ Len(old) \in Nat
      /\ after[Len(old) + 1] = row
      /\ \A i \in 1 .. Len(old) : after[i] = old[i]
  BY AppendProperties
<1> HIDE DEF after
<1>2. \A i \in 1 .. Len(old) + 1 : i \in 1 .. Len(old) \/ i = Len(old) + 1
  <2>1. Len(old) \in Nat
    OBVIOUS
  <2> QED BY <2>1
<1>3. \A i \in DOMAIN after : after[i] = row \/ (i \in DOMAIN old /\ after[i] = old[i])
  BY <1>1, <1>2
<1> QED BY <1>3 DEF after

(* A new result: the ones before it of its kind that succeeded were contradicted. *)
LEMMA RecordingContradicts ==
    ASSUME NEW results \in Seq(ResultRow), NEW row \in ResultRow, Contradicted(results),
           ~AlreadySucceeded(results, row.action)
    PROVE  Contradicted(Append(results, row))
<1> DEFINE after == Append(results, row)
           n == Len(results) + 1
<1>1. /\ DOMAIN after = 1..n /\ DOMAIN results = 1..Len(results) /\ Len(results) \in Nat
      /\ after[n] = row /\ \A i \in DOMAIN results : i < n /\ after[i] = results[i]
      /\ \A i \in DOMAIN after : i \in DOMAIN results \/ i = n
  BY AppendProperties
<1> HIDE DEF after
<1> SUFFICES ASSUME NEW i \in DOMAIN after, NEW j \in DOMAIN after, i < j,
                    after[i].action = after[j].action, after[i].outcome = "succeeded"
             PROVE  after[i].recon \in {"mismatched", "unverifiable"}
  BY DEF after, Contradicted
<1>2. i \in DOMAIN results /\ after[i] = results[i]
  BY <1>1
<1>3. CASE j \in DOMAIN results
  BY <1>1, <1>2, <1>3 DEF Contradicted
<1>4. CASE j = n
  <2> DEFINE a == row.action
             last == Latest(results, a)
  <2>1. i \in ResultsFor(results, a)
    BY <1>1, <1>2, <1>4 DEF ResultsFor
  <2>2. last \in ResultsFor(results, a) /\ i <= last
    BY <2>1, LatestExists
  <2>3. CASE i = last
    <3>1. results[i].recon \notin {"none", "matched"}
      BY <1>2, <2>1, <2>3 DEF AlreadySucceeded, Succeeded
    <3>2. results[i].recon \in Reconciled \union {"none"}
      <4>1. results[i] \in ResultRow
        BY <1>2
      <4> QED BY <4>1 DEF ResultRow
    <3> QED BY <1>2, <3>1, <3>2 DEF Reconciled
  <2>4. CASE i # last
    <3>1. last \in DOMAIN results /\ results[last].action = a /\ results[i].action = a /\ i < last
      BY <1>1, <2>1, <2>2, <2>4 DEF ResultsFor
    <3> QED BY <1>2, <3>1 DEF Contradicted
  <2> QED BY <2>3, <2>4
<1> QED BY <1>1, <1>3, <1>4

WithReconciliation(results, i, outcome, p) ==
    [results EXCEPT ![i].recon = outcome, ![i].reconBy = p]

(* A reconciliation of the latest result of its kind *)
LEMMA ReconcilingKeeps ==
    ASSUME NEW results \in Seq(ResultRow), NEW i \in DOMAIN results, NEW outcome \in Reconciled,
           NEW p \in People, Contradicted(results), i = Latest(results, results[i].action),
           NEW after, after = WithReconciliation(results, i, outcome, p)
    PROVE  /\ Contradicted(after)
           /\ DOMAIN after = DOMAIN results
           /\ \A j \in DOMAIN results : after[j].action = results[j].action
           /\ after[i].recon = outcome
           /\ i = Latest(after, results[i].action) /\ ResultsFor(after, results[i].action) # {}
<1> DEFINE a == results[i].action
<1> USE DEF WithReconciliation
<1>1. DOMAIN after = DOMAIN results /\ DOMAIN results \subseteq Nat
  OBVIOUS
<1>2. results[i] \in ResultRow
  OBVIOUS
<1>3. after[i] = [[results[i] EXCEPT !.recon = outcome] EXCEPT !.reconBy = p]
  OBVIOUS
<1>4. /\ after[i].recon = outcome /\ after[i].action = results[i].action
      /\ after[i].outcome = results[i].outcome
  BY <1>2, <1>3 DEF ResultRow
<1>5. \A j \in DOMAIN results : j # i => after[j] = results[j]
  OBVIOUS
<1>6. \A j \in DOMAIN results : after[j].action = results[j].action /\ after[j].outcome = results[j].outcome
  BY <1>4, <1>5
<1>7. ResultsFor(after, a) = ResultsFor(results, a)
  BY <1>1, <1>6 DEF ResultsFor
<1>8. i = Latest(after, a)
  BY <1>7 DEF Latest
<1>9. i \in ResultsFor(results, a) /\ \A j \in ResultsFor(results, a) : j <= i
  <2>1. i \in ResultsFor(results, a)
    BY DEF ResultsFor
  <2> QED BY <2>1, LatestExists
<1>10. Contradicted(after)
  <2> SUFFICES ASSUME NEW j \in DOMAIN results, NEW k \in DOMAIN results, j < k,
                      after[j].action = after[k].action, after[j].outcome = "succeeded"
               PROVE  after[j].recon \in {"mismatched", "unverifiable"}
    BY <1>1 DEF Contradicted
  <2>1. j # i
    <3> SUFFICES ASSUME j = i PROVE FALSE
      OBVIOUS
    <3>1. k \in ResultsFor(results, a)
      BY <1>6 DEF ResultsFor
    <3>2. k <= i /\ i < k /\ i \in Nat /\ k \in Nat
      BY <1>1, <1>9, <3>1
    <3> QED BY <3>2
  <2> QED BY <1>5, <1>6, <2>1 DEF Contradicted
<1>11. ResultsFor(after, a) # {}
  BY <1>7, <1>9
<1> QED BY <1>1, <1>4, <1>6, <1>8, <1>10, <1>11

(* A command about one case leaves the results of the others alone. *)
LEMMA OtherResults ==
    ASSUME \A r \in Quotes : ResultsInv(r), NEW q \in Quotes, ResultsInv(q)',
           \A r \in Quotes \ {q} : case'[r] = case[r]
    PROVE  \A r \in Quotes : ResultsInv(r)'
BY DEF ResultsInv, Approved

LEMMA CasesKeepResults ==
    ASSUME TypeOK, AgencyAssumption, \A r \in Quotes : ResultsInv(r), CasesNext
    PROVE  \A r \in Quotes : ResultsInv(r)'
<1>1. /\ DOMAIN case = Quotes /\ \A q \in Quotes : case[q] \in CaseRow
      /\ \A q \in Quotes : case[q].results \in Seq(ResultRow) /\ case[q].need \subseteq ActionTypes
  BY DEF TypeOK, CaseRow
<1>2. ASSUME NEW q \in Quotes, NEW p \in People, request_cancellation(q, p)
      PROVE  \A r \in Quotes : ResultsInv(r)'
  <2> DEFINE new == [NoCase EXCEPT !.status = "approval_pending", !.orderRev = order[q].rev,
                                   !.need = RequiredActions(q), !.by = p]
  <2>1. new.status = "approval_pending" /\ new.results = <<>>
    BY DEF NoCase
  <2>2. case' = [case EXCEPT ![q] = new]
    BY <1>2 DEF request_cancellation
  <2> HIDE DEF new
  <2>3. case'[q] = new /\ \A r \in Quotes \ {q} : case'[r] = case[r]
    BY <1>1, <2>2
  <2>4. ResultsInv(q)'
    BY <2>1, <2>3 DEF ResultsInv, Contradicted, Approved, OpenStatus
  <2> QED BY <2>3, <2>4, OtherResults
<1>3. ASSUME NEW q \in Quotes, NEW p \in People, NEW s \in {"rejected", "action_pending", "completed"},
             Reviewed(q, p, s),
             s = "rejected" \/ case[q].results = <<>>,
             s = "action_pending" => case[q].need # {},
             s = "completed" => case[q].need = {}
      PROVE  \A r \in Quotes : ResultsInv(r)'
  <2>1. /\ case'[q].status = s /\ case'[q].results = case[q].results /\ case'[q].need = case[q].need
        /\ \A r \in Quotes \ {q} : case'[r] = case[r]
    BY <1>1, <1>3 DEF Reviewed, CaseRow
  <2>2. s = "action_pending" => Progress(case[q].need, case[q].results) = "action_pending"
    BY <1>3, NothingDone
  <2>3. s = "completed" => Progress(case[q].need, case[q].results) = "completed"
    BY <1>3 DEF Progress, ToDo, ToReconcile
  <2>4. ResultsInv(q)'
    BY <1>3, <2>1, <2>2, <2>3 DEF ResultsInv, Approved, OpenStatus
  <2> QED BY <2>1, <2>4, OtherResults
<1>4. ASSUME NEW q \in Quotes, NEW p \in People, reject_case(q, p)
      PROVE  \A r \in Quotes : ResultsInv(r)'
  BY <1>3, <1>4 DEF reject_case
<1>5. ASSUME NEW q \in Quotes, NEW p \in People, approve_case(q, p)
      PROVE  \A r \in Quotes : ResultsInv(r)'
  <2>1. case[q].results = <<>>
    BY <1>5 DEF approve_case, MayReview, ResultsInv
  <2> QED BY <1>3, <1>5, <2>1 DEF approve_case, CompleteInternally, StartManualWork
<1>6. ASSUME NEW q \in Quotes, NEW p \in People, NEW a \in ActionTypes, NEW o \in Outcome,
             record_manual_result(q, a, o, p)
      PROVE  \A r \in Quotes : ResultsInv(r)'
  <2> DEFINE row == [action |-> a, outcome |-> o, by |-> p, recon |-> "none", reconBy |-> Nobody]
             old == case[q].results
             results == Append(old, row)
             status == IF o = "succeeded" THEN Progress(case[q].need, results)
                       ELSE "manual_intervention"
  <2>1. row \in ResultRow /\ old \in Seq(ResultRow) /\ row.action = a /\ row.outcome = o
    BY <1>1 DEF ResultRow
  <2>2. /\ case' = [case EXCEPT ![q].status = status, ![q].results = results]
        /\ a \in case[q].need /\ ~AlreadySucceeded(old, a)
    BY <1>6 DEF record_manual_result
  <2>3. Contradicted(results)
    <3>1. Contradicted(old)
      BY DEF ResultsInv
    <3> HIDE DEF row, old
    <3> QED BY <2>1, <2>2, <3>1, RecordingContradicts
  <2>4. \A i \in DOMAIN results : results[i].action \in case[q].need
    <3>1. \A i \in DOMAIN results : results[i] = row \/ (i \in DOMAIN old /\ results[i] = old[i])
      <4> HIDE DEF row, old
      <4> QED BY <2>1, AppendedRows
    <3> HIDE DEF row, results
    <3> QED BY <2>1, <2>2, <3>1 DEF ResultsInv
  <2>5. o # "succeeded" => Progress(case[q].need, results) = "action_pending"
    <3>1. results \in Seq(ResultRow) /\ results[Latest(results, a)] = row /\ ResultsFor(results, a) # {}
      <4> HIDE DEF row, old
      <4> QED BY <2>1, LatestAfterAppend, AppendProperties
    <3> HIDE DEF row, results
    <3> QED BY <2>1, <2>2, <3>1, FailureIsToDo
  <2>6. status \in {"action_pending", "reconciliation_pending", "completed", "manual_intervention"}
        /\ (status = "manual_intervention" => o # "succeeded")
        /\ (status # "manual_intervention" => status = Progress(case[q].need, results))
    BY ProgressType
  <2> HIDE DEF results, status
  <2>7. /\ case'[q].status = status /\ case'[q].results = results /\ case'[q].need = case[q].need
        /\ \A r \in Quotes \ {q} : case'[r] = case[r]
    BY <1>1, <2>2 DEF CaseRow
  <2>8. ResultsInv(q)'
    BY <2>3, <2>4, <2>5, <2>6, <2>7 DEF ResultsInv
  <2> QED BY <2>7, <2>8, OtherResults
<1>7. ASSUME NEW q \in Quotes, NEW p \in People, NEW i \in DOMAIN case[q].results,
             NEW o \in Reconciled, reconcile_manual_result(q, i, o, p)
      PROVE  \A r \in Quotes : ResultsInv(r)'
  <2> DEFINE old == case[q].results
             results == [old EXCEPT ![i].recon = o, ![i].reconBy = p]
             status == IF o = "matched" THEN Progress(case[q].need, results)
                       ELSE "manual_intervention"
             a == old[i].action
  <2>1. /\ case' = [case EXCEPT ![q].status = status, ![q].results = results]
        /\ i = Latest(old, a)
    BY <1>7 DEF reconcile_manual_result, MayReconcile
  <2>2. /\ old \in Seq(ResultRow) /\ Contradicted(old) /\ a \in case[q].need
        /\ \A j \in DOMAIN old : old[j].action \in case[q].need
    BY <1>1 DEF ResultsInv
  <2>3. results \in Seq(ResultRow)
    BY <2>2, ReconciledType
  <2>4. /\ Contradicted(results) /\ DOMAIN results = DOMAIN old
        /\ \A j \in DOMAIN old : results[j].action = old[j].action
        /\ results[i].recon = o
        /\ i = Latest(results, a) /\ ResultsFor(results, a) # {}
    <3>1. i \in DOMAIN old /\ i = Latest(old, old[i].action)
      BY <2>1
    <3>2. results = WithReconciliation(old, i, o, p)
      BY DEF WithReconciliation
    <3> HIDE DEF old, results
    <3> QED BY <2>2, <3>1, <3>2, ReconcilingKeeps
  <2>5. o # "matched" => Progress(case[q].need, results) = "action_pending"
    <3> HIDE DEF results
    <3> QED BY <2>2, <2>3, <2>4, FailureIsToDo DEF Reconciled
  <2>6. status \in {"action_pending", "reconciliation_pending", "completed", "manual_intervention"}
        /\ (status = "manual_intervention" => o # "matched")
        /\ (status # "manual_intervention" => status = Progress(case[q].need, results))
    BY ProgressType
  <2> HIDE DEF results, status, a
  <2>7. /\ case'[q].status = status /\ case'[q].results = results /\ case'[q].need = case[q].need
        /\ \A r \in Quotes \ {q} : case'[r] = case[r]
    BY <1>1, <2>1 DEF CaseRow
  <2>8. ResultsInv(q)'
    BY <2>2, <2>4, <2>5, <2>6, <2>7 DEF ResultsInv
  <2> QED BY <2>7, <2>8, OtherResults
<1>8. ASSUME NEW q \in Quotes, NEW p \in People, resume_cancellation(q, p)
      PROVE  \A r \in Quotes : ResultsInv(r)'
  <2>1. /\ case' = [case EXCEPT ![q].status = "action_pending"]
        /\ Progress(case[q].need, case[q].results) = "action_pending"
    BY <1>8 DEF resume_cancellation
  <2>2. /\ case'[q].status = "action_pending" /\ case'[q].results = case[q].results
        /\ case'[q].need = case[q].need
        /\ \A r \in Quotes \ {q} : case'[r] = case[r]
    BY <1>1, <2>1 DEF CaseRow
  <2>3. ResultsInv(q)'
    BY <2>1, <2>2 DEF ResultsInv
  <2> QED BY <2>2, <2>3, OtherResults
<1> QED BY <1>2, <1>4, <1>5, <1>6, <1>7, <1>8 DEF CasesNext

(* The results of every case say what has been done about it. *)
THEOREM ResultsAreKept == Spec => [](\A q \in Quotes : ResultsInv(q))
<1> DEFINE Inv == \A q \in Quotes : ResultsInv(q)
<1>1. Init => Inv
  <2> SUFFICES ASSUME Init, NEW q \in Quotes PROVE ResultsInv(q)
    OBVIOUS
  <2>1. case[q].status = "none" /\ case[q].results = <<>>
    BY DEF Init, NoCase
  <2> QED BY <2>1 DEF ResultsInv, Contradicted, Approved, OpenStatus
<1>2. TypeOK /\ Inv /\ [Next]_vars => Inv'
  <2> SUFFICES ASSUME TypeOK, Inv, [Next]_vars PROVE Inv'
    OBVIOUS
  <2>1. CASE OrdersNext
    <3>1. case' = case
      BY <2>1, OrderSteps
    <3> QED BY <3>1 DEF ResultsInv, Approved
  <2>2. CASE CasesNext
    BY <2>2, CasesKeepResults, AgencyAssumption
  <2>3. CASE UNCHANGED vars
    BY <2>3 DEF vars, ResultsInv, Approved
  <2> QED BY <2>1, <2>2, <2>3 DEF Next
<1> HIDE DEF Inv
<1>3. Spec => []Inv
  BY <1>1, <1>2, TypeCorrect, PTL DEF Spec
<1> QED BY <1>3 DEF Inv

(* Whatever is recorded and reconciled in which order, the status of a case says    *)
(* what is left to be done (cancellation_service.py, _progress).                  *)
THEOREM StatusTellsProgress == Spec => []StatusIsProgress
<1>1. (\A q \in Quotes : ResultsInv(q)) => StatusIsProgress
  BY DEF ResultsInv, StatusIsProgress
<1> QED BY <1>1, ResultsAreKept, PTL

(* However many results a case has, no success is repeated that stands.            *)
THEOREM SuccessIsNotRepeated == Spec => []NoSecondSuccess
<1>1. (\A q \in Quotes : ResultsInv(q)) => NoSecondSuccess
  BY DEF ResultsInv, Contradicted, NoSecondSuccess
<1> QED BY <1>1, ResultsAreKept, PTL

-----------------------------------------------------------------------------
(* An order under review *)

ReviewBound(q) ==
    order[q].status = "pending_review" =>
        /\ review[q].status = "pending" /\ review[q].orderRev = order[q].rev
        /\ ApproverBeside({Buyer(q)}) /\ ~HasOpenCase(q)

LEMMA OrdersKeepReviews ==
    ASSUME TypeOK, OrdersNext, NEW q \in Quotes, ReviewBound(q)
    PROVE  ReviewBound(q)'
<1> USE DEF TypeOK, ReviewBound, ApproverBeside, HasOpenCase, Buyer
<1>0. /\ order[q] \in OrderRow /\ DOMAIN order = Quotes /\ DOMAIN review = Quotes
      /\ review[q] \in ReviewRow
  OBVIOUS
<1>1. ASSUME NEW r \in Quotes, create_quote(r) \/ issue_quote(r) \/ accept_quote(r) \/ QuoteExpires(r)
      PROVE  ReviewBound(q)'
  BY <1>1 DEF create_quote, issue_quote, accept_quote, QuoteExpires
<1>2. ASSUME NEW r \in Quotes, create_order(r) PROVE ReviewBound(q)'
  BY <1>2 DEF create_order
<1>3. ASSUME NEW r \in Quotes, submit_order(r) PROVE ReviewBound(q)'
  <2>1. /\ review' = [review EXCEPT ![r] = [status |-> "pending", orderRev |-> order'[r].rev]]
        /\ order' = [order EXCEPT ![r] = Moved(@, "pending_review")] /\ case' = case
        /\ ApproverBeside({Buyer(r)}) /\ ~HasOpenCase(r)
    BY <1>3 DEF submit_order
  <2>2. CASE r = q
    BY <1>0, <2>1, <2>2
  <2>3. CASE r # q
    BY <1>0, <2>1, <2>3
  <2> QED BY <2>2, <2>3
<1>4. ASSUME NEW r \in Quotes, NEW p \in People, approve_order(r, p) PROVE ReviewBound(q)'
  <2>1. CASE r = q
    BY <1>0, <1>4, <2>1 DEF approve_order, Moved
  <2>2. CASE r # q
    BY <1>0, <1>4, <2>2 DEF approve_order
  <2> QED BY <2>1, <2>2
<1>5. ASSUME NEW r \in Quotes, NEW p \in People, reject_order(r, p) PROVE ReviewBound(q)'
  <2>1. CASE r = q
    BY <1>0, <1>5, <2>1 DEF reject_order, Moved
  <2>2. CASE r # q
    BY <1>0, <1>5, <2>2 DEF reject_order
  <2> QED BY <2>1, <2>2
<1>6. ASSUME NEW r \in Quotes, NEW shown \in SUBSET ActionTypes, ledger_write(r, shown)
      PROVE  ReviewBound(q)'
  BY <1>6 DEF ledger_write
<1>7. ASSUME NEW k \in Customers, activate_customer(k) \/ grant_consent(k) PROVE ReviewBound(q)'
  BY <1>7 DEF activate_customer, grant_consent
<1>8. ASSUME NEW k \in Customers, SettleTransactions(k), UNCHANGED <<review, case>>
      PROVE  ReviewBound(q)'
  <2>1. order'[q] = Settled(order[q]) \/ order'[q] = order[q]
    BY <1>8 DEF SettleTransactions
  <2>2. order'[q] = order[q] \/ order'[q].status # "pending_review"
    BY <1>0, <2>1, SettledStep
  <2> QED BY <1>8, <2>2
<1>9. ASSUME NEW k \in Customers, deactivate_customer(k) \/ withdraw_consent(k) PROVE ReviewBound(q)'
  BY <1>8, <1>9 DEF deactivate_customer, withdraw_consent
<1> QED BY <1>1, <1>2, <1>3, <1>4, <1>5, <1>6, <1>7, <1>9 DEF OrdersNext

(* No case is opened for an order under review, and none is under way that moves it. *)
LEMMA CasesKeepReviews ==
    ASSUME IInv, CasesNext, NEW q \in Quotes, ReviewBound(q)
    PROVE  ReviewBound(q)'
<1>1. CaseStep(q) /\ TypeOK
  BY CaseSteps DEF IInv
<1>2. SUFFICES ASSUME order[q].status = "pending_review", order'[q] = order[q]
               PROVE  review' = review /\ case'[q] = case[q]
  BY <1>1 DEF ReviewBound, CaseStep, HasOpenCase, ApproverBeside, Buyer
<1>3. ~HasOpenCase(q) /\ ~Requestable(order[q])
  BY <1>2 DEF ReviewBound, Requestable
<1>4. case[q].status \notin OpenStatus /\ DOMAIN case = Quotes
  BY <1>1, <1>3 DEF HasOpenCase, TypeOK
<1> USE DEF OpenStatus
<1>5. ASSUME NEW r \in Quotes, NEW p \in People, request_cancellation(r, p)
      PROVE  review' = review /\ case'[q] = case[q]
  BY <1>3, <1>4, <1>5 DEF request_cancellation
<1>6. ASSUME NEW r \in Quotes, NEW p \in People, reject_case(r, p) \/ approve_case(r, p)
      PROVE  review' = review /\ case'[q] = case[q]
  BY <1>4, <1>6 DEF reject_case, approve_case, MayReview, Reviewed, CompleteInternally, StartManualWork
<1>7. ASSUME NEW r \in Quotes, NEW p \in People, NEW a \in ActionTypes, NEW o \in Outcome,
             record_manual_result(r, a, o, p)
      PROVE  review' = review /\ case'[q] = case[q]
  BY <1>4, <1>7 DEF record_manual_result
<1>8. ASSUME NEW r \in Quotes, NEW p \in People, NEW i \in DOMAIN case[r].results,
             NEW o \in Reconciled, reconcile_manual_result(r, i, o, p)
      PROVE  review' = review /\ case'[q] = case[q]
  BY <1>4, <1>8 DEF reconcile_manual_result, MayReconcile
<1>9. ASSUME NEW r \in Quotes, NEW p \in People, resume_cancellation(r, p)
      PROVE  review' = review /\ case'[q] = case[q]
  BY <1>4, <1>9 DEF resume_cancellation
<1> QED BY <1>5, <1>6, <1>7, <1>8, <1>9 DEF CasesNext

(* The review of an order under review is that of its revision.                   *)
LEMMA ReviewsAreBound == Spec => [](\A q \in Quotes : ReviewBound(q))
<1> DEFINE Inv == \A q \in Quotes : ReviewBound(q)
<1>1. Init => Inv
  BY DEF Init, ReviewBound, OldRow, NoOrder, OldStatus
<1>2. IInv /\ Inv /\ [Next]_vars => Inv'
  <2> SUFFICES ASSUME IInv, Inv, [Next]_vars, NEW q \in Quotes PROVE ReviewBound(q)'
    OBVIOUS
  <2>1. CASE OrdersNext
    BY <2>1, OrdersKeepReviews DEF IInv
  <2>2. CASE CasesNext
    BY <2>2, CasesKeepReviews
  <2>3. CASE UNCHANGED vars
    BY <2>3 DEF vars, ReviewBound, ApproverBeside, HasOpenCase, Buyer
  <2> QED BY <2>1, <2>2, <2>3 DEF Next
<1> HIDE DEF Inv
<1>3. Spec => []Inv
  BY <1>1, <1>2, CasesAndOrders, PTL DEF Spec
<1> QED BY <1>3 DEF Inv

(* In any branch, an order under review can be decided by somebody: it does not    *)
(* wait for a revision that is gone or an approver who may not decide             *)
(* (order_review_service.py, transaction_service.py).                            *)
THEOREM ReviewsCanBeDecided == Spec => []ReviewDecidable
<1>1. ASSUME NEW q \in Quotes, ReviewBound(q), order[q].status = "pending_review",
             order[q].exposure = {}
      PROVE  (\E p \in People : Decidable(q, p)) /\ ~HasOpenCase(q)
  BY <1>1 DEF ReviewBound, ApproverBeside, Decidable
<1>2. (\A q \in Quotes : ReviewBound(q)) => ReviewDecidable
  BY <1>1 DEF ReviewDecidable
<1> QED BY <1>2, ReviewsAreBound, PTL

-----------------------------------------------------------------------------
(* The triggers accept every command *)

(* Nobody is a customer without consent, and a quote that is not there has not    *)
(* expired.                                                                     *)
RowsOK ==
    /\ \A k \in Customers : customer[k].status = "active" => customer[k].granted
    /\ \A q \in Quotes : quote[q].status = "none" => ~quote[q].expired

(* A customer's row after a command *)
LEMMA CustomerMoves ==
    ASSUME TypeOK, OrdersNext, NEW k \in Customers, customer'[k] # customer[k]
    PROVE  \/ /\ customer[k].granted /\ customer'[k].granted
              /\ \A q \in Quotes : CustomerOf[q] = k => order'[q].status # "pending_review"
           \/ customer'[k].status = "inactive"
           \/ /\ customer'[k].granted /\ customer'[k].status = customer[k].status
           \/ /\ customer'[k].status = customer[k].status /\ customer[k].status # "active"
<1> USE DEF TypeOK, CustomerRow
<1>1. ASSUME NEW l \in Customers, activate_customer(l)
      PROVE  /\ customer[k].granted /\ customer'[k].granted
             /\ \A q \in Quotes : CustomerOf[q] = k => order'[q].status # "pending_review"
  BY <1>1 DEF activate_customer
<1>2. ASSUME NEW l \in Customers, grant_consent(l)
      PROVE  customer'[k].granted /\ customer'[k].status = customer[k].status
  BY <1>2 DEF grant_consent
<1>3. ASSUME NEW l \in Customers, deactivate_customer(l)
      PROVE  customer'[k].status = "inactive"
  BY <1>3 DEF deactivate_customer
<1>4. ASSUME NEW l \in Customers, withdraw_consent(l)
      PROVE  \/ customer'[k].status = "inactive"
             \/ customer'[k].status = customer[k].status /\ customer[k].status # "active"
  BY <1>4 DEF withdraw_consent
<1>5. ASSUME NEW r \in Quotes, create_quote(r) \/ issue_quote(r) \/ accept_quote(r) \/ QuoteExpires(r)
      PROVE  FALSE
  BY <1>5 DEF create_quote, issue_quote, accept_quote, QuoteExpires
<1>6. ASSUME NEW r \in Quotes, create_order(r) \/ submit_order(r) PROVE FALSE
  BY <1>6 DEF create_order, submit_order
<1>7. ASSUME NEW r \in Quotes, NEW p \in People, approve_order(r, p) \/ reject_order(r, p)
      PROVE  FALSE
  BY <1>7 DEF approve_order, reject_order
<1>8. ASSUME NEW r \in Quotes, NEW shown \in SUBSET ActionTypes, ledger_write(r, shown)
      PROVE  FALSE
  BY <1>8 DEF ledger_write
<1> QED
  BY <1>1, <1>2, <1>3, <1>4, <1>5, <1>6, <1>7, <1>8 DEF OrdersNext

(* What a command does to a quote *)
LEMMA QuoteMoves ==
    ASSUME TypeOK, RowsOK, OrdersNext, NEW q \in Quotes, quote'[q] # quote[q]
    PROVE  /\ quote'[q].status # "none"
           /\ quote'[q].status # quote[q].status => QuoteGuard(q)
<1> USE DEF TypeOK, QuoteRow
<1>0. quote[q] \in QuoteRow
  OBVIOUS
<1>1. ASSUME NEW r \in Quotes, create_quote(r)
      PROVE  quote'[q].status = "draft" /\ QuoteGuard(q)
  BY <1>1 DEF create_quote, QuoteGuard, RowsOK, MayTransact
<1>2. ASSUME NEW r \in Quotes, issue_quote(r)
      PROVE  quote'[q].status = "offered" /\ QuoteGuard(q)
  BY <1>2 DEF issue_quote, QuoteGuard
<1>3. ASSUME NEW r \in Quotes, accept_quote(r)
      PROVE  quote'[q].status = "accepted" /\ QuoteGuard(q)
  BY <1>3 DEF accept_quote, QuoteGuard
<1>4. ASSUME NEW r \in Quotes, QuoteExpires(r)
      PROVE  quote'[q].status = quote[q].status /\ quote[q].status # "none"
  BY <1>4 DEF QuoteExpires
<1>5. ASSUME NEW k \in Customers, SettleTransactions(k)
      PROVE  quote'[q].status = "cancelled" /\ QuoteGuard(q)
  BY <1>5 DEF SettleTransactions, QuoteToCancel, QuoteGuard
<1>6. ASSUME NEW k \in Customers, deactivate_customer(k) \/ withdraw_consent(k)
      PROVE  quote'[q].status = "cancelled" /\ QuoteGuard(q)
  BY <1>5, <1>6 DEF deactivate_customer, withdraw_consent
<1>7. ASSUME NEW r \in Quotes, create_order(r) \/ submit_order(r) PROVE FALSE
  BY <1>7 DEF create_order, submit_order
<1>8. ASSUME NEW r \in Quotes, NEW p \in People, approve_order(r, p) \/ reject_order(r, p)
      PROVE  FALSE
  BY <1>8 DEF approve_order, reject_order
<1>9. ASSUME NEW r \in Quotes, NEW shown \in SUBSET ActionTypes, ledger_write(r, shown)
      PROVE  FALSE
  BY <1>9 DEF ledger_write
<1>10. ASSUME NEW k \in Customers, activate_customer(k) \/ grant_consent(k) PROVE FALSE
  BY <1>10 DEF activate_customer, grant_consent
<1> QED
  BY <1>1, <1>2, <1>3, <1>4, <1>6, <1>7, <1>8, <1>9, <1>10 DEF OrdersNext

LEMMA RowsStayOK ==
    ASSUME IInv, RowsOK, [Next]_vars
    PROVE  RowsOK'
<1>1. CASE OrdersNext
  <2>1. \A k \in Customers : customer'[k].status = "active" => customer'[k].granted
    BY <1>1, CustomerMoves DEF RowsOK, IInv
  <2>2. \A q \in Quotes : quote'[q].status = "none" => ~quote'[q].expired
    BY <1>1, QuoteMoves DEF RowsOK, IInv
  <2> QED BY <2>1, <2>2 DEF RowsOK
<1>2. CASE CasesNext
  BY <1>2, CaseSteps DEF RowsOK
<1>3. CASE UNCHANGED vars
  BY <1>3 DEF vars, RowsOK
<1> QED BY <1>1, <1>2, <1>3 DEF Next

(* What is left when an order's case is not touched *)
OrderAccepted(q) ==
    /\ quote'[q].status # quote[q].status => QuoteGuard(q)
    /\ order'[q] # order[q] => OrderGuard(q) /\ OrderConsistent(q)'
    /\ \/ review'[q] # review[q]
       \/ order'[q] # order[q]
          /\ order'[q].status \in {"pending_review", "approved", "review_rejected"}
       => ReviewMatches(q)'
    /\ ledger'[q] # ledger[q] => ~Frozen(q)

LEMMA OrdersAccepted ==
    ASSUME IInv, IInv', RowsOK, OrdersNext, NEW q \in Quotes, ReviewBound(q)
    PROVE  OrderAccepted(q)
<1> USE DEF TypeOK
<1>0. /\ TypeOK /\ order[q] \in OrderRow /\ quote[q] \in QuoteRow /\ review[q] \in ReviewRow
      /\ case' = case /\ FollowsCase(q)' /\ CustomerOf[q] \in Customers
  BY OrderSteps, AgencyAssumption DEF IInv, CaseInv
<1>1. quote'[q].status # quote[q].status => QuoteGuard(q)
  BY <1>0, QuoteMoves
<1>2. ASSUME UNCHANGED <<order, review>>, ledger' = ledger
      PROVE  OrderAccepted(q)
  BY <1>1, <1>2 DEF OrderAccepted
<1>3. ASSUME NEW r \in Quotes, create_quote(r) \/ issue_quote(r) \/ accept_quote(r) \/ QuoteExpires(r)
      PROVE  OrderAccepted(q)
  BY <1>2, <1>3 DEF create_quote, issue_quote, accept_quote, QuoteExpires
<1>4. ASSUME NEW r \in Quotes, create_order(r) PROVE OrderAccepted(q)
  <2>1. /\ order' = [order EXCEPT ![r] = [status |-> "draft", rev |-> 1, exposure |-> {}]]
        /\ UNCHANGED <<customer, quote, ledger, review, case>>
        /\ quote[r].status = "accepted" /\ ~quote[r].expired /\ MayTransact(CustomerOf[r])
        /\ order[r] = NoOrder
    BY <1>4 DEF create_order
  <2>2. CASE r = q
    <3>1. order'[q] = [status |-> "draft", rev |-> 1, exposure |-> {}]
      BY <1>0, <2>1, <2>2
    <3>2. quote'[q] = [status |-> "accepted", expired |-> FALSE]
      BY <1>0, <2>1, <2>2 DEF QuoteRow
    <3>3. MayTransact(CustomerOf[q])'
      BY <2>1, <2>2 DEF MayTransact
    <3>4. OrderGuard(q)
      BY <2>1, <2>2, <3>1, <3>2, <3>3 DEF OrderGuard
    <3>5. OrderConsistent(q)'
      BY <3>1 DEF OrderConsistent
    <3> QED BY <1>1, <2>1, <3>1, <3>4, <3>5 DEF OrderAccepted
  <2>3. CASE r # q
    BY <1>1, <2>1, <2>3 DEF OrderAccepted
  <2> QED BY <2>2, <2>3
<1>5. ASSUME NEW r \in Quotes, submit_order(r) PROVE OrderAccepted(q)
  <2>1. /\ order' = [order EXCEPT ![r] = Moved(@, "pending_review")]
        /\ review' = [review EXCEPT ![r] = [status |-> "pending", orderRev |-> order'[r].rev]]
        /\ UNCHANGED <<customer, quote, ledger, case>>
        /\ order[r].status = "draft" /\ ApproverBeside({Buyer(r)}) /\ ~HasOpenCase(r)
    BY <1>5 DEF submit_order
  <2>2. CASE r = q
    <3>1. order'[q] = Moved(order[q], "pending_review")
      BY <1>0, <2>1, <2>2
    <3>2. order'[q].status = "pending_review" /\ order'[q].rev = order[q].rev + 1
          /\ order'[q].exposure = order[q].exposure
      BY <3>1 DEF Moved
    <3>3. review'[q] = [status |-> "pending", orderRev |-> order'[q].rev]
      BY <1>0, <2>1, <2>2
    <3>4. OrderGuard(q)
      BY <2>1, <2>2, <3>2 DEF OrderGuard, OrderTransitions, NoOrder, HasOpenCase
    <3>5. OrderConsistent(q)'
      BY <2>1, <2>2, <3>2 DEF OrderConsistent, HasOpenCase
    <3>6. ReviewMatches(q)'
      BY <3>2, <3>3 DEF ReviewMatches
    <3> QED BY <1>1, <2>1, <3>4, <3>5, <3>6 DEF OrderAccepted
  <2>3. CASE r # q
    BY <1>1, <2>1, <2>3 DEF OrderAccepted
  <2> QED BY <2>2, <2>3
<1>6. ASSUME NEW r \in Quotes, NEW p \in People, NEW s, NEW d,
             <<s, d>> \in {<<"approved", "approved">>, <<"review_rejected", "rejected">>},
             Decidable(r, p), s = "approved" => MayTransact(CustomerOf[r]),
             order' = [order EXCEPT ![r] = Moved(@, s)],
             review' = [review EXCEPT ![r].status = d],
             UNCHANGED <<customer, quote, ledger, case>>
      PROVE  OrderAccepted(q)
  <2>1. CASE r = q
    <3>1. order'[q] = Moved(order[q], s)
      BY <1>0, <1>6, <2>1
    <3>2. order'[q].status = s /\ order'[q].rev = order[q].rev + 1
          /\ order'[q].exposure = order[q].exposure
      BY <3>1 DEF Moved
    <3>3. review'[q].status = d /\ review'[q].orderRev = review[q].orderRev
      BY <1>0, <1>6, <2>1 DEF ReviewRow
    <3>4. /\ order[q].status = "pending_review" /\ review[q].orderRev = order[q].rev
          /\ \/ s = "approved" /\ d = "approved"
             \/ s = "review_rejected" /\ d = "rejected"
      BY <1>6, <2>1 DEF Decidable
    <3>5. OrderGuard(q)
      BY <3>2, <3>4 DEF OrderGuard, OrderTransitions, NoOrder
    <3>6. OrderConsistent(q)'
      BY <3>2, <3>4 DEF OrderConsistent
    <3>7. s = "approved" => MayTransact(CustomerOf[q])'
      BY <1>6, <2>1 DEF MayTransact
    <3>8. ReviewMatches(q)'
      BY <3>2, <3>3, <3>4, <3>7 DEF ReviewMatches
    <3> QED BY <1>1, <1>6, <3>5, <3>6, <3>8 DEF OrderAccepted
  <2>2. CASE r # q
    BY <1>1, <1>6, <2>2 DEF OrderAccepted
  <2> QED BY <2>1, <2>2
<1>7. ASSUME NEW r \in Quotes, NEW p \in People, approve_order(r, p) \/ reject_order(r, p)
      PROVE  OrderAccepted(q)
  BY <1>6, <1>7 DEF approve_order, reject_order
<1>8. ASSUME NEW r \in Quotes, NEW shown \in SUBSET ActionTypes, ledger_write(r, shown)
      PROVE  OrderAccepted(q)
  <2>1. ledger'[q] # ledger[q] => ~Frozen(q)
    BY <1>8 DEF ledger_write
  <2> QED BY <1>1, <1>8, <2>1 DEF ledger_write, OrderAccepted
<1>9. ASSUME NEW k \in Customers, activate_customer(k) \/ grant_consent(k) PROVE OrderAccepted(q)
  BY <1>2, <1>9 DEF activate_customer, grant_consent
<1>10. ASSUME NEW k \in Customers, SettleTransactions(k), UNCHANGED <<ledger, review, case>>,
              customer'[k].status = "inactive"
       PROVE  OrderAccepted(q)
  <2>1. order'[q] = order[q] \/ (CustomerOf[q] = k /\ order'[q] = Settled(order[q]))
    BY <1>0, <1>10 DEF SettleTransactions
  <2>2. CASE order'[q] # order[q]
    <3>1. /\ order'[q] = Moved(order[q], order'[q].status)
          /\ \/ order[q].status \in {"draft", "approved"} /\ order'[q].status = "cancelled"
             \/ /\ order[q].status \in {"draft", "approved", "processing", "failed"}
                /\ order'[q].status = "cancellation_pending"
      BY <2>1, <2>2 DEF Settled, Moved
    <3>2. order'[q].exposure = order[q].exposure /\ order'[q].rev = order[q].rev + 1
      BY <3>1 DEF Moved
    <3>3. OrderGuard(q)
      BY <3>1, <3>2 DEF OrderGuard, OrderTransitions, NoOrder
    <3>4. OrderConsistent(q)'
      <4>1. customer'[CustomerOf[q]].status # "active"
        BY <1>10, <2>1, <2>2
      <4>2. order'[q].status # "pending_review"
        BY <3>1
      <4> QED BY <1>0, <4>1, <4>2 DEF OrderConsistent, FollowsCase
    <3> QED BY <1>1, <1>10, <3>1, <3>3, <3>4 DEF OrderAccepted
  <2> QED BY <1>1, <1>10, <2>2 DEF OrderAccepted
<1>11. ASSUME NEW k \in Customers, deactivate_customer(k) PROVE OrderAccepted(q)
  <2>1. customer'[k].status = "inactive"
    BY <1>11 DEF deactivate_customer, IInv
  <2> QED BY <1>10, <1>11, <2>1 DEF deactivate_customer
<1>12. ASSUME NEW k \in Customers, withdraw_consent(k) PROVE OrderAccepted(q)
  <2>1. CASE SettleTransactions(k) /\ customer' = [customer EXCEPT ![k] = [status |-> "inactive", granted |-> FALSE]]
    BY <1>0, <1>10, <1>12, <2>1 DEF withdraw_consent
  <2> QED BY <1>2, <1>12, <2>1 DEF withdraw_consent
<1> QED
  BY <1>3, <1>4, <1>5, <1>7, <1>8, <1>9, <1>11, <1>12 DEF OrdersNext

-----------------------------------------------------------------------------
(* The commands on cases *)

CaseAccepted(q) ==
    /\ order'[q] # order[q] => OrderGuard(q) /\ OrderConsistent(q)'
    /\ case'[q].status # case[q].status =>
         /\ IF case'[q].status = "approval_pending" THEN CaseInsertGuard(q)
            ELSE CaseUpdateGuard(q)
         /\ CaseConsistent(q)'
    /\ case'[q].status # "approval_pending" /\ case'[q].results # case[q].results
         => ResultsGuard(q)

(* An order that is moved on for its case *)
LEMMA OrderMovedByCase ==
    ASSUME TypeOK, TypeOK', NEW q \in Quotes, FollowsCase(q)', NEW s,
           order' = order \/ order' = [order EXCEPT ![q] = Moved(@, s)],
           <<order[q].status, s>> \in OrderTransitions, s # "pending_review",
           case'[q].status \notin {"none", "rejected"}
    PROVE  order'[q] # order[q] => OrderGuard(q) /\ OrderConsistent(q)'
<1> SUFFICES ASSUME order'[q] # order[q] PROVE OrderGuard(q) /\ OrderConsistent(q)'
  OBVIOUS
<1>1. order'[q] = Moved(order[q], s)
  BY DEF TypeOK
<1>2. /\ order'[q].status = s /\ order'[q].rev = order[q].rev + 1
      /\ order'[q].exposure = order[q].exposure
  BY <1>1 DEF Moved
<1>3. order[q] # NoOrder
  BY DEF OrderTransitions, NoOrder
<1>4. OrderGuard(q)
  BY <1>2, <1>3 DEF OrderGuard
<1>5. OrderConsistent(q)'
  BY <1>2 DEF OrderConsistent, FollowsCase
<1> QED BY <1>4, <1>5

(* A command about one case *)
LEMMA OtherCases ==
    ASSUME NEW q \in Quotes, NEW r \in Quotes,
           \A u \in Quotes \ {r} : case'[u] = case[u] /\ order'[u] = order[u],
           CaseAccepted(r)
    PROVE  CaseAccepted(q)
BY DEF CaseAccepted

(* A case that is reviewed or worked on *)
LEMMA CaseUpdated ==
    ASSUME TypeOK', NEW q \in Quotes, CaseInv(q)', ResultsInv(q)',
           <<case'[q].orderRev, case'[q].need, case'[q].by>>
             = <<case[q].orderRev, case[q].need, case[q].by>>,
           <<case[q].status, case'[q].status>> \in CaseTransitions,
           IF case[q].status = "approval_pending" THEN Holds(case'[q].reviewer, "approver")
           ELSE case'[q].reviewer = case[q].reviewer,
           case'[q].reviewer \notin {case[q].by, Buyer(q)}
    PROVE  /\ case'[q].status # "approval_pending"
           /\ CaseUpdateGuard(q) /\ CaseConsistent(q)'
<1>1. case'[q].status # "approval_pending"
  BY DEF CaseTransitions
<1>2. CaseUpdateGuard(q)
  BY DEF CaseUpdateGuard
<1>3. CaseConsistent(q)'
  <2>1. ASSUME NEW a \in case'[q].need, case'[q].status \in {"reconciliation_pending", "completed"}
        PROVE  Succeeded(case'[q].results, a)
    BY <2>1 DEF ResultsInv, Approved, OpenStatus, Progress, ToDo
  <2>2. ASSUME NEW a \in case'[q].need, case'[q].status = "completed"
        PROVE  case'[q].results[Latest(case'[q].results, a)].recon = "matched"
    <3>1. Progress(case'[q].need, case'[q].results) = "completed" /\ case'[q].results \in Seq(ResultRow)
      BY <2>2 DEF ResultsInv, TypeOK, CaseRow
    <3> QED BY <3>1, NothingLeft
  <2> QED BY <1>1, <2>1, <2>2 DEF CaseConsistent, CaseInv, FollowsCase
<1> QED BY <1>1, <1>2, <1>3

LEMMA CasesAccepted ==
    ASSUME IInv, IInv', \A r \in Quotes : ResultsInv(r) /\ ResultsInv(r)',
           CasesNext, NEW q \in Quotes
    PROVE  CaseAccepted(q)
<1>1. /\ TypeOK /\ TypeOK' /\ DOMAIN case = Quotes /\ DOMAIN order = Quotes
      /\ \A r \in Quotes : /\ case[r] \in CaseRow /\ case[r].results \in Seq(ResultRow)
                            /\ CaseInv(r) /\ CaseInv(r)' /\ FollowsCase(r) /\ FollowsCase(r)'
  BY DEF IInv, TypeOK, CaseRow, CaseInv
<1>2. ASSUME NEW r \in Quotes, NEW p \in People, request_cancellation(r, p)
      PROVE  CaseAccepted(q)
  <2>1. /\ case'[r] = [NoCase EXCEPT !.status = "approval_pending", !.orderRev = order[r].rev,
                                     !.need = RequiredActions(r), !.by = p]
        /\ \A u \in Quotes \ {r} : case'[u] = case[u] /\ order'[u] = order[u]
        /\ order' = order /\ Requestable(order[r]) /\ ~HasOpenCase(r)
        /\ ApproverBeside({p, Buyer(r)})
    BY <1>1, <1>2 DEF request_cancellation
  <2>2. /\ case'[r].status = "approval_pending" /\ case'[r].orderRev = order[r].rev
        /\ case'[r].need = RequiredActions(r) /\ case'[r].by = p
    BY <2>1 DEF NoCase
  <2>3. CaseInsertGuard(r)
    BY <2>1, <2>2 DEF CaseInsertGuard, Requestable, OldStatus
  <2>4. CaseConsistent(r)'
    BY <2>1, <2>2 DEF CaseConsistent, Requestable
  <2>5. CaseAccepted(r)
    BY <2>1, <2>2, <2>3, <2>4 DEF CaseAccepted
  <2> QED BY <2>1, <2>5, OtherCases
<1>3. ASSUME NEW r \in Quotes, NEW p \in People, MayReview(r, p),
             NEW s \in {"rejected", "action_pending", "completed"}, Reviewed(r, p, s),
             NEW t,
             order' = order \/ order' = [order EXCEPT ![r] = Moved(@, t)],
             s = "rejected" => order' = order,
             s # "rejected" => <<order[r].status, t>> \in OrderTransitions \/ order' = order,
             t \in {"cancelled", "cancellation_pending"}
      PROVE  CaseAccepted(q)
  <2>1. /\ case'[r].status = s /\ case'[r].reviewer = p /\ case'[r].results = case[r].results
        /\ <<case'[r].orderRev, case'[r].need, case'[r].by>>
             = <<case[r].orderRev, case[r].need, case[r].by>>
        /\ \A u \in Quotes \ {r} : case'[u] = case[u] /\ order'[u] = order[u]
    BY <1>1, <1>3 DEF Reviewed, CaseRow
  <2>2. /\ case[r].status = "approval_pending" /\ Holds(p, "approver")
        /\ p \notin {case[r].by, Buyer(r)}
    BY <1>3 DEF MayReview
  <2>3. /\ case'[r].status # "approval_pending"
        /\ CaseUpdateGuard(r) /\ CaseConsistent(r)'
    BY <1>1, <2>1, <2>2, CaseUpdated DEF CaseTransitions
  <2>4. order'[r] # order[r] => OrderGuard(r) /\ OrderConsistent(r)'
    BY <1>1, <1>3, <2>1, OrderMovedByCase
  <2>5. CaseAccepted(r)
    BY <2>1, <2>3, <2>4 DEF CaseAccepted
  <2> QED BY <2>1, <2>5, OtherCases
<1>4. ASSUME NEW r \in Quotes, NEW p \in People, reject_case(r, p) PROVE CaseAccepted(q)
  BY <1>3, <1>4 DEF reject_case
<1>5. ASSUME NEW r \in Quotes, NEW p \in People, approve_case(r, p) PROVE CaseAccepted(q)
  <2>1. MayReview(r, p) /\ Requestable(order[r])
    BY <1>1, <1>5 DEF approve_case, MayReview, CaseInv, BoundToOrder
  <2>2. CASE CompleteInternally(r, p)
    <3>1. <<order[r].status, "cancelled">> \in OrderTransitions
      BY <2>2 DEF CompleteInternally, OrderTransitions
    <3> QED BY <1>3, <2>1, <2>2, <3>1 DEF CompleteInternally
  <2>3. CASE StartManualWork(r, p)
    <3>1. \/ <<order[r].status, "cancellation_pending">> \in OrderTransitions
          \/ order[r].status = "cancellation_pending"
      BY <2>1 DEF Requestable, OrderTransitions
    <3> QED BY <1>3, <2>1, <2>3, <3>1 DEF StartManualWork
  <2> QED BY <1>5, <2>2, <2>3 DEF approve_case
<1>6. ASSUME NEW r \in Quotes, NEW p \in People, NEW a \in ActionTypes, NEW o \in Outcome,
             record_manual_result(r, a, o, p)
      PROVE  CaseAccepted(q)
  <2> DEFINE row == [action |-> a, outcome |-> o, by |-> p, recon |-> "none", reconBy |-> Nobody]
             old == case[r].results
             results == Append(old, row)
             status == IF o = "succeeded" THEN Progress(case[r].need, results)
                       ELSE "manual_intervention"
  <2>1. /\ row \in ResultRow /\ old \in Seq(ResultRow)
        /\ row.action = a /\ row.recon = "none" /\ row.outcome = o
    BY <1>1 DEF ResultRow
  <2>2. /\ case' = [case EXCEPT ![r].status = status, ![r].results = results]
        /\ order' = IF status = "manual_intervention"
                    THEN [order EXCEPT ![r] = Moved(@, "manual_intervention")] ELSE order
        /\ case[r].status = "action_pending" /\ a \in case[r].need
    BY <1>6 DEF record_manual_result
  <2>3. /\ status \in {"action_pending", "reconciliation_pending", "manual_intervention"}
        /\ o = "succeeded" <=> status # "manual_intervention"
    BY <2>1, <2>2, ProgressType, RecordingDoesNotComplete
  <2>4. /\ Len(results) = Len(old) + 1 /\ results[Len(results)] = row
        /\ \A i \in DOMAIN old : results[i] = old[i]
    <3> HIDE DEF row, old
    <3> QED BY <2>1, AppendProperties
  <2> HIDE DEF results, status, row
  <2>5. /\ case'[r].status = status /\ case'[r].results = results
        /\ case'[r].reviewer = case[r].reviewer
        /\ <<case'[r].orderRev, case'[r].need, case'[r].by>>
             = <<case[r].orderRev, case[r].need, case[r].by>>
        /\ \A u \in Quotes \ {r} : case'[u] = case[u] /\ order'[u] = order[u]
    BY <1>1, <2>2 DEF CaseRow
  <2>6. case[r].reviewer \notin {case[r].by, Buyer(r)}
    BY <1>1, <2>2 DEF CaseInv, VouchedFor, Approved, OpenStatus
  <2>7. case'[r].status # case[r].status =>
          /\ case'[r].status # "approval_pending"
          /\ CaseUpdateGuard(r) /\ CaseConsistent(r)'
    <3> SUFFICES ASSUME case'[r].status # case[r].status
                 PROVE  /\ case'[r].status # "approval_pending"
                        /\ CaseUpdateGuard(r) /\ CaseConsistent(r)'
      OBVIOUS
    <3>1. <<case[r].status, case'[r].status>> \in CaseTransitions
      BY <2>2, <2>3, <2>5 DEF CaseTransitions
    <3>2. TypeOK' /\ CaseInv(r)' /\ ResultsInv(r)'
      BY <1>1
    <3>3. case[r].status # "approval_pending" /\ case'[r].reviewer \notin {case[r].by, Buyer(r)}
      BY <2>2, <2>5, <2>6
    <3> QED BY <2>5, <3>1, <3>2, <3>3, CaseUpdated
  <2>8. order'[r] # order[r] => OrderGuard(r) /\ OrderConsistent(r)'
    <3>1. <<order[r].status, "manual_intervention">> \in OrderTransitions
      BY <1>1, <2>2 DEF FollowsCase, OrderTransitions
    <3>2. case'[r].status \notin {"none", "rejected"}
      BY <2>3, <2>5
    <3> QED BY <1>1, <2>2, <3>1, <3>2, OrderMovedByCase
  <2>9. ResultsGuard(r)
    <3>1. RecordGuard(r, row)
      BY <2>1, <2>2, <2>3, <2>5 DEF RecordGuard
    <3> QED BY <2>4, <2>5, <3>1 DEF ResultsGuard
  <2>10. CaseAccepted(r)
    BY <2>7, <2>8, <2>9 DEF CaseAccepted
  <2> QED BY <2>5, <2>10, OtherCases
<1>7. ASSUME NEW r \in Quotes, NEW p \in People, NEW i \in DOMAIN case[r].results,
             NEW o \in Reconciled, reconcile_manual_result(r, i, o, p)
      PROVE  CaseAccepted(q)
  <2> DEFINE old == case[r].results
             results == [old EXCEPT ![i].recon = o, ![i].reconBy = p]
             status == IF o = "matched" THEN Progress(case[r].need, results)
                       ELSE "manual_intervention"
  <2>1. /\ case' = [case EXCEPT ![r].status = status, ![r].results = results]
        /\ order' = OrderAfter(r, status)
        /\ case[r].status = "reconciliation_pending" /\ MayReconcile(r, i, p)
    BY <1>7 DEF reconcile_manual_result, MayReconcile
  <2>2. /\ results[i] = [[old[i] EXCEPT !.recon = o] EXCEPT !.reconBy = p]
        /\ old[i] \in ResultRow
    <3>1. old \in Seq(ResultRow) /\ i \in DOMAIN old
      BY <1>1
    <3> HIDE DEF old
    <3> QED BY <3>1
  <2>3. /\ results[i].recon = o /\ results[i].reconBy = p
        /\ results[i].by = old[i].by /\ results[i].outcome = old[i].outcome
    BY <2>2 DEF ResultRow
  <2>4. /\ results = [old EXCEPT ![i].recon = results[i].recon, ![i].reconBy = results[i].reconBy]
        /\ old[i].recon = "none" /\ old[i].outcome = "succeeded" /\ p # old[i].by
    BY <2>1, <2>3 DEF MayReconcile
  <2>5. o = "matched" =>
          status \in {"reconciliation_pending", "completed"}
    <3> SUFFICES ASSUME o = "matched", Progress(case[r].need, results) = "action_pending"
                 PROVE  FALSE
      BY ProgressType
    <3>1. PICK a \in case[r].need : a \in ToDo(case[r].need, results)
      BY DEF Progress, ToDo
    <3>2. /\ ToDo(case[r].need, old) = {} /\ old \in Seq(ResultRow)
          /\ \A j \in DOMAIN old : old[j].action \in case[r].need
      BY <1>1, <2>1 DEF ResultsInv, Approved, OpenStatus, Progress
    <3>3. /\ DOMAIN results = DOMAIN old
          /\ \A j \in DOMAIN old : j # i => results[j] = old[j]
      BY <3>2
    <3>4. results[i].action = old[i].action
      BY <2>2 DEF ResultRow
    <3>5. ResultsFor(results, a) = ResultsFor(old, a)
      <4>1. \A j \in DOMAIN old : results[j].action = old[j].action
        BY <3>3, <3>4
      <4> HIDE DEF results, old
      <4> QED BY <3>3, <4>1 DEF ResultsFor
    <3> HIDE DEF results, status
    <3>6. Latest(results, a) = Latest(old, a)
      BY <3>5 DEF Latest
    <3>7. Succeeded(old, a) /\ old[Latest(old, a)].recon \notin {"mismatched", "unverifiable"}
      BY <3>1, <3>2 DEF ToDo
    <3>8. Latest(old, a) \in DOMAIN old
      BY <3>2, <3>7, LatestExists DEF Succeeded, ResultsFor
    <3>9. /\ results[Latest(old, a)].outcome = "succeeded"
          /\ results[Latest(old, a)].recon \notin {"mismatched", "unverifiable"}
      <4>1. CASE Latest(old, a) = i
        BY <2>3, <2>4, <4>1
      <4>2. CASE Latest(old, a) # i
        BY <3>3, <3>7, <3>8, <4>2 DEF Succeeded
      <4> QED BY <4>1, <4>2
    <3> QED BY <3>1, <3>5, <3>6, <3>7, <3>9 DEF ToDo, Succeeded
  <2>6. o # "matched" => status = "manual_intervention"
    OBVIOUS
  <2> HIDE DEF results, status
  <2>7. /\ case'[r].status = status /\ case'[r].results = results
        /\ case'[r].reviewer = case[r].reviewer
        /\ <<case'[r].orderRev, case'[r].need, case'[r].by>>
             = <<case[r].orderRev, case[r].need, case[r].by>>
        /\ \A u \in Quotes \ {r} : case'[u] = case[u] /\ order'[u] = order[u]
    BY <1>1, <2>1 DEF CaseRow, OrderAfter
  <2>8. case[r].reviewer \notin {case[r].by, Buyer(r)}
    BY <1>1, <2>1 DEF CaseInv, VouchedFor, Approved, OpenStatus
  <2>9. case'[r].status # case[r].status =>
          /\ case'[r].status # "approval_pending"
          /\ CaseUpdateGuard(r) /\ CaseConsistent(r)'
    <3> SUFFICES ASSUME case'[r].status # case[r].status
                 PROVE  /\ case'[r].status # "approval_pending"
                        /\ CaseUpdateGuard(r) /\ CaseConsistent(r)'
      OBVIOUS
    <3>1. <<case[r].status, case'[r].status>> \in CaseTransitions
      BY <2>1, <2>5, <2>6, <2>7 DEF CaseTransitions
    <3>2. TypeOK' /\ CaseInv(r)' /\ ResultsInv(r)'
      BY <1>1
    <3>3. case[r].status # "approval_pending" /\ case'[r].reviewer \notin {case[r].by, Buyer(r)}
      BY <2>1, <2>7, <2>8
    <3> QED BY <2>7, <3>1, <3>2, <3>3, CaseUpdated
  <2>10. order'[r] # order[r] => OrderGuard(r) /\ OrderConsistent(r)'
    <3>1. order[r].status = "cancellation_pending"
      BY <1>1, <2>1 DEF FollowsCase
    <3>2. case'[r].status \notin {"none", "rejected"}
      BY <2>5, <2>6, <2>7
    <3>3. \/ order' = order
          \/ order' = [order EXCEPT ![r] = Moved(@, "manual_intervention")]
          \/ order' = [order EXCEPT ![r] = Moved(@, "cancelled")]
      BY <2>1 DEF OrderAfter
    <3>4. /\ <<order[r].status, "manual_intervention">> \in OrderTransitions
          /\ <<order[r].status, "cancelled">> \in OrderTransitions
      BY <3>1 DEF OrderTransitions
    <3>5. CASE order' = order \/ order' = [order EXCEPT ![r] = Moved(@, "manual_intervention")]
      BY <1>1, <3>2, <3>4, <3>5, OrderMovedByCase
    <3>6. CASE order' = order \/ order' = [order EXCEPT ![r] = Moved(@, "cancelled")]
      BY <1>1, <3>2, <3>4, <3>6, OrderMovedByCase
    <3> QED BY <3>3, <3>5, <3>6
  <2>11. ResultsGuard(r)
    <3>1. ReconciliationGuard(r, results[i])
      BY <2>3, <2>4, <2>5, <2>6, <2>7 DEF ReconciliationGuard
    <3> QED BY <2>4, <2>7, <3>1 DEF ResultsGuard
  <2>12. CaseAccepted(r)
    BY <2>9, <2>10, <2>11 DEF CaseAccepted
  <2> QED BY <2>7, <2>12, OtherCases
<1>8. ASSUME NEW r \in Quotes, NEW p \in People, resume_cancellation(r, p)
      PROVE  CaseAccepted(q)
  <2>1. /\ case' = [case EXCEPT ![r].status = "action_pending"]
        /\ order' = [order EXCEPT ![r] = Moved(@, "cancellation_pending")]
        /\ case[r].status = "manual_intervention"
    BY <1>8 DEF resume_cancellation
  <2>2. /\ case'[r].status = "action_pending" /\ case'[r].results = case[r].results
        /\ case'[r].reviewer = case[r].reviewer
        /\ <<case'[r].orderRev, case'[r].need, case'[r].by>>
             = <<case[r].orderRev, case[r].need, case[r].by>>
        /\ \A u \in Quotes \ {r} : case'[u] = case[u] /\ order'[u] = order[u]
    BY <1>1, <2>1 DEF CaseRow
  <2>3. case[r].reviewer \notin {case[r].by, Buyer(r)}
    BY <1>1, <2>1 DEF CaseInv, VouchedFor, Approved, OpenStatus
  <2>4. CaseUpdateGuard(r) /\ CaseConsistent(r)'
    BY <1>1, <2>1, <2>2, <2>3, CaseUpdated DEF CaseTransitions
  <2>5. order'[r] # order[r] => OrderGuard(r) /\ OrderConsistent(r)'
    <3>1. <<order[r].status, "cancellation_pending">> \in OrderTransitions
      BY <1>1, <2>1 DEF FollowsCase, OrderTransitions
    <3> QED BY <1>1, <2>1, <2>2, <3>1, OrderMovedByCase
  <2>6. CaseAccepted(r)
    BY <2>2, <2>4, <2>5 DEF CaseAccepted
  <2> QED BY <2>2, <2>6, OtherCases
<1> QED BY <1>2, <1>4, <1>5, <1>6, <1>7, <1>8 DEF CasesNext

(* A command about cases writes no other table. *)
LEMMA CasesWriteCases == ASSUME CasesNext PROVE review' = review /\ ledger' = ledger
<1>1. PICK r \in Quotes, p \in People :
        \/ request_cancellation(r, p)
        \/ reject_case(r, p) \/ approve_case(r, p)
        \/ \E a \in ActionTypes, o \in Outcome : record_manual_result(r, a, o, p)
        \/ \E i \in DOMAIN case[r].results, o \in Reconciled :
              reconcile_manual_result(r, i, o, p)
        \/ resume_cancellation(r, p)
  BY DEF CasesNext
<1>2. CASE request_cancellation(r, p) \/ reject_case(r, p) \/ approve_case(r, p)
  BY <1>2 DEF request_cancellation, reject_case, approve_case
<1>3. ASSUME NEW a \in ActionTypes, NEW o \in Outcome, record_manual_result(r, a, o, p)
      PROVE  review' = review /\ ledger' = ledger
  BY <1>3 DEF record_manual_result
<1>4. ASSUME NEW i \in DOMAIN case[r].results, NEW o \in Reconciled,
             reconcile_manual_result(r, i, o, p)
      PROVE  review' = review /\ ledger' = ledger
  BY <1>4 DEF reconcile_manual_result
<1>5. CASE resume_cancellation(r, p)
  BY <1>5 DEF resume_cancellation
<1> QED BY <1>1, <1>2, <1>3, <1>4, <1>5

(* Whatever the commands, settlement and the passing of time made of the rows, in  *)
(* any branch, the triggers of migrations 0004, 0007 and 0008 accept every write of *)
(* the services: no command passes the checks of its service and ends in an error  *)
(* of the database.                                                             *)
THEOREM TriggersAcceptServices == Spec => ImplementsGuards
<1> DEFINE Results == \A q \in Quotes : ResultsInv(q)
           Reviews == \A q \in Quotes : ReviewBound(q)
<1>1. ASSUME IInv, IInv', RowsOK, RowsOK', Results, Results', Reviews, [Next]_vars
      PROVE  [AcceptedStep]_vars
  <2>1. CASE UNCHANGED vars
    BY <2>1
  <2>2. CASE OrdersNext
    <3>1. ASSUME NEW q \in Quotes PROVE Accepted(q)
      <4>1. OrderAccepted(q) /\ case' = case
        BY <1>1, <2>2, OrdersAccepted, OrderSteps DEF IInv
      <4> QED BY <4>1 DEF OrderAccepted, Accepted
    <3>2. ASSUME NEW k \in Customers, customer'[k] # customer[k] PROVE CustomerGuard(k)
      BY <1>1, <2>2, <3>2, CustomerMoves DEF IInv, RowsOK, CustomerGuard
    <3> QED BY <3>1, <3>2 DEF AcceptedStep
  <2>3. CASE CasesNext
    <3>1. customer' = customer /\ quote' = quote /\ review' = review /\ ledger' = ledger
      BY <1>1, <2>3, CaseSteps, CasesWriteCases
    <3>2. ASSUME NEW q \in Quotes PROVE Accepted(q)
      <4>1. CaseAccepted(q) /\ CaseStep(q)
        BY <1>1, <2>3, CasesAccepted, CaseSteps
      <4> QED BY <3>1, <4>1 DEF CaseAccepted, CaseStep, Accepted
    <3> QED BY <3>1, <3>2 DEF AcceptedStep
  <2> QED BY <1>1, <2>1, <2>2, <2>3 DEF Next
<1>2. Init => RowsOK
  BY DEF Init, RowsOK, NoQuote
<1>3. IInv /\ RowsOK /\ [Next]_vars => RowsOK'
  BY RowsStayOK
<1> HIDE DEF Results, Reviews
<1>4. Spec => []Results /\ []Reviews
  BY ResultsAreKept, ReviewsAreBound, PTL DEF Results, Reviews
<1> QED
  BY <1>1, <1>2, <1>3, <1>4, CasesAndOrders, PTL DEF Spec, ImplementsGuards, GuardedTables
=============================================================================
