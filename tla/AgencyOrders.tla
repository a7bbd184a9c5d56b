----------------------------- MODULE AgencyOrders -----------------------------
(* Quotes, orders, their internal review, and the settlement of both when a   *)
(* customer relationship ends: transaction_service.py,                         *)
(* order_review_service.py, customer_lifecycle_service.py,                      *)
(* customer_claim_service.py and customer_transaction_settlement.py.            *)
EXTENDS AgencyGuards

-----------------------------------------------------------------------------
(* Quotes.  Each command checks the customer, then the quote it has locked.    *)

create_quote(q) ==
    /\ quote[q].status = "none" /\ MayTransact(CustomerOf[q])
    /\ quote' = [quote EXCEPT ![q].status = "draft"]
    /\ UNCHANGED <<customer, order, ledger, review, case>>

issue_quote(q) ==
    /\ quote[q].status = "draft" /\ ~quote[q].expired /\ MayTransact(CustomerOf[q])
    /\ quote' = [quote EXCEPT ![q].status = "offered"]
    /\ UNCHANGED <<customer, order, ledger, review, case>>

accept_quote(q) ==
    /\ quote[q].status = "offered" /\ ~quote[q].expired /\ MayTransact(CustomerOf[q])
    /\ quote' = [quote EXCEPT ![q].status = "accepted"]
    /\ UNCHANGED <<customer, order, ledger, review, case>>

(* valid_until passes; nothing reads it once there is an order. *)
QuoteExpires(q) ==
    /\ quote[q].status \in {"draft", "offered", "accepted"} /\ ~quote[q].expired
    /\ order[q] = NoOrder
    /\ quote' = [quote EXCEPT ![q].expired = TRUE]
    /\ UNCHANGED <<customer, order, ledger, review, case>>

-----------------------------------------------------------------------------
(* Orders and their review *)

create_order(q) ==
    /\ quote[q].status = "accepted" /\ ~quote[q].expired /\ MayTransact(CustomerOf[q])
    /\ order[q] = NoOrder
    /\ order' = [order EXCEPT ![q] = [status |-> "draft", rev |-> 1, exposure |-> {}]]
    /\ UNCHANGED <<customer, quote, ledger, review, case>>

submit_order(q) ==
    /\ order[q].status = "draft" /\ MayTransact(CustomerOf[q])
    /\ ApproverBeside({Buyer(q)})
    /\ ~HasOpenCase(q)
    /\ order' = [order EXCEPT ![q] = Moved(@, "pending_review")]
    /\ review' = [review EXCEPT ![q] = [status |-> "pending", orderRev |-> order'[q].rev]]
    /\ UNCHANGED <<customer, quote, ledger, case>>

(* decide_order_review: what approval and rejection have in common *)
Decidable(q, actor) ==
    /\ order[q].status = "pending_review" /\ review[q].status = "pending"
    /\ Holds(actor, "approver") /\ actor # Buyer(q)
    /\ review[q].orderRev = order[q].rev
    /\ order[q].exposure = {}

approve_order(q, actor) ==
    /\ Decidable(q, actor) /\ MayTransact(CustomerOf[q])
    /\ order' = [order EXCEPT ![q] = Moved(@, "approved")]
    /\ review' = [review EXCEPT ![q].status = "approved"]
    /\ UNCHANGED <<customer, quote, ledger, case>>

(* A rejection asks nothing of the customer. *)
reject_order(q, actor) ==
    /\ Decidable(q, actor)
    /\ order' = [order EXCEPT ![q] = Moved(@, "review_rejected")]
    /\ review' = [review EXCEPT ![q].status = "rejected"]
    /\ UNCHANGED <<customer, quote, ledger, case>>

-----------------------------------------------------------------------------
(* The payment and fulfillment ledgers, written by whoever executes orders.    *)
(* Triggers freeze them (AgencyGuards).                                        *)

ledger_write(q, shown) ==
    /\ order[q].status # "none" /\ ~Frozen(q)
    /\ ledger' = [ledger EXCEPT ![q] = shown]
    /\ UNCHANGED <<customer, quote, order, review, case>>

-----------------------------------------------------------------------------
(* _settle_customer_transactions *)

QuoteToCancel(q) ==
    \/ quote[q].status \in {"draft", "offered"}
    \/ quote[q].status = "accepted" /\ order[q] = NoOrder

(* Mutant: an order under review gets a new revision as well. *)
SettledTouchingReview(o) ==
    IF o.status = "pending_review" THEN [o EXCEPT !.rev = @ + 1]
    ELSE IF o.status \in {"draft", "approved"} /\ o.exposure = {} THEN Moved(o, "cancelled")
    ELSE IF o.status \in {"draft", "approved", "processing", "failed"}
    THEN Moved(o, "cancellation_pending")
    ELSE o

(* Mutant: failed orders are left alone. *)
SettledButFailed(o) ==
    IF o.status \in {"draft", "approved"} /\ o.exposure = {} THEN Moved(o, "cancelled")
    ELSE IF o.status \in {"draft", "approved", "processing"} THEN Moved(o, "cancellation_pending")
    ELSE o

(* Decided by the order's own columns; the ledger is not looked at. *)
Settled(o) ==
    IF o.status \in {"draft", "approved"} /\ o.exposure = {} THEN Moved(o, "cancelled")
    ELSE IF o.status \in {"draft", "approved", "processing", "failed"}
    THEN Moved(o, "cancellation_pending")
    ELSE o

SettleTransactions(k) ==
    /\ quote' = [q \in Quotes |->
                   IF CustomerOf[q] = k /\ QuoteToCancel(q)
                   THEN [quote[q] EXCEPT !.status = "cancelled"] ELSE quote[q]]
    /\ order' = [q \in Quotes |->
                   IF CustomerOf[q] = k THEN Settled(order[q]) ELSE order[q]]

-----------------------------------------------------------------------------
(* The customer relationship *)

(* Mutant: an unresolved review does not stand in the way. *)
activate_customer_early(k) ==
    /\ customer[k].status # "active" /\ customer[k].granted
    /\ customer' = [customer EXCEPT ![k].status = "active"]
    /\ UNCHANGED <<quote, order, ledger, review, case>>

activate_customer(k) ==
    /\ customer[k].status # "active" /\ customer[k].granted
    /\ \A q \in Quotes : CustomerOf[q] = k => order[q].status # "pending_review"
    /\ customer' = [customer EXCEPT ![k].status = "active"]
    /\ UNCHANGED <<quote, order, ledger, review, case>>

(* By staff, or by the customer, who withdraws the consent with it. *)
deactivate_customer(k) ==
    /\ customer[k].status # "inactive"
    /\ \E granted \in {customer[k].granted, FALSE} :
          customer' = [customer EXCEPT ![k] = [status |-> "inactive", granted |-> granted]]
    /\ SettleTransactions(k)
    /\ UNCHANGED <<ledger, review, case>>

(* record_customer_consent: `grant` changes nothing else *)
grant_consent(k) ==
    /\ ~customer[k].granted
    /\ customer' = [customer EXCEPT ![k].granted = TRUE]
    /\ UNCHANGED <<quote, order, ledger, review, case>>

(* record_customer_consent: `deny` or `revoke` ends an active relationship *)
withdraw_consent(k) ==
    /\ customer[k].granted
    /\ \/ /\ customer[k].status = "active"
          /\ customer' = [customer EXCEPT ![k] = [status |-> "inactive", granted |-> FALSE]]
          /\ SettleTransactions(k)
       \/ /\ customer[k].status # "active"
          /\ customer' = [customer EXCEPT ![k].granted = FALSE]
          /\ UNCHANGED <<quote, order>>
    /\ UNCHANGED <<ledger, review, case>>

-----------------------------------------------------------------------------
OrdersNext ==
    \/ \E q \in Quotes :
         \/ create_quote(q) \/ issue_quote(q) \/ accept_quote(q) \/ QuoteExpires(q)
         \/ create_order(q) \/ submit_order(q)
         \/ \E actor \in People : approve_order(q, actor) \/ reject_order(q, actor)
         \/ \E shown \in SUBSET ActionTypes : ledger_write(q, shown)
    \/ \E k \in Customers :
         \/ activate_customer(k) \/ deactivate_customer(k)
         \/ grant_consent(k) \/ withdraw_consent(k)
=============================================================================
