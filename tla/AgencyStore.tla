----------------------------- MODULE AgencyStore -----------------------------
(* The tables one branch of a travel agency works on (app/models/agency_*.py) *)
(* and what the services of app/agency read from them.                        *)
(*                                                                            *)
(* Every command is one database transaction that begins by locking the       *)
(* customer's row FOR UPDATE (transaction_locking.py), so commands about one    *)
(* customer are serialised and each of them is a single step here.  The branch *)
(* and the agency are active throughout.  An order is named by its quote:      *)
(* create_order makes at most one per quote.                                   *)
EXTENDS Naturals, Sequences

CONSTANTS
    Quotes, Customers, People,
    Nobody,         \* no person
    CustomerOf,     \* the customer each quote is for
    UserOf,         \* the account linked to each customer
    Roles,          \* the roles each person holds in the branch, now or later
    OldOrders,      \* quotes whose order may be older than the order trigger
    MaxRecords      \* bound: manual results recorded in one case

RoleNames == {"manager", "approver", "booking_operator", "finance", "auditor"}

ASSUME AgencyAssumption ==
    /\ Nobody \notin People
    /\ CustomerOf \in [Quotes -> Customers]
    /\ UserOf \in [Customers -> People]
    /\ Roles \in [People -> SUBSET RoleNames]
    /\ OldOrders \subseteq Quotes
    /\ MaxRecords \in Nat

VARIABLES
    customer,   \* agency_customer: business status, and consent granted or not
    quote,      \* agency_quote: status, and whether valid_until has passed
    order,      \* agency_order: status, revision, and the exposure its payment_status,
                \* fulfillment_status and external_action_enabled columns show
    ledger,     \* what payment_attempt and fulfillment_record rows show for the order
    review,     \* agency_order_review: status, and the order revision it is bound to
    case        \* agency_order_cancellation_case: the order's latest, with its results

vars == <<customer, quote, order, ledger, review, case>>

-----------------------------------------------------------------------------
(* _REQUIRED_ACTIONS: what a person has to settle outside the platform *)
ActionTypes == {"supplier_cancel", "refund"}

CustomerStatus == {"prospect", "active", "inactive"}
QuoteStatus == {"none", "draft", "offered", "accepted", "cancelled"}
OldStatus == {"draft", "approved", "processing", "failed", "cancellation_pending",
              "manual_intervention"}
OrderStatus == OldStatus \union {"none", "pending_review", "review_rejected", "cancelled"}
ReviewStatus == {"none", "pending", "approved", "rejected"}
OpenStatus == {"approval_pending", "action_pending", "reconciliation_pending",
               "manual_intervention"}
CaseStatus == OpenStatus \union {"none", "rejected", "completed"}
Outcome == {"succeeded", "failed", "unknown"}
Reconciled == {"matched", "mismatched", "unverifiable"}

CustomerRow == [status : CustomerStatus, granted : BOOLEAN]
QuoteRow == [status : QuoteStatus, expired : BOOLEAN]
OrderRow == [status : OrderStatus, rev : Nat, exposure : SUBSET ActionTypes]
ReviewRow == [status : ReviewStatus, orderRev : Nat]

(* A compensation record together with its reconciliation, if it has one. *)
ResultRow == [action : ActionTypes, outcome : Outcome, by : People,
              recon : Reconciled \union {"none"}, reconBy : People \union {Nobody}]

CaseRow == [status : CaseStatus, orderRev : Nat, need : SUBSET ActionTypes,
            by : People \union {Nobody}, reviewer : People \union {Nobody},
            results : Seq(ResultRow)]

TypeOK ==
    /\ customer \in [Customers -> CustomerRow]
    /\ quote \in [Quotes -> QuoteRow]
    /\ order \in [Quotes -> OrderRow]
    /\ ledger \in [Quotes -> SUBSET ActionTypes]
    /\ review \in [Quotes -> ReviewRow]
    /\ case \in [Quotes -> CaseRow]

NoQuote == [status |-> "none", expired |-> FALSE]
NoOrder == [status |-> "none", rev |-> 0, exposure |-> {}]
NoReview == [status |-> "none", orderRev |-> 0]
NoCase == [status |-> "none", orderRev |-> 0, need |-> {}, by |-> Nobody,
           reviewer |-> Nobody, results |-> <<>>]

(* Rows the order trigger of 0004 no longer lets anybody make: projections that *)
(* show exposure, and statuses no service sets.                               *)
OldRow == [status : OldStatus, rev : {1}, exposure : SUBSET ActionTypes]

Init ==
    /\ customer \in [Customers -> {[status |-> "prospect", granted |-> FALSE],
                                   [status |-> "active", granted |-> TRUE]}]
    /\ order \in [Quotes -> {NoOrder} \union OldRow]
    /\ \A q \in Quotes : order[q] # NoOrder => q \in OldOrders
    /\ quote = [q \in Quotes |-> IF order[q] = NoOrder THEN NoQuote
                                 ELSE [status |-> "accepted", expired |-> FALSE]]
    /\ ledger = [q \in Quotes |-> {}]
    /\ review = [q \in Quotes |-> NoReview]
    /\ case = [q \in Quotes |-> NoCase]

-----------------------------------------------------------------------------
Buyer(q) == UserOf[CustomerOf[q]]

Holds(p, role) == role \in Roles[p]

(* _get_transaction_customer *)
MayTransact(k) == customer[k].status = "active" /\ customer[k].granted

(* _ensure_branch_has_active_approver *)
ApproverBeside(excluded) == \E p \in People \ excluded : Holds(p, "approver")

HasOpenCase(q) == case[q].status \in OpenStatus

(* Every update of an order row advances its version column by one. *)
Moved(o, s) == [status |-> s, rev |-> o.rev + 1, exposure |-> o.exposure]

(* _derive_required_actions: whatever the order's columns or its ledger rows    *)
(* show has to be settled by a person; an order in trouble that shows nothing   *)
(* is assumed to need the supplier.                                           *)
RequiredActions(q) ==
    LET shown == order[q].exposure \union ledger[q] IN
    IF shown = {} /\ order[q].status \in {"processing", "failed", "cancellation_pending",
                                          "manual_intervention"}
    THEN {"supplier_cancel"}
    ELSE shown

-----------------------------------------------------------------------------
(* The results of a case *)

(* Positions of the results for action a, the last of which counts. *)
ResultsFor(results, a) == {i \in DOMAIN results : results[i].action = a}

Latest(results, a) ==
    CHOOSE i \in ResultsFor(results, a) : \A j \in ResultsFor(results, a) : j <= i

Succeeded(results, a) ==
    /\ ResultsFor(results, a) # {}
    /\ results[Latest(results, a)].outcome = "succeeded"
=============================================================================
