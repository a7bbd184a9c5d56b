--------------------------- MODULE WorkflowProgress ---------------------------
(* The way to a report: the workflow of a user who at some point settles on a   *)
(* trip, wants its report, answers what is asked, and whose model uses the tool *)
(* of the step it is in.  Until then anything Workflow allows may happen, and   *)
(* after the report the user may start over.                                    *)
EXTENDS Workflow

VARIABLE settled    \* the user wants the report now

(* What is still to be settled before a step can be taken: the mode, when the   *)
(* middleware offers no tool without it, and the facts a report needs, among    *)
(* them a requirement that a rollback cleared under the agency's workflow.      *)
ModeOpen == StateMode # None /\ ~confirmed

FactsOpen ==
    IF Has("requirement_collection") THEN ~Requirement.known \/ Target = None
    ELSE AgencyWorkflow /\ agencyStep # "agency_requirement"

(* An itinerary that the requirement has outgrown is refitted when the user asks *)
(* for the budget again.                                                        *)
Words == [wants |-> CASE AgencyWorkflow /\ Has("requirement_collection") -> "report"
                      [] ~AgencyWorkflow /\ step = "order_generation"
                         /\ ~CompleteItinerary -> "budget"
                      [] OTHER -> "other",
          picks |-> None]

ForwardTool ==
    IF AgencyWorkflow
    THEN IF Has("requirement_collection") THEN AgencyNext ELSE "record_requirement"
    ELSE CASE step = "requirement_collection" -> "record_requirement"
           [] step = "destination_recommendation" -> "select_destination"
           [] step = "transport_planning" -> "select_transport"
           [] step = "accommodation_planning" -> "select_accommodation"
           [] step = "food_planning" -> "select_food"
           [] step = "itinerary_generation" -> "generate_itinerary"
           [] step = "budget_summarization" -> "summarize_budget"
           [] OTHER -> IF CompleteItinerary THEN "generate_order" ELSE "summarize_budget"

ConfirmMode ==
    /\ ModeOpen
    /\ "confirm_planning_mode" \in Offered([wants |-> "other", picks |-> StateMode])
    /\ confirm_planning_mode(StateMode)

AnswerFacts ==
    /\ FactsOpen
    /\ \E r \in RequirementRow : r.known /\ r.wish # None /\ SyncFacts(r)

StepForward ==
    /\ ~ModeOpen /\ ~FactsOpen
    /\ ForwardTool \in Offered(Words)
    /\ ChoiceCall(ForwardTool) \/ ReportCall(ForwardTool) \/ RecordCall(ForwardTool)

Forward == ~Has("order_generation") /\ (ConfirmMode \/ AnswerFacts \/ StepForward)

-----------------------------------------------------------------------------
Wander == ~settled /\ Next /\ UNCHANGED settled

Settle == ~settled /\ settled' = TRUE /\ UNCHANGED vars

GoForward == settled /\ Forward /\ UNCHANGED settled

StartOver == settled /\ Has("order_generation") /\ settled' = FALSE /\ UNCHANGED vars

ProgressNext == Wander \/ Settle \/ GoForward \/ StartOver

ProgressInit == Init /\ settled = FALSE

ProgressSpec ==
    /\ ProgressInit
    /\ [][ProgressNext]_<<vars, settled>>
    /\ WF_<<vars, settled>>(GoForward)

(* A user who has settled gets a report, whatever came before: no sequence of   *)
(* rollbacks, changes of the mode and half-made plans leaves the workflow where *)
(* the middleware offers no tool that leads on.                                 *)
PlanFinishes == settled ~> Has("order_generation")
=============================================================================
