------------------------------ MODULE StepTools ------------------------------
(* Which tools a model call is offered (core/middleware.py): those of the step  *)
(* the call runs in, those the user's words open or force, less those the gates *)
(* of the report and the agency's whitelist take away.  Only the tools that     *)
(* change the plan are modelled, and calls of one turn are told apart only by   *)
(* what the words ask for: a tool the middleware offers once a turn is offered  *)
(* again here as in the next turn.                                              *)
EXTENDS TravelState

(* What the middleware makes of the latest words: what they ask for, and the    *)
(* planning mode they pick.  A "followup" is a call after a tool's result.      *)
Texts == [wants : {"other", "satisfied", "report", "itinerary", "budget", "draft",
                   "record", "followup"},
          picks : Modes \cup {None}]

(* _agency_step_for_request, _workflow_step_for_request *)
StepFor(text) ==
    IF ~AgencyWorkflow THEN step
    ELSE IF text.wants \in {"satisfied", "report"} THEN "agency_report"
    ELSE IF text.wants = "followup" /\ agencyStep = "agency_product_match"
         THEN "agency_plan_draft"
    ELSE agencyStep

(* AGENCY_STEPS, less the one for changes to a draft: no step leads there. *)
AgencySteps == {"agency_requirement", "agency_product_match", "agency_plan_draft",
                "agency_report"}

(* "requires" of the step configuration: a call in a step whose fields are      *)
(* missing raises, and its turn ends.                                           *)
Requires ==
    [s \in PlanningSteps \cup AgencySteps |->
        CASE s \in Before("budget_summarization") -> Before(s)
          [] s = "budget_summarization" -> {"requirement_collection", "itinerary_generation"}
          [] s = "order_generation" -> {"requirement_collection", "itinerary_generation",
                                        "budget_summarization"}
          [] s = "agency_requirement" -> {}
          [] OTHER -> {"requirement_collection"}]

Runs(text) == \A s \in Requires[StepFor(text)] : Has(s)

-----------------------------------------------------------------------------
(* "tools" of the step configuration; "go_back" stands for the go_back_to_*     *)
(* tools of a step, one for each step before it.                                *)
StepToolsOf(s) ==
    CASE s = "requirement_collection" -> {"record_requirement", "set_planning_mode",
                                          "confirm_planning_mode"}
      [] s = "destination_recommendation" -> {"select_destination", "go_back",
                                              "generate_visual_journey"}
      [] s = "transport_planning" -> {"select_transport", "go_back"}
      [] s = "accommodation_planning" -> {"select_accommodation", "go_back"}
      [] s = "food_planning" -> {"select_food", "go_back"}
      [] s = "itinerary_generation" -> {"generate_itinerary", "go_back"}
      [] s = "budget_summarization" -> {"summarize_budget", "go_back", "go_back_to_step"}
      [] s = "order_generation" -> {"generate_order", "go_back", "go_back_to_step"}
      [] s = "agency_requirement" -> {"record_requirement", "confirm_planning_mode"}
      [] s = "agency_product_match" -> {}
      [] s = "agency_plan_draft" -> {"generate_itinerary", "summarize_budget"}
      [] s = "agency_report" -> {"generate_itinerary", "summarize_budget", "generate_order"}

(* AGENCY_PLAN_ALLOWED_TOOL_NAMES *)
AgencyAllowed == {"record_requirement", "set_planning_mode", "confirm_planning_mode",
                  "generate_itinerary", "summarize_budget", "generate_order"}

(* resolve_planning_mode: the words decide, or else the state. *)
Decision(text) == IF text.picks # None THEN text.picks ELSE StateMode

NeedsConfirmation(text) == text.picks = None /\ StateMode # None /\ ~confirmed

(* _should_force_planning_mode_confirmation *)
MustConfirm(text) ==
    /\ StepFor(text) = "requirement_collection"
    /\ text.picks # None
    /\ ~(confirmed /\ (IF workflow # None THEN workflow ELSE tendency) = text.picks)

-----------------------------------------------------------------------------
(* _can_generate_final_report *)
ReportReady ==
    /\ Has("requirement_collection") /\ Target # None /\ Requirement.known
    /\ \/ AgencyWorkflow
       \/ /\ Has("transport_planning") /\ Has("accommodation_planning")
          /\ CompleteItinerary /\ Has("budget_summarization")

(* _agency_report_next_tool *)
AgencyNext ==
    IF ~CompleteItinerary THEN "generate_itinerary"
    ELSE IF ~Has("budget_summarization") THEN "summarize_budget"
    ELSE "generate_order"

(* _has_itinerary_prerequisites *)
ItineraryReady ==
    /\ Has("requirement_collection") /\ Target # None
    /\ \/ AgencyWorkflow
       \/ Has("transport_planning") /\ Has("accommodation_planning")

(* _progress_tool_for_explicit_request: the one tool the words force, if any *)
ReportTools ==
    IF ReportReady THEN {IF AgencyWorkflow THEN AgencyNext ELSE "generate_order"}
    ELSE IF ~Has("requirement_collection") \/ ~Requirement.known THEN {}
    ELSE IF ~Has("itinerary_generation")
         THEN IF ItineraryReady THEN {"generate_itinerary"} ELSE {}
    ELSE IF ~Has("budget_summarization") THEN {"summarize_budget"}
    ELSE {}

ForcedTools(text) ==
    CASE text.wants = "report" -> ReportTools
      [] text.wants = "itinerary" /\ ItineraryReady -> {"generate_itinerary"}
      [] text.wants = "budget" /\ Has("itinerary_generation") -> {"summarize_budget"}
      [] text.wants = "draft" /\ Target # None -> {"generate_visual_journey"}
      [] OTHER -> {}

(* The tools of the step, and those the words and the mode open. *)
OpenTools(text) ==
    IF NeedsConfirmation(text) THEN {}
    ELSE StepToolsOf(StepFor(text))
         \cup (IF Decision(text) # None
               THEN {"set_planning_mode", "confirm_planning_mode"} ELSE {})
         \cup (IF text.wants = "record" THEN {"record_requirement"} ELSE {})

(* Mutant: the budget waits for an itinerary of all days. *)
GatedUntilComplete ==
    IF ~CompleteItinerary THEN {"summarize_budget", "generate_order"}
    ELSE IF ReportReady /\ (AgencyWorkflow => AgencyNext = "generate_order") THEN {}
    ELSE {"generate_order"}

(* The gates of the last stage: no budget without an itinerary, no order before *)
(* everything a report needs is there.                                          *)
Gated ==
    IF ~Has("itinerary_generation") THEN {"summarize_budget", "generate_order"}
    ELSE IF ReportReady /\ (AgencyWorkflow => AgencyNext = "generate_order") THEN {}
    ELSE {"generate_order"}

(* awrap_model_call *)
Offered(text) ==
    LET narrowed == IF ForcedTools(text) # {} THEN ForcedTools(text)
                    ELSE IF MustConfirm(text) THEN {"confirm_planning_mode"}
                    ELSE OpenTools(text)
        allowed == IF AgencyWorkflow /\ Decision(text) # "free"
                   THEN narrowed \cap AgencyAllowed ELSE narrowed
    IN  IF Runs(text) THEN allowed \ Gated ELSE {}

(* The tools that some words of the user can get the model to use now. *)
Usable == UNION {Offered(text) : text \in Texts}
=============================================================================
