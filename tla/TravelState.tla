----------------------------- MODULE TravelState -----------------------------
(* What a conversation has decided so far: TravelState in the checkpointer      *)
(* (core/state.py) and the two workflows of core/workflow.py.  The fields that  *)
(* STEP_STATE_FIELDS assigns to a planning step are one entry of `plan`.        *)
EXTENDS Integers, FiniteSets

CONSTANTS Destinations, MaxDays, None

Days == 1..MaxDays
ASSUME DaysAssumption == MaxDays \in Nat \ {0}

VARIABLES step,        \* current_step: the step of the free workflow
          workflow,    \* active_workflow
          tendency,    \* planning_mode
          confirmed,   \* planning_mode_confirmed
          agencyStep,  \* agency_step: the step of the agency workflow
          plan,        \* what each planning step has produced
          journey,     \* journey_plan: the destination of the map draft
          trips        \* history: does the plan tell of one trip

vars == <<step, workflow, tendency, confirmed, agencyStep, plan, journey, trips>>
mode == <<workflow, tendency, confirmed, agencyStep>>

-----------------------------------------------------------------------------
(* PLANNING_STEPS, in their order *)
Rank == [requirement_collection |-> 1, destination_recommendation |-> 2,
         transport_planning |-> 3, accommodation_planning |-> 4, food_planning |-> 5,
         itinerary_generation |-> 6, budget_summarization |-> 7, order_generation |-> 8]

PlanningSteps == DOMAIN Rank
RollbackTargets == PlanningSteps \ {"order_generation"}
Before(s) == {t \in PlanningSteps : Rank[t] < Rank[s]}

Modes == {"free", "agency"}

(* user_requirement: where to, for how long, and whether city and date of the  *)
(* departure are confirmed.                                                     *)
RequirementRow == [wish : Destinations \cup {None}, days : Days, known : BOOLEAN]

(* An itinerary, or a budget, is made for a destination and a number of days. *)
Trip == [to : Destinations, days : Days]

Produced(s) ==
    CASE s = "requirement_collection" -> RequirementRow
      [] s = "destination_recommendation" -> Destinations
      [] s \in {"itinerary_generation", "budget_summarization"} -> Trip
      [] OTHER -> {"chosen"}

(* None stands for a value that is not there. *)
ASSUME NoneAssumption ==
    /\ None \notin Destinations /\ None \notin {"chosen"} \cup Modes
    /\ None \notin RequirementRow /\ None \notin Trip

TypeOK ==
    /\ step \in PlanningSteps
    /\ workflow \in Modes \cup {None}
    /\ tendency \in Modes \cup {None}
    /\ confirmed \in BOOLEAN
    /\ agencyStep \in {"agency_requirement", "agency_product_match", "agency_report"}
    /\ DOMAIN plan = PlanningSteps
    /\ \A s \in PlanningSteps : plan[s] \in Produced(s) \cup {None}
    /\ journey \in Destinations \cup {None}
    /\ trips \in {"one", "old draft", "mixed"}

-----------------------------------------------------------------------------
Has(s) == plan[s] # None
Requirement == plan["requirement_collection"]
Chosen == plan["destination_recommendation"]
Itinerary == plan["itinerary_generation"]
Budget == plan["budget_summarization"]

(* The destination chosen, or else the one wished for. *)
Target == IF Chosen # None THEN Chosen
          ELSE IF Requirement # None THEN Requirement.wish ELSE None

(* _state_planning_mode: what is confirmed, or else what the user tends to *)
StateMode == IF workflow = "agency" \/ (workflow = "free" /\ confirmed)
             THEN workflow ELSE tendency

(* _is_agency_plan_workflow *)
AgencyWorkflow == workflow = "agency" /\ confirmed

(* _has_complete_itinerary_for_report: every day of the trip is described. *)
CompleteItinerary ==
    Has("itinerary_generation") /\ Itinerary.days >= Requirement.days

Init ==
    /\ step = "requirement_collection"
    /\ workflow = None /\ tendency = None /\ confirmed = FALSE
    /\ agencyStep = "agency_requirement"
    /\ plan = [s \in PlanningSteps |-> None]
    /\ journey = None
    /\ trips = "one"
=============================================================================
