------------------------------- MODULE Workflow -------------------------------
(* The travel workflow of one conversation: model calls that use one offered    *)
(* tool each (parallel tool calls are off), and what the chat writes into the   *)
(* agent's state around them.  Turns of one conversation do not overlap         *)
(* (SessionLock), so each tool runs on the state its call was offered tools in. *)
(* A refused, invalid or repeated call changes nothing and is a stutter.        *)
EXTENDS StepTools

-----------------------------------------------------------------------------
(* What the tools write *)

SetMode(m, sure) ==
    /\ tendency' = m /\ confirmed' = sure

(* An itinerary meets a requirement it was not made for. *)
Revised == IF Has("itinerary_generation") THEN "mixed" ELSE trips

(* set_planning_mode_tool: a confirmed mode is not touched. *)
set_planning_mode(m) ==
    /\ ~confirmed
    /\ SetMode(m, FALSE)
    /\ UNCHANGED <<step, workflow, agencyStep, plan, journey, trips>>

(* confirm_planning_mode_tool *)
confirm_planning_mode(m) ==
    /\ workflow' = m /\ SetMode(m, TRUE)
    /\ agencyStep' = IF m = "agency" THEN agencyStep ELSE "agency_requirement"
    /\ UNCHANGED <<step, plan, journey, trips>>

(* The mode record_requirement_tool settles on is the agency's only when the    *)
(* state or the words say so.                                                   *)
AgencyAsked ==
    \/ StateMode = "agency"
    \/ \E text \in Texts : text.picks = "agency" /\ "record_requirement" \in Offered(text)

(* record_requirement_tool: nothing that was planned for an earlier requirement *)
(* is given up.                                                                 *)
record_requirement(r, m, sure, asked) ==
    /\ m = "agency" => asked
    /\ plan' = [plan EXCEPT !["requirement_collection"] = r]
    /\ workflow' = m /\ SetMode(m, sure)
    /\ step' = IF m = "agency" THEN "requirement_collection" ELSE "destination_recommendation"
    /\ agencyStep' = IF m = "agency" THEN "agency_product_match" ELSE "agency_requirement"
    /\ trips' = Revised
    /\ UNCHANGED journey

-----------------------------------------------------------------------------
(* The choices of the free workflow *)

Chooses(s, value, next) ==
    /\ plan' = [plan EXCEPT ![s] = value]
    /\ step' = next
    /\ UNCHANGED <<mode, journey, trips>>

(* select_destination_tool *)
select_destination(d) ==
    Chooses("destination_recommendation", d, "transport_planning")

(* select_transport_tool *)
select_transport ==
    Chooses("transport_planning", "chosen", "accommodation_planning")

(* select_accommodation_tool *)
select_accommodation ==
    Chooses("accommodation_planning", "chosen", "food_planning")

(* select_food_tool: a call that finds no lodging goes back for it. *)
select_food ==
    /\ plan' = IF Has("accommodation_planning")
               THEN [plan EXCEPT !["food_planning"] = "chosen"] ELSE plan
    /\ step' = IF Has("accommodation_planning")
               THEN "itinerary_generation" ELSE "accommodation_planning"
    /\ UNCHANGED <<mode, journey, trips>>

-----------------------------------------------------------------------------
(* From choices to a report *)

(* The destination generate_itinerary_tool works with: the agency takes the one *)
(* wished for when none was chosen, and a map draft can stand in for it.        *)
ItineraryTarget ==
    IF Chosen # None THEN Chosen
    ELSE IF StateMode = "agency" /\ Target # None THEN Target
    ELSE journey

(* The days are those of the map draft if there is one, whatever its destination. *)
DescribedPlace == IF journey # None THEN journey ELSE ItineraryTarget

(* Mutant: the itinerary is made for the wish, not for the choice. *)
WithItineraryOfWish ==
    [plan EXCEPT !["destination_recommendation"] = ItineraryTarget,
                 !["transport_planning"] = "chosen",
                 !["accommodation_planning"] = "chosen",
                 !["food_planning"] = "chosen",
                 !["itinerary_generation"] =
                     [to |-> IF journey # None THEN journey
                             ELSE IF Requirement.wish # None THEN Requirement.wish
                             ELSE ItineraryTarget,
                      days |-> Requirement.days]]

WithItinerary ==
    [plan EXCEPT !["destination_recommendation"] = ItineraryTarget,
                 !["transport_planning"] = "chosen",
                 !["accommodation_planning"] = "chosen",
                 !["food_planning"] = "chosen",
                 !["itinerary_generation"] = [to |-> DescribedPlace, days |-> Requirement.days]]

MetDraft == IF DescribedPlace = ItineraryTarget \/ trips = "old draft"
            THEN trips ELSE "mixed"

(* generate_itinerary_tool: what the agency's customer did not choose is chosen *)
(* for them.  An old budget stays.                                              *)
generate_itinerary ==
    /\ Has("requirement_collection") /\ ItineraryTarget # None
    /\ Has("transport_planning") \/ StateMode = "agency"
    /\ plan' = WithItinerary
    /\ step' = "budget_summarization"
    /\ trips' = MetDraft
    /\ UNCHANGED <<mode, journey>>

(* summarize_budget_tool cuts or fills the itinerary to the days of the trip. *)
summarize_budget ==
    /\ Has("requirement_collection") /\ Has("itinerary_generation")
    /\ LET trip == [to |-> Itinerary.to, days |-> Requirement.days]
       IN  plan' = [plan EXCEPT !["itinerary_generation"] = trip,
                                !["budget_summarization"] = trip]
    /\ step' = "order_generation"
    /\ UNCHANGED <<mode, journey, trips>>

(* generate_order_tool: the agency makes up what is missing.  The itinerary is   *)
(* refitted, a budget that is there stays.                                      *)
ReportComplete ==
    /\ Has("requirement_collection") /\ Target # None
    /\ StateMode # "agency" => Has("transport_planning") /\ Has("accommodation_planning")
                                /\ Has("itinerary_generation") /\ Has("budget_summarization")

WithReport ==
    LET to == IF Has("itinerary_generation") THEN Itinerary.to ELSE Target
        trip == [to |-> to, days |-> Requirement.days]
    IN  [plan EXCEPT !["destination_recommendation"] = Target,
                     !["accommodation_planning"] = "chosen",
                     !["itinerary_generation"] = trip,
                     !["budget_summarization"] =
                         IF Has("budget_summarization") THEN Budget ELSE trip,
                     !["order_generation"] = "chosen"]

generate_order ==
    /\ ReportComplete
    /\ plan' = WithReport
    /\ step' = "order_generation"
    /\ agencyStep' = IF StateMode = "agency" THEN "agency_report" ELSE "agency_requirement"
    /\ UNCHANGED <<workflow, tendency, confirmed, journey, trips>>

-----------------------------------------------------------------------------
(* Going back, and drafts *)

(* Mutant: only what the target step produced is cleared. *)
ClearedOnlyTarget(target) == [plan EXCEPT ![target] = None]

Cleared(target) == [s \in PlanningSteps |-> IF Rank[s] < Rank[target] THEN plan[s] ELSE None]

(* A rollback that clears the chosen destination leaves its map draft behind. *)
AfterClearing(target) ==
    IF Rank[target] <= Rank["destination_recommendation"]
    THEN IF journey # None THEN "old draft" ELSE "one"
    ELSE trips

(* Mutant: the data is cleared and the step stays. *)
GoBackStaying(target, clear) ==
    /\ plan' = IF clear THEN Cleared(target) ELSE plan
    /\ trips' = IF clear THEN AfterClearing(target) ELSE "mixed"
    /\ UNCHANGED <<mode, step, journey>>

(* go_back_to_step, go_back_to_requirement ... go_back_to_budget *)
GoBack(target, clear) ==
    /\ step' = target
    /\ plan' = IF clear THEN Cleared(target) ELSE plan
    /\ trips' = IF clear THEN AfterClearing(target) ELSE "mixed"
    /\ UNCHANGED <<mode, journey>>

(* generate_visual_journey_tool *)
generate_visual_journey(d) ==
    /\ journey' = d
    /\ plan' = [plan EXCEPT !["destination_recommendation"] = IF Chosen # None THEN Chosen ELSE d]
    /\ trips' = IF trips = "old draft" /\ ~Has("itinerary_generation") THEN "one" ELSE trips
    /\ UNCHANGED <<mode, step>>

-----------------------------------------------------------------------------
(* What the chat writes before a turn (api/v1/chat.py) *)

Untouched == workflow = None /\ tendency = None /\ \A s \in PlanningSteps : ~Has(s)

(* _sync_fast_facts_to_initialized_agent_state: facts of the latest words are   *)
(* merged into the requirement, which exists afterwards; the rest stays.        *)
SyncFacts(r) ==
    /\ Has("requirement_collection") =>
         /\ r.wish # None \/ Requirement.wish = None
         /\ r.known \/ ~Requirement.known
    /\ plan' = [plan EXCEPT !["requirement_collection"] = r]
    /\ trips' = Revised
    /\ UNCHANGED <<mode, step, journey>>

(* _fast_split_state_seed for a first turn whose words pick the free workflow *)
SeedFree(r) ==
    /\ Untouched
    /\ plan' = [plan EXCEPT !["requirement_collection"] = r]
    /\ workflow' = "free" /\ SetMode("free", TRUE)
    /\ UNCHANGED <<step, agencyStep, journey, trips>>

(* _fast_split_state_seed for words that switch to the agency with every fact   *)
(* it needs                                                                     *)
SeedAgency(r) ==
    /\ r.known /\ r.wish # None
    /\ plan' = [plan EXCEPT !["requirement_collection"] = r]
    /\ workflow' = "agency" /\ SetMode("agency", TRUE)
    /\ step' = "requirement_collection" /\ agencyStep' = "agency_product_match"
    /\ trips' = Revised
    /\ UNCHANGED journey

-----------------------------------------------------------------------------
ModeCall(tool) ==
    \E m \in Modes :
        \/ tool = "set_planning_mode" /\ set_planning_mode(m)
        \/ tool = "confirm_planning_mode" /\ confirm_planning_mode(m)

RecordCall(tool) ==
    /\ tool = "record_requirement"
    /\ \E asked \in {AgencyAsked}, m \in Modes, sure \in BOOLEAN, r \in RequirementRow :
            record_requirement(r, m, sure, asked)

ChoiceCall(tool) ==
    \/ tool = "select_destination" /\ \E d \in Destinations : select_destination(d)
    \/ tool = "select_transport" /\ select_transport
    \/ tool = "select_accommodation" /\ select_accommodation
    \/ tool = "select_food" /\ select_food

ReportCall(tool) ==
    \/ tool = "generate_itinerary" /\ generate_itinerary
    \/ tool = "summarize_budget" /\ summarize_budget
    \/ tool = "generate_order" /\ generate_order

BackCall(tool) ==
    \/ tool = "go_back" /\ \E target \in Before(step) : GoBack(target, TRUE)
    \/ tool = "go_back_to_step" /\ \E target \in RollbackTargets, clear \in BOOLEAN :
                                        GoBack(target, clear)

DraftCall(tool) ==
    tool = "generate_visual_journey" /\ \E d \in Destinations : generate_visual_journey(d)

ModelCall ==
    \E tool \in Usable :
        \/ ModeCall(tool) \/ RecordCall(tool) \/ ChoiceCall(tool)
        \/ ReportCall(tool) \/ BackCall(tool) \/ DraftCall(tool)

ChatWrites == \E r \in RequirementRow : SyncFacts(r) \/ SeedFree(r) \/ SeedAgency(r)

Next == ModelCall \/ ChatWrites

Spec == Init /\ [][Next]_vars

-----------------------------------------------------------------------------
(* Nothing is planned on premises that are gone: what a planning step has       *)
(* produced stands on a product of every step before it, through rollbacks,     *)
(* changes of the workflow and what the agency chooses for its customer         *)
(* (STEP_STATE_FIELDS and the gates of the middleware).                         *)
DerivedNeedsPremises ==
    \A s \in PlanningSteps : Has(s) => \A t \in Before(s) : Has(t)

(* No turn of the free workflow dies on a missing field: the step a call runs   *)
(* in finds what it requires (core/middleware.py:2565).  The agency's turns can *)
(* miss the requirement.                                                        *)
StepsHaveWhatTheyRequire ==
    ~AgencyWorkflow => \A text \in Texts : Runs(text)

(* The plan tells of one trip: itinerary and budget are made for the chosen      *)
(* destination and for the days the user asked for, unless a rollback was told  *)
(* to keep data, the requirement changed under an itinerary, or a map draft of   *)
(* another destination was used.                                                *)
OneTrip ==
    trips = "one" /\ Has("itinerary_generation") =>
        /\ Itinerary = [to |-> Chosen, days |-> Requirement.days]
        /\ Has("budget_summarization") => Budget = Itinerary

(* docs/架构与流程/state-schema-contract.md:107: a rollback clears what the target  *)
(* step and the later ones produced, "避免旧字段污染后续报告" (so that old fields do  *)
(* not get into later reports).                                                 *)
OldTripStaysOutOfReports ==
    Has("order_generation") /\ trips # "mixed" => Itinerary.to = Chosen
=============================================================================
