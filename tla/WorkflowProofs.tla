---------------------------- MODULE WorkflowProofs ----------------------------
(* Theorems about Workflow, for any destinations and any length of a trip. *)
EXTENDS Workflow, TLAPS

-----------------------------------------------------------------------------
(* The order of the steps *)

LEMMA StepNames ==
    PlanningSteps = {"requirement_collection", "destination_recommendation",
                     "transport_planning", "accommodation_planning", "food_planning",
                     "itinerary_generation", "budget_summarization", "order_generation"}
BY DEF PlanningSteps, Rank

LEMMA Ranks ==
    /\ Rank["requirement_collection"] = 1 /\ Rank["destination_recommendation"] = 2
    /\ Rank["transport_planning"] = 3 /\ Rank["accommodation_planning"] = 4
    /\ Rank["food_planning"] = 5 /\ Rank["itinerary_generation"] = 6
    /\ Rank["budget_summarization"] = 7 /\ Rank["order_generation"] = 8
BY DEF Rank

LEMMA RankOrders ==
    ASSUME NEW s \in PlanningSteps, NEW t \in PlanningSteps, NEW u \in PlanningSteps
    PROVE  /\ Rank[s] \in 1..8
           /\ t \in Before(s) <=> Rank[t] < Rank[s]
           /\ t \in Before(s) /\ u \in Before(t) => u \in Before(s)
BY StepNames, Ranks DEF Before

LEMMA Premises ==
    /\ Before("requirement_collection") = {}
    /\ Before("destination_recommendation") = {"requirement_collection"}
    /\ Before("itinerary_generation") =
           {"requirement_collection", "destination_recommendation", "transport_planning",
            "accommodation_planning", "food_planning"}
    /\ Before("budget_summarization") =
           Before("itinerary_generation") \cup {"itinerary_generation"}
    /\ Before("order_generation") =
           Before("budget_summarization") \cup {"budget_summarization"}
BY StepNames, Ranks DEF Before

-----------------------------------------------------------------------------
(* The gates of the middleware *)

LEMMA Requirements ==
    /\ \A s \in Before("budget_summarization") : Requires[s] = Before(s)
    /\ Requires["budget_summarization"] = {"requirement_collection", "itinerary_generation"}
    /\ Requires["order_generation"] = {"requirement_collection", "itinerary_generation",
                                      "budget_summarization"}
BY StepNames, Premises DEF Requires

ChoiceTools == {"select_destination", "select_transport", "select_accommodation", "select_food"}
BackTools == {"go_back", "go_back_to_step"}

LEMMA StepForType ==
    ASSUME TypeOK, NEW text \in Texts
    PROVE  IF AgencyWorkflow THEN StepFor(text) \in AgencySteps
           ELSE StepFor(text) = step /\ step \in PlanningSteps
BY DEF StepFor, TypeOK, AgencySteps

(* A choice and a rollback are offered by the current step of the free workflow *)
(* only, and that step has what it requires.                                    *)
LEMMA ToolOfStep ==
    ASSUME TypeOK, NEW tool \in ChoiceTools \cup BackTools, tool \in Usable
    PROVE  /\ tool \in StepToolsOf(step)
           /\ \A s \in Requires[step] : Has(s)
<1>1. PICK text \in Texts : tool \in Offered(text)
  BY DEF Usable
<1>2. Runs(text)
  BY <1>1 DEF Offered
<1>3. ForcedTools(text) \subseteq {"generate_itinerary", "summarize_budget",
                                   "generate_order", "generate_visual_journey"}
  BY DEF ForcedTools, ReportTools, AgencyNext
<1>4. tool \in OpenTools(text)
  BY <1>1, <1>3 DEF Offered, ChoiceTools, BackTools
<1>5. tool \in StepToolsOf(StepFor(text))
  BY <1>4 DEF OpenTools, ChoiceTools, BackTools
<1>6. StepFor(text) = step
  <2>1. CASE AgencyWorkflow
    <3>1. StepFor(text) \in AgencySteps
      BY <2>1, StepForType
    <3> QED BY <3>1, <1>5 DEF StepToolsOf, ChoiceTools, BackTools, AgencySteps
  <2>2. CASE ~AgencyWorkflow
    BY <2>2, StepForType
  <2> QED BY <2>1, <2>2
<1> QED BY <1>2, <1>5, <1>6 DEF Runs

(* The report is offered when itinerary and budget are there. *)
LEMMA ReportOffered ==
    ASSUME "generate_order" \in Usable
    PROVE  Has("requirement_collection") /\ Has("itinerary_generation")
           /\ Has("budget_summarization")
<1>1. PICK text \in Texts : "generate_order" \in Offered(text)
  BY DEF Usable
<1>2. "generate_order" \notin Gated
  BY <1>1 DEF Offered
<1> QED BY <1>2 DEF Gated, ReportReady, AgencyNext

(* A map draft is offered when there is a requirement or a chosen destination. *)
LEMMA DraftOffered ==
    ASSUME TypeOK, "generate_visual_journey" \in Usable
    PROVE  Has("requirement_collection") \/ Chosen # None
<1>1. PICK text \in Texts : "generate_visual_journey" \in Offered(text)
  BY DEF Usable
<1>2. CASE "generate_visual_journey" \in ForcedTools(text)
  BY <1>2 DEF ForcedTools, ReportTools, AgencyNext, Target, Has, Requirement, Chosen
<1>3. CASE "generate_visual_journey" \notin ForcedTools(text)
  <2>1. "generate_visual_journey" \in StepToolsOf(StepFor(text)) /\ Runs(text)
    BY <1>1, <1>3 DEF Offered, OpenTools
  <2>2. StepFor(text) = "destination_recommendation"
    BY <2>1, StepForType, StepNames DEF StepToolsOf, AgencySteps
  <2> QED BY Requirements, <2>1, <2>2, Premises, StepNames DEF Runs
<1> QED BY <1>2, <1>3

-----------------------------------------------------------------------------
(* The inductive invariant: premises and requirements hold each other up.  A    *)
(* choice keeps the premises because its step has what it requires, and a step  *)
(* reached with a product finds everything before that product.                 *)

StepIsReady == \A s \in Requires[step] : Has(s)

StepInv == TypeOK /\ DerivedNeedsPremises /\ StepIsReady

(* What the premises come to, step by step. *)
LEMMA WhatIsThere ==
    ASSUME StepInv
    PROVE  /\ Chosen # None => Has("requirement_collection")
           /\ Has("itinerary_generation") =>
                  \A s \in Before("itinerary_generation") : Has(s)
           /\ step = "destination_recommendation" => Has("requirement_collection")
           /\ step \in {"budget_summarization", "order_generation"} =>
                  \A s \in Before("budget_summarization") : Has(s)
           /\ step = "order_generation" => \A s \in Before("order_generation") : Has(s)
<1> USE DEF StepInv
<1>1. Chosen # None => Has("requirement_collection")
  BY StepNames, Premises DEF DerivedNeedsPremises, Chosen, Has
<1>2. Has("itinerary_generation") => \A s \in Before("itinerary_generation") : Has(s)
  BY StepNames DEF DerivedNeedsPremises
<1>3. step = "destination_recommendation" => Has("requirement_collection")
  BY Requirements, StepNames, Premises DEF StepIsReady
<1>4. step \in {"budget_summarization", "order_generation"} => Has("itinerary_generation")
  BY Requirements, StepNames DEF StepIsReady
<1>5. step = "order_generation" => Has("budget_summarization")
  BY Requirements, StepNames DEF StepIsReady
<1> QED BY <1>1, <1>2, <1>3, <1>4, <1>5, Premises

(* Products that are added with their premises keep the premises. *)
LEMMA AddedProducts ==
    ASSUME DerivedNeedsPremises, NEW added,
           \A t \in PlanningSteps : (plan'[t] # None) <=> (Has(t) \/ t \in added),
           \A t \in PlanningSteps \cap added : \A u \in Before(t) : Has(u) \/ u \in added
    PROVE  DerivedNeedsPremises'
BY DEF DerivedNeedsPremises, Has, Before

(* A step that was ready, or whose premises are all there, is ready. *)
LEMMA StillReady ==
    ASSUME StepIsReady, step' = step, step \in PlanningSteps,
           \A t \in PlanningSteps : Has(t) => plan'[t] # None
    PROVE  StepIsReady'
<1>1. Requires[step] \subseteq PlanningSteps
  <2>1. step \in Before("order_generation") \/ step = "order_generation"
    BY StepNames, Premises
  <2>2. CASE step \in Before("budget_summarization")
    BY <2>2, Requirements DEF Before
  <2>3. CASE step \in {"budget_summarization", "order_generation"}
    BY <2>3, Requirements, StepNames
  <2> QED BY <2>1, <2>2, <2>3, Premises
<1> QED BY <1>1 DEF StepIsReady, Has

LEMMA ReadyToGo ==
    ASSUME step' \in Before("order_generation"),
           \A t \in Before(step') : plan'[t] # None
    PROVE  StepIsReady'
BY Requirements, StepNames, Premises DEF StepIsReady, Has

LEMMA ProductTypes ==
    /\ Produced("requirement_collection") = RequirementRow
    /\ Produced("destination_recommendation") = Destinations
    /\ Produced("itinerary_generation") = Trip
    /\ Produced("budget_summarization") = Trip
    /\ \A s \in {"transport_planning", "accommodation_planning", "food_planning",
                  "order_generation"} : Produced(s) = {"chosen"}
BY DEF Produced

(* A requirement is recorded. *)
LEMMA RequirementKeeps ==
    ASSUME StepInv, NEW r \in RequirementRow,
           plan' = [plan EXCEPT !["requirement_collection"] = r],
           step' \in {step, "requirement_collection", "destination_recommendation"},
           journey' = journey, trips' \in {"one", "old draft", "mixed"},
           workflow' \in Modes \cup {None}, tendency' \in Modes \cup {None},
           confirmed' \in BOOLEAN,
           agencyStep' \in {"agency_requirement", "agency_product_match", "agency_report"}
    PROVE  StepInv'
<1> USE DEF StepInv
<1>1. \A t \in PlanningSteps : plan'[t] = IF t = "requirement_collection" THEN r ELSE plan[t]
  BY DEF TypeOK
<1>2. r # None
  BY NoneAssumption
<1>3. TypeOK'
  BY <1>1, StepNames, ProductTypes DEF TypeOK
<1>4. DerivedNeedsPremises'
  <2>1. \A t \in PlanningSteps :
           (plan'[t] # None) <=> (Has(t) \/ t \in {"requirement_collection"})
    BY <1>1, <1>2 DEF Has
  <2> QED BY <2>1, Premises, AddedProducts
<1>5. StepIsReady'
  <2>1. CASE step' = step
    BY <2>1, <1>1, <1>2, StillReady DEF TypeOK, Has
  <2>2. CASE step' \in {"requirement_collection", "destination_recommendation"}
    BY <2>2, <1>1, <1>2, StepNames, Premises, ReadyToGo
  <2> QED BY <2>1, <2>2
<1> QED BY <1>3, <1>4, <1>5

(* The mode changes and the plan does not. *)
LEMMA ModeKeeps ==
    ASSUME StepInv, UNCHANGED <<step, plan, journey, trips>>,
           workflow' \in Modes \cup {None}, tendency' \in Modes \cup {None},
           confirmed' \in BOOLEAN, agencyStep' \in {agencyStep, "agency_requirement"}
    PROVE  StepInv'
BY DEF StepInv, TypeOK, DerivedNeedsPremises, StepIsReady, Has, Before

LEMMA ModeCallKeeps ==
    ASSUME StepInv, NEW tool, ModeCall(tool) PROVE StepInv'
<1>1. PICK m \in Modes : set_planning_mode(m) \/ confirm_planning_mode(m)
  BY DEF ModeCall
<1> QED BY <1>1, ModeKeeps DEF StepInv, TypeOK, set_planning_mode, confirm_planning_mode,
                             SetMode

LEMMA RecordCallKeeps ==
    ASSUME StepInv, NEW tool, RecordCall(tool) PROVE StepInv'
<1>1. PICK asked \in {AgencyAsked}, m \in Modes, sure \in BOOLEAN, r \in RequirementRow :
          record_requirement(r, m, sure, asked)
  BY DEF RecordCall
<1> QED BY <1>1, RequirementKeeps
        DEF StepInv, TypeOK, record_requirement, SetMode, Revised

LEMMA ChatKeeps ==
    ASSUME StepInv, ChatWrites PROVE StepInv'
<1>1. PICK r \in RequirementRow : SyncFacts(r) \/ SeedFree(r) \/ SeedAgency(r)
  BY DEF ChatWrites
<1>2. CASE SyncFacts(r)
  BY <1>2, RequirementKeeps DEF StepInv, TypeOK, SyncFacts, Revised, mode
<1>3. CASE SeedFree(r)
  BY <1>3, RequirementKeeps DEF StepInv, TypeOK, SeedFree, SetMode, Modes
<1>4. CASE SeedAgency(r)
  BY <1>4, RequirementKeeps DEF StepInv, TypeOK, SeedAgency, SetMode, Revised, Modes
<1> QED BY <1>1, <1>2, <1>3, <1>4

(* A choice is made in the step it belongs to and leads to the next one. *)
LEMMA ChoiceKeeps ==
    ASSUME StepInv, NEW s \in Before("itinerary_generation"), step = s,
           NEW v \in Produced(s), v # None,
           NEW next \in Before("budget_summarization"), Before(next) = Before(s) \cup {s},
           Chooses(s, v, next)
    PROVE  StepInv'
<1> USE DEF StepInv, Chooses
<1>1. \A t \in PlanningSteps : plan'[t] = IF t = s THEN v ELSE plan[t]
  BY DEF TypeOK
<1>2. s \in PlanningSteps /\ next \in PlanningSteps
  BY DEF Before
<1>3. TypeOK'
  BY <1>1, <1>2 DEF TypeOK, mode
<1>4. \A t \in Before(s) : Has(t)
  BY Requirements, Premises, StepNames DEF StepIsReady
<1>5. DerivedNeedsPremises'
  <2>1. \A t \in PlanningSteps : (plan'[t] # None) <=> (Has(t) \/ t \in {s})
    BY <1>1 DEF Has
  <2> QED BY <2>1, <1>4, AddedProducts
<1>6. StepIsReady'
  <2>1. step' \in Before("order_generation")
    BY Premises
  <2>2. \A t \in Before(step') : plan'[t] # None
    BY <1>1, <1>4 DEF Has, Before
  <2> QED BY <2>1, <2>2, ReadyToGo
<1> QED BY <1>3, <1>5, <1>6

LEMMA ChoiceCallKeeps ==
    ASSUME StepInv, NEW tool \in Usable, ChoiceCall(tool) PROVE StepInv'
<1>1. tool \in ChoiceTools
  BY DEF ChoiceCall, ChoiceTools
<1>2. tool \in StepToolsOf(step) /\ \A s \in Requires[step] : Has(s)
  BY <1>1, ToolOfStep DEF StepInv
<1>3. step \in PlanningSteps
  BY DEF StepInv, TypeOK
<1>4. \A s \in {"destination_recommendation", "transport_planning", "accommodation_planning",
                "food_planning"} : s \in Before("itinerary_generation")
  BY Premises
<1>5. /\ Before("transport_planning") =
             Before("destination_recommendation") \cup {"destination_recommendation"}
      /\ Before("accommodation_planning") =
             Before("transport_planning") \cup {"transport_planning"}
      /\ Before("food_planning") =
             Before("accommodation_planning") \cup {"accommodation_planning"}
      /\ Before("itinerary_generation") = Before("food_planning") \cup {"food_planning"}
      /\ \A s \in {"transport_planning", "accommodation_planning", "food_planning",
                   "itinerary_generation"} : s \in Before("budget_summarization")
  BY StepNames, Ranks DEF Before
<1>6. ASSUME NEW d \in Destinations, tool = "select_destination", select_destination(d)
      PROVE  StepInv'
  <2>1. step = "destination_recommendation"
    BY <1>2, <1>3, <1>6, StepNames DEF StepToolsOf
  <2> QED BY <2>1, <1>4, <1>5, <1>6, ProductTypes, NoneAssumption, ChoiceKeeps
          DEF select_destination
<1>7. ASSUME tool = "select_transport", select_transport PROVE StepInv'
  <2>1. step = "transport_planning"
    BY <1>2, <1>3, <1>7, StepNames DEF StepToolsOf
  <2> QED BY <2>1, <1>4, <1>5, <1>7, ProductTypes, NoneAssumption, ChoiceKeeps
          DEF select_transport
<1>8. ASSUME tool = "select_accommodation", select_accommodation PROVE StepInv'
  <2>1. step = "accommodation_planning"
    BY <1>2, <1>3, <1>8, StepNames DEF StepToolsOf
  <2> QED BY <2>1, <1>4, <1>5, <1>8, ProductTypes, NoneAssumption, ChoiceKeeps
          DEF select_accommodation
<1>9. ASSUME tool = "select_food", select_food PROVE StepInv'
  <2>1. step = "food_planning"
    BY <1>2, <1>3, <1>9, StepNames DEF StepToolsOf
  <2>2. Has("accommodation_planning")
    BY Requirements, <2>1, <1>5, StepNames, Premises DEF StepInv, StepIsReady
  <2>3. Chooses("food_planning", "chosen", "itinerary_generation")
    BY <1>9, <2>2 DEF select_food, Chooses
  <2> QED BY <2>1, <2>3, <1>4, <1>5, ProductTypes, NoneAssumption, ChoiceKeeps
<1> QED BY <1>6, <1>7, <1>8, <1>9 DEF ChoiceCall

(* A rollback leads to a step whose premises are there, since the step it is    *)
(* offered in has them, and clears what it clears from there on.                *)
LEMMA GoBackKeeps ==
    ASSUME StepInv, NEW target \in Before("order_generation"), NEW clear \in BOOLEAN,
           \A t \in Before(target) : Has(t), GoBack(target, clear)
    PROVE  StepInv'
<1> USE DEF StepInv, GoBack
<1>1. target \in PlanningSteps
  BY DEF Before
<1>2. \A t \in PlanningSteps : plan'[t] = IF clear /\ t \notin Before(target)
                                        THEN None ELSE plan[t]
  BY <1>1, RankOrders DEF Cleared, TypeOK
<1>3. DOMAIN plan' = PlanningSteps
  BY DEF Cleared, TypeOK
<1>4. TypeOK'
  BY <1>1, <1>2, <1>3 DEF TypeOK, AfterClearing, mode
<1>5. DerivedNeedsPremises'
  <2>1. SUFFICES ASSUME NEW t \in PlanningSteps, plan'[t] # None, NEW u \in Before(t)
                 PROVE  plan'[u] # None
    BY DEF DerivedNeedsPremises, Has, Before
  <2>2. Has(u) /\ u \in PlanningSteps
    BY <1>2, <2>1 DEF DerivedNeedsPremises, Has, Before
  <2>3. CASE clear
    <3>1. t \in Before(target)
      BY <1>2, <2>1, <2>3
    <3>2. u \in Before(target)
      BY <1>1, <2>1, <2>2, <3>1, RankOrders
    <3> QED BY <1>2, <2>2, <3>2 DEF Has
  <2>4. CASE ~clear
    BY <1>2, <2>2, <2>4 DEF Has
  <2> QED BY <2>3, <2>4
<1>6. StepIsReady'
  BY <1>2, ReadyToGo DEF Has, Before
<1> QED BY <1>4, <1>5, <1>6

LEMMA BackCallKeeps ==
    ASSUME StepInv, NEW tool \in Usable, BackCall(tool) PROVE StepInv'
<1>1. tool \in BackTools
  BY DEF BackCall, BackTools
<1>2. tool \in StepToolsOf(step)
  BY <1>1, ToolOfStep DEF StepInv
<1>3. step \in PlanningSteps
  BY DEF StepInv, TypeOK
<1>4. \A t \in Before(step) : Has(t)
  <2>1. CASE step \in Before("budget_summarization")
    BY Requirements, <2>1, Premises DEF StepInv, StepIsReady
  <2>2. CASE step = "budget_summarization"
    BY <2>2, WhatIsThere
  <2>3. CASE step = "order_generation"
    BY <2>3, WhatIsThere
  <2> QED BY <1>3, <2>1, <2>2, <2>3, StepNames, Premises
<1>5. ASSUME NEW target \in Before(step), GoBack(target, TRUE) PROVE StepInv'
  <2>1. target \in PlanningSteps /\ \A t \in Before(target) : t \in Before(step)
    BY <1>3, <1>5, RankOrders DEF Before
  <2>2. target \in Before("order_generation")
    BY <1>3, <1>5, StepNames, Ranks DEF Before
  <2> QED BY <1>4, <1>5, <2>1, <2>2, GoBackKeeps
<1>6. ASSUME tool = "go_back_to_step", NEW target \in RollbackTargets,
             NEW clear \in BOOLEAN, GoBack(target, clear)
      PROVE  StepInv'
  <2>1. step \in {"budget_summarization", "order_generation"}
    BY <1>2, <1>3, <1>6, StepNames DEF StepToolsOf
  <2>2. target \in Before("order_generation")
    BY <1>6, StepNames, Premises DEF RollbackTargets
  <2>3. \A t \in Before(target) : t \in Before("budget_summarization")
    BY <2>2, StepNames, Ranks DEF Before
  <2> QED BY <1>6, <2>1, <2>2, <2>3, WhatIsThere, GoBackKeeps
<1> QED BY <1>5, <1>6 DEF BackCall

-----------------------------------------------------------------------------
(* From choices to a report *)

LEMMA ItineraryKeeps ==
    ASSUME StepInv, DaysAssumption, generate_itinerary PROVE StepInv'
<1> USE DEF StepInv, generate_itinerary
<1>1. \A t \in PlanningSteps : plan'[t] =
          CASE t = "destination_recommendation" -> ItineraryTarget
            [] t \in {"transport_planning", "accommodation_planning", "food_planning"} -> "chosen"
            [] t = "itinerary_generation" -> [to |-> DescribedPlace, days |-> Requirement.days]
            [] t \in {"requirement_collection", "budget_summarization", "order_generation"}
               -> plan[t]
  BY StepNames DEF WithItinerary, TypeOK
<1>2. Requirement \in RequirementRow
  BY StepNames, ProductTypes DEF TypeOK, Has, Requirement
<1>3. ItineraryTarget \in Destinations /\ DescribedPlace \in Destinations
  BY <1>2, StepNames, ProductTypes
     DEF TypeOK, ItineraryTarget, DescribedPlace, Target, Chosen, RequirementRow
<1>4. [to |-> DescribedPlace, days |-> Requirement.days] \in Trip
  BY <1>2, <1>3 DEF Trip, RequirementRow
<1>5. TypeOK'
  BY <1>1, <1>3, <1>4, StepNames, ProductTypes DEF TypeOK, WithItinerary, MetDraft, mode
<1>6. DerivedNeedsPremises'
  <2>1. \A t \in PlanningSteps : (plan'[t] # None) <=>
            (Has(t) \/ t \in {"destination_recommendation", "transport_planning",
                              "accommodation_planning", "food_planning",
                              "itinerary_generation"})
    BY <1>1, <1>3, <1>4, StepNames, NoneAssumption DEF Has
  <2>2. \A s \in {"destination_recommendation", "transport_planning",
                  "accommodation_planning", "food_planning", "itinerary_generation"} :
            \A u \in Before(s) : u \in Before("itinerary_generation")
    BY StepNames, Ranks DEF Before
  <2> QED BY <2>1, <2>2, Premises, AddedProducts
<1>7. StepIsReady'
  BY Requirements, <1>1, <1>4, StepNames, Premises, NoneAssumption DEF StepIsReady, Has
<1> QED BY <1>5, <1>6, <1>7

(* A trip refitted to the requirement is a trip. *)
LEMMA TripFits ==
    ASSUME TypeOK, Has("requirement_collection"), Has("itinerary_generation")
    PROVE  [to |-> Itinerary.to, days |-> Requirement.days] \in Trip
<1>1. Requirement \in RequirementRow /\ Itinerary \in Trip
  BY StepNames, ProductTypes DEF TypeOK, Has, Requirement, Itinerary
<1> QED BY <1>1 DEF RequirementRow, Trip

LEMMA BudgetKeeps ==
    ASSUME StepInv, summarize_budget PROVE StepInv'
<1> USE DEF StepInv, summarize_budget
<1> DEFINE trip == [to |-> Itinerary.to, days |-> Requirement.days]
<1>1. trip \in Trip
  BY TripFits
<1>2. \A t \in PlanningSteps :
          plan'[t] = IF t \in {"itinerary_generation", "budget_summarization"}
                     THEN trip ELSE plan[t]
  BY StepNames DEF TypeOK
<1>3. trip # None
  BY <1>1, NoneAssumption
<1> HIDE DEF trip
<1>4. TypeOK'
  BY <1>1, <1>2, StepNames, ProductTypes DEF TypeOK, mode
<1>5. DerivedNeedsPremises'
  <2>1. \A t \in PlanningSteps : (plan'[t] # None) <=>
            (Has(t) \/ t \in {"itinerary_generation", "budget_summarization"})
    BY <1>2, <1>3, StepNames DEF Has
  <2> QED BY <2>1, WhatIsThere, Premises, AddedProducts
<1>6. StepIsReady'
  BY Requirements, <1>2, <1>3, StepNames, Premises DEF StepIsReady, Has
<1> QED BY <1>4, <1>5, <1>6

LEMMA OrderKeeps ==
    ASSUME StepInv, "generate_order" \in Usable, generate_order PROVE StepInv'
<1> USE DEF StepInv, generate_order
<1> DEFINE trip == [to |-> Itinerary.to, days |-> Requirement.days]
<1>1. Has("requirement_collection") /\ Has("itinerary_generation") /\ Has("budget_summarization")
  BY ReportOffered
<1>2. trip \in Trip
  BY <1>1, TripFits
<1>3. Target \in Destinations
  BY <1>1, StepNames, ProductTypes
     DEF TypeOK, Has, Requirement, Chosen, Target, RequirementRow, ReportComplete
<1>4. trip # None /\ Target # None /\ "chosen" # None
  BY <1>2, <1>3, NoneAssumption
<1>5. \A t \in PlanningSteps : plan'[t] =
          CASE t = "destination_recommendation" -> Target
            [] t \in {"accommodation_planning", "order_generation"} -> "chosen"
            [] t = "itinerary_generation" -> trip
            [] t \in {"requirement_collection", "transport_planning", "food_planning",
                     "budget_summarization"} -> plan[t]
  BY <1>1, StepNames DEF WithReport, TypeOK, Budget
<1> HIDE DEF trip
<1>6. TypeOK'
  BY <1>2, <1>3, <1>5, StepNames, ProductTypes DEF TypeOK, WithReport
<1>7. DerivedNeedsPremises'
  <2>1. \A t \in PlanningSteps : (plan'[t] # None) <=>
            (Has(t) \/ t \in {"destination_recommendation", "accommodation_planning",
                              "itinerary_generation", "order_generation"})
    BY <1>4, <1>5, StepNames DEF Has
  <2>2. \A s \in PlanningSteps : \A u \in Before(s) : u \in Before("order_generation")
    BY StepNames, Ranks DEF Before
  <2>3. \A u \in Before("order_generation") : Has(u)
    BY <1>1, WhatIsThere, Premises
  <2> QED BY <2>1, <2>2, <2>3, StepNames, AddedProducts
<1>8. StepIsReady'
  BY Requirements, <1>1, <1>4, <1>5, StepNames, Premises DEF StepIsReady, Has
<1> QED BY <1>6, <1>7, <1>8

LEMMA DraftKeeps ==
    ASSUME StepInv, NEW d \in Destinations, "generate_visual_journey" \in Usable,
           generate_visual_journey(d)
    PROVE  StepInv'
<1> USE DEF StepInv, generate_visual_journey
<1> DEFINE to == IF Chosen # None THEN Chosen ELSE d
<1>1. to \in Destinations /\ to # None
  BY StepNames, ProductTypes, NoneAssumption DEF TypeOK, Chosen
<1>2. \A t \in PlanningSteps :
          plan'[t] = IF t = "destination_recommendation" THEN to ELSE plan[t]
  BY DEF TypeOK
<1> HIDE DEF to
<1>3. TypeOK'
  BY <1>1, <1>2, StepNames, ProductTypes DEF TypeOK, mode
<1>4. DerivedNeedsPremises'
  <2>1. \A t \in PlanningSteps : (plan'[t] # None) <=>
            (Has(t) \/ t \in {"destination_recommendation"})
    BY <1>1, <1>2 DEF Has
  <2>2. Has("requirement_collection")
    BY DraftOffered, WhatIsThere
  <2> QED BY <2>1, <2>2, Premises, AddedProducts
<1>5. StepIsReady'
  BY <1>1, <1>2, StillReady DEF TypeOK, Has
<1> QED BY <1>3, <1>4, <1>5

LEMMA StepInvInit == ASSUME Init PROVE StepInv
<1>1. TypeOK
  BY StepNames DEF Init, TypeOK
<1>2. DerivedNeedsPremises
  BY DEF Init, DerivedNeedsPremises, Has
<1>3. Requires["requirement_collection"] = {}
  BY Requirements, StepNames, Premises
<1> QED BY <1>1, <1>2, <1>3 DEF Init, StepInv, StepIsReady

LEMMA StepInvNext == ASSUME StepInv, [Next]_vars PROVE StepInv'
<1>1. ASSUME NEW tool \in Usable, ReportCall(tool) PROVE StepInv'
  BY <1>1, DaysAssumption, ItineraryKeeps, BudgetKeeps, OrderKeeps DEF ReportCall
<1>2. ASSUME NEW tool \in Usable, DraftCall(tool) PROVE StepInv'
  BY <1>2, DraftKeeps DEF DraftCall
<1>3. CASE ModelCall
  BY <1>1, <1>2, <1>3, ModeCallKeeps, RecordCallKeeps, ChoiceCallKeeps, BackCallKeeps
     DEF ModelCall
<1>4. CASE UNCHANGED vars
  BY <1>4 DEF vars, StepInv, TypeOK, DerivedNeedsPremises, StepIsReady, Has
<1> QED BY <1>3, <1>4, ChatKeeps DEF Next

-----------------------------------------------------------------------------
(* Workflow's state stays typed, for any set of destinations and any length. *)
THEOREM TypeCorrect == Spec => []TypeOK
<1>1. StepInv => TypeOK
  BY DEF StepInv
<1> QED BY <1>1, StepInvInit, StepInvNext, PTL DEF Spec

(* No sequence of tools, rollbacks, changes of the workflow and words leaves a  *)
(* product without its premises.                                                *)
THEOREM ProductsHavePremises == Spec => []DerivedNeedsPremises
<1>1. StepInv => DerivedNeedsPremises
  BY DEF StepInv
<1> QED BY <1>1, StepInvInit, StepInvNext, PTL DEF Spec

(* No turn of the free workflow fails for a field its step requires. *)
THEOREM NoTurnMissesAField == Spec => []StepsHaveWhatTheyRequire
<1>1. StepInv => StepsHaveWhatTheyRequire
  BY StepForType DEF StepInv, StepIsReady, StepsHaveWhatTheyRequire, Runs
<1> QED BY <1>1, StepInvInit, StepInvNext, PTL DEF Spec

-----------------------------------------------------------------------------
(* One trip: before the itinerary is made there is none, unless the plan is     *)
(* known to mix trips, so no choice of those steps can part from it.            *)

NoItineraryYet ==
    trips # "mixed" /\ step \in Before("budget_summarization") => ~Has("itinerary_generation")

TripInv == StepInv /\ NoItineraryYet /\ OneTrip

(* Whoever leaves the plan's trip products alone keeps the trip. *)
LEMMA UntouchedTrip ==
    ASSUME TripInv, trips' = trips,
           \A s \in {"requirement_collection", "destination_recommendation",
                    "itinerary_generation", "budget_summarization"} : plan'[s] = plan[s],
           step' \in Before("budget_summarization") =>
               step \in Before("budget_summarization") \/ ~Has("itinerary_generation")
    PROVE  (NoItineraryYet /\ OneTrip)'
BY DEF TripInv, NoItineraryYet, OneTrip, Has, Requirement, Chosen, Itinerary, Budget, Before

(* A requirement that meets an itinerary mixes trips. *)
LEMMA RevisedTrip ==
    ASSUME TripInv, NEW r,
           plan' = [plan EXCEPT !["requirement_collection"] = r],
           trips' = Revised \/ ~Has("itinerary_generation")
    PROVE  (NoItineraryYet /\ OneTrip)'
BY StepNames DEF TripInv, StepInv, TypeOK, NoItineraryYet, OneTrip, Revised, Has, Itinerary, Before

LEMMA ChoiceCallTrip ==
    ASSUME TripInv, NEW tool \in Usable, ChoiceCall(tool) PROVE (NoItineraryYet /\ OneTrip)'
<1>1. tool \in StepToolsOf(step)
  BY ToolOfStep DEF TripInv, StepInv, ChoiceCall, ChoiceTools
<1>2. step \in Before("itinerary_generation")
  BY <1>1, StepNames, Premises DEF TripInv, StepInv, TypeOK, StepToolsOf, ChoiceCall
<1>3. step \in Before("budget_summarization")
  BY <1>2, Premises
<1>4. trips' = trips
  BY DEF ChoiceCall, Chooses, select_destination, select_transport, select_accommodation,
         select_food
<1>5. plan'["itinerary_generation"] = Itinerary
  BY StepNames DEF TripInv, StepInv, TypeOK, ChoiceCall, Chooses, select_destination,
         select_transport, select_accommodation, select_food, Itinerary
<1> QED BY <1>3, <1>4, <1>5 DEF TripInv, NoItineraryYet, OneTrip, Has, Itinerary, Before

LEMMA BackCallTrip ==
    ASSUME TripInv, NEW tool, BackCall(tool) PROVE (NoItineraryYet /\ OneTrip)'
<1>1. PICK target \in PlanningSteps : GoBack(target, TRUE) \/ GoBack(target, FALSE)
  BY DEF BackCall, Before, RollbackTargets
<1>2. CASE GoBack(target, FALSE)
  BY <1>2 DEF GoBack, NoItineraryYet, OneTrip
<1>3. CASE GoBack(target, TRUE)
  <2>1. \A t \in PlanningSteps : plan'[t] = IF Rank[t] < Rank[target] THEN plan[t] ELSE None
    BY <1>3 DEF GoBack, Cleared
  <2>2. CASE target \in Before("budget_summarization")
    <3>1. plan'["itinerary_generation"] = None
      BY <2>1, <2>2, StepNames, Ranks DEF Before
    <3> QED BY <3>1 DEF NoItineraryYet, OneTrip, Has, Before
  <2>3. CASE target \notin Before("budget_summarization")
    <3>1. target \in {"budget_summarization", "order_generation"}
      BY <2>3, StepNames, Premises
    <3>2. \A t \in Before("budget_summarization") : plan'[t] = plan[t]
      BY <2>1, <3>1, StepNames, Ranks DEF Before
    <3>3. plan'["budget_summarization"] \in {None, Budget}
      BY <2>1, <3>1, StepNames DEF Budget
    <3>4. trips' = trips /\ step' = target
      <4>1. ~(Rank[target] <= Rank["destination_recommendation"])
        BY <3>1, Ranks
      <4> QED BY <1>3, <4>1 DEF GoBack, AfterClearing
    <3>5. OneTrip'
      BY <3>2, <3>3, <3>4, Premises
         DEF TripInv, OneTrip, Has, Requirement, Chosen, Itinerary, Budget
    <3> QED BY <3>4, <3>5, <2>3 DEF NoItineraryYet, Before
  <2> QED BY <2>2, <2>3
<1> QED BY <1>1, <1>2, <1>3

LEMMA ItineraryTrip ==
    ASSUME TripInv, generate_itinerary PROVE (NoItineraryYet /\ OneTrip)'
<1> USE DEF TripInv, StepInv, generate_itinerary
<1>1. NoItineraryYet'
  BY Premises, StepNames DEF NoItineraryYet, Before
<1>2. SUFFICES ASSUME trips' = "one" PROVE OneTrip'
  BY <1>1 DEF OneTrip
<1>3. trips = "one" /\ DescribedPlace = ItineraryTarget
  BY <1>2 DEF MetDraft
<1>4. /\ plan'["destination_recommendation"] = ItineraryTarget
      /\ plan'["itinerary_generation"] = [to |-> ItineraryTarget, days |-> Requirement.days]
      /\ plan'["requirement_collection"] = Requirement
      /\ plan'["budget_summarization"] = Budget
  BY <1>3, StepNames DEF WithItinerary, TypeOK, Requirement, Budget
<1>5. ASSUME Has("budget_summarization")
      PROVE  Budget = [to |-> ItineraryTarget, days |-> Requirement.days]
  <2>1. Has("itinerary_generation") /\ Has("destination_recommendation")
    BY <1>5, StepNames, Premises DEF DerivedNeedsPremises
  <2>2. ItineraryTarget = Chosen
    BY <2>1 DEF ItineraryTarget, Chosen, Has
  <2> QED BY <1>3, <1>5, <2>1, <2>2 DEF OneTrip
<1> QED BY <1>4, <1>5 DEF OneTrip, Has, Requirement, Chosen, Itinerary, Budget

LEMMA BudgetTrip ==
    ASSUME TripInv, summarize_budget PROVE (NoItineraryYet /\ OneTrip)'
<1> USE DEF TripInv, StepInv, summarize_budget
<1>1. NoItineraryYet'
  BY Premises, StepNames DEF NoItineraryYet, Before
<1>2. /\ plan'["destination_recommendation"] = Chosen
      /\ plan'["requirement_collection"] = Requirement
      /\ plan'["itinerary_generation"] = [to |-> Itinerary.to, days |-> Requirement.days]
      /\ plan'["budget_summarization"] = [to |-> Itinerary.to, days |-> Requirement.days]
  BY StepNames DEF TypeOK, Requirement, Chosen
<1>3. trips = "one" => Itinerary.to = Chosen
  BY DEF OneTrip
<1> QED BY <1>1, <1>2, <1>3 DEF OneTrip, Has, Requirement, Chosen, Itinerary, Budget

LEMMA OrderTrip ==
    ASSUME TripInv, "generate_order" \in Usable, generate_order
    PROVE  (NoItineraryYet /\ OneTrip)'
<1> USE DEF TripInv, StepInv, generate_order
<1>1. NoItineraryYet'
  BY Premises, StepNames DEF NoItineraryYet, Before
<1>2. Has("itinerary_generation") /\ Has("budget_summarization")
  BY ReportOffered
<1>3. Target = Chosen
  BY <1>2, StepNames, Premises DEF DerivedNeedsPremises, Target, Chosen, Has
<1>4. /\ plan'["destination_recommendation"] = Chosen
      /\ plan'["requirement_collection"] = Requirement
      /\ plan'["itinerary_generation"] = [to |-> Itinerary.to, days |-> Requirement.days]
      /\ plan'["budget_summarization"] = Budget
  BY <1>2, <1>3, StepNames DEF TypeOK, WithReport, Requirement, Budget
<1>5. trips = "one" => Itinerary = [to |-> Chosen, days |-> Requirement.days]
                       /\ Budget = Itinerary
  BY <1>2 DEF OneTrip
<1> QED BY <1>1, <1>4, <1>5 DEF OneTrip, Has, Requirement, Chosen, Itinerary, Budget

LEMMA DraftTrip ==
    ASSUME TripInv, NEW d, generate_visual_journey(d) PROVE (NoItineraryYet /\ OneTrip)'
<1> USE DEF TripInv, StepInv, generate_visual_journey
<1>1. \A t \in PlanningSteps \ {"destination_recommendation"} : plan'[t] = plan[t]
  BY DEF TypeOK
<1>2. CASE Has("itinerary_generation")
  <2>1. Chosen # None
    BY <1>2, StepNames, Premises DEF DerivedNeedsPremises, Chosen, Has
  <2>2. plan'["destination_recommendation"] = Chosen
    BY <2>1, StepNames DEF TypeOK
  <2> QED BY <1>1, <1>2, <2>2, StepNames, UntouchedTrip DEF Chosen
<1>3. CASE ~Has("itinerary_generation")
  BY <1>1, <1>3, StepNames DEF NoItineraryYet, OneTrip, Has
<1> QED BY <1>2, <1>3

LEMMA TripInvNext == ASSUME TripInv, [Next]_vars PROVE TripInv'
<1>1. StepInv'
  BY StepInvNext DEF TripInv
<1> SUFFICES (NoItineraryYet /\ OneTrip)'
  BY <1>1 DEF TripInv
<1>2. ASSUME NEW tool, ModeCall(tool) PROVE (NoItineraryYet /\ OneTrip)'
  BY <1>2, UntouchedTrip DEF ModeCall, set_planning_mode, confirm_planning_mode
<1>3. ASSUME NEW tool, RecordCall(tool) PROVE (NoItineraryYet /\ OneTrip)'
  BY <1>3, RevisedTrip DEF RecordCall, record_requirement
<1>4. ASSUME NEW tool \in Usable, ReportCall(tool) PROVE (NoItineraryYet /\ OneTrip)'
  BY <1>4, ItineraryTrip, BudgetTrip, OrderTrip DEF ReportCall
<1>5. ASSUME NEW tool, DraftCall(tool) PROVE (NoItineraryYet /\ OneTrip)'
  BY <1>5, DraftTrip DEF DraftCall
<1>6. CASE ModelCall
  BY <1>2, <1>3, <1>4, <1>5, <1>6, ChoiceCallTrip, BackCallTrip DEF ModelCall
<1>7. CASE ChatWrites
  <2>1. PICK r \in RequirementRow : SyncFacts(r) \/ SeedFree(r) \/ SeedAgency(r)
    BY <1>7 DEF ChatWrites
  <2>2. Untouched => ~Has("itinerary_generation")
    BY StepNames DEF Untouched
  <2> QED BY <2>1, <2>2, RevisedTrip DEF SyncFacts, SeedFree, SeedAgency
<1>8. CASE UNCHANGED vars
  BY <1>8, UntouchedTrip DEF vars
<1> QED BY <1>6, <1>7, <1>8 DEF Next

(* Itinerary and budget are made for the chosen destination and the days asked  *)
(* for, for any set of destinations, whatever is chosen, reordered or cleared.  *)
THEOREM PlanTellsOneTrip == Spec => []OneTrip
<1>1. Init => TripInv
  BY StepInvInit, StepNames DEF TripInv, NoItineraryYet, OneTrip, Init, Has
<1>2. TripInv => OneTrip
  BY DEF TripInv
<1> QED BY <1>1, <1>2, TripInvNext, PTL DEF Spec
=============================================================================
