------------------------------ MODULE AgentTurn ------------------------------
(* The model calls of one user message in the free workflow, from the choice of   *)
(* the destination to the lodging: StepConfigMiddleware.awrap_model_call          *)
(* (core/middleware.py) decides before each call which tools the model is offered *)
(* and which one it must call, and the tools decide by the thread of messages     *)
(* whether they record anything.                                                  *)
(*                                                                                *)
(* A message is the set of what its words are found to say by the keyword lists   *)
(* of the middleware and the tools; the model's messages and the tools' results   *)
(* say nothing.  One tool is called at a time (parallel_tool_calls is off), and   *)
(* the model calls the tool it is forced to.                                      *)
EXTENDS Naturals, Sequences, FiniteSets

CONSTANTS
    UserMessages,     (* what a user may say: sets of Sayings *)
    MaxUserMessages,  (* bound *)
    MaxFreeCalls      (* tools the model calls in a turn without being forced to (bound) *)

Sayings ==
    {"transport", "lodging", "hotel", "room",  (* a transport; a place to stay, in the words of *)
                                               (* the intent, of CROSS_STEP_HOTEL, of the audit *)
     "verify", "asks", "picks",                (* CROSS_STEP_VERIFY, a query, SELECTION_KEYWORDS *)
     "take transport", "take room",            (* asks for a choice to be recorded *)
     "hedge", "static",                        (* to be verified later; not to be queried now *)
     "plain"}
ASSUME UserMessagesAssumption ==
    \A w \in UserMessages :
        /\ w # {} /\ w \subseteq Sayings
        /\ "hotel" \in w => {"lodging", "room"} \subseteq w
        /\ "take room" \in w => "room" \in w
ASSUME TurnBoundsAssumption == {MaxUserMessages, MaxFreeCalls} \subseteq Nat

VARIABLES
    turn,        (* whose turn it is: "middleware" or "model"; "over" without either *)
    given,       (* the tools the model is given, and the one it must call *)
    thread,      (* the messages of the thread; {} is one of the model or of a tool *)
    heard,       (* messages of the user so far *)
    called,      (* tools called since the newest of them *)
    newest,      (* the tool whose result is the newest message, "none" if it is no result *)
    outcome,     (* selection tool -> how its last call in this turn came out *)
    stage,       (* current_step *)
    chosen,      (* the stages whose choice is recorded *)
    candidates,  (* accommodation_options is not empty *)
    queried,     (* query tools whose calls the thread holds *)
    dated,       (* the date of the departure is confirmed *)
    spare,       (* free calls that are left *)
    began        (* history: the stage at the newest message of the user *)

turnVars == <<turn, given, thread, heard, called, newest, outcome, stage, chosen,
              candidates, queried, dated, spare, began>>

StageTools ==
    [destination_recommendation |-> {"select_destination_tool"},
     transport_planning         |-> {"select_transport_tool", "query_transport_options"},
     accommodation_planning     |-> {"select_accommodation_tool", "query_hotel_options"},
     food_planning              |-> {}]

(* By the order of PLANNING_STEPS *)
Earlier(s) ==
    CASE s = "destination_recommendation" -> {}
      [] s = "transport_planning" -> {"destination_recommendation"}
      [] s = "accommodation_planning" -> {"destination_recommendation", "transport_planning"}
      [] OTHER -> DOMAIN StageTools \ {"food_planning"}

Queries == {"query_transport_options", "query_hotel_options"}
Selects == {"select_transport_tool", "select_accommodation_tool"}

(* Of ATTEMPT_ONCE_TOOLS_AFTER_CALL *)
AttemptOnce == Queries \union {"select_destination_tool"}

(* What no rule names: notes, modes, follow-ups about one hotel; the way back *)
FreeTools == {"other", "go_back"}

(* Tools for the model, and the one it is forced to call, if it is among them *)
Ruled(tools, t) == [offer |-> tools, force |-> IF t \in tools THEN t ELSE "none"]

TurnInit ==
    /\ turn = "over" /\ given = Ruled({}, "none") /\ thread = <<>> /\ heard = 0
    /\ called = {} /\ newest = "none" /\ outcome = [t \in Selects |-> "none"]
    /\ stage \in {"transport_planning", "accommodation_planning"}
    /\ chosen = Earlier(stage)
    /\ candidates = FALSE /\ queried = {}
    /\ dated \in BOOLEAN
    /\ spare = MaxFreeCalls /\ began = stage

-----------------------------------------------------------------------------
(* The texts that the middleware and the tools look at *)

Human(m) == m # {}
Newest(n) == {i \in DOMAIN thread : i + n > Len(thread)}
SaidIn(places) == UNION {thread[i] : i \in places}

(* _latest_human_text: nothing once a tool has answered *)
Text == SaidIn(Newest(1))

(* _recent_human_text: the messages of the user with fewer than n after them *)
Recent(n) ==
    SaidIn({i \in DOMAIN thread :
              Cardinality({j \in DOMAIN thread : i < j /\ Human(thread[j])}) < n})

(* What is being answered *)
Spoken == Recent(1)

(* _wants_fallback_audit_query, without what the requirement says *)
Noun == [query_transport_options |-> "transport", query_hotel_options |-> "room"]
WantsAudit(q) == {"hedge", Noun[q]} \subseteq SaidIn(Newest(12))

(* _needs_..._audit_before_..._selection: the call of the tool is the newest of    *)
(* the eight messages.                                                             *)
NeedsAudit(q) ==
    /\ q \notin queried
    /\ q = "query_hotel_options" => ~candidates
    /\ {"hedge", Noun[q]} \subseteq SaidIn(Newest(7))
    /\ "static" \notin Spoken

-----------------------------------------------------------------------------
(* What the model is offered *)

Undated == IF dated THEN {} ELSE {q \in Queries : ~WantsAudit(q)}
Audits == IF dated THEN {} ELSE {q \in Queries : WantsAudit(q)}

(* Tools of another stage, for a message that asks to verify *)
CrossStep ==
    LET asked == {q \in Queries :
                    /\ "verify" \in Text
                    /\ q = "query_transport_options" => "transport" \in Text
                    /\ q = "query_hotel_options" => "hotel" \in Text}
    IN  IF stage = "transport_planning" /\ stage \notin chosen
        THEN asked \ {"query_hotel_options"} ELSE asked

(* detect_travel_intent, as far as it prefers a query *)
Intent ==
    IF \/ {"lodging", "hedge"} \subseteq Text /\ stage = "accommodation_planning"
       \/ "lodging" \in Text /\ "picks" \notin Text
    THEN "query_hotel_options"
    ELSE IF /\ "transport" \in Text /\ "picks" \notin Text
            /\ "asks" \in Text \/ stage \in {"transport_planning", "destination_recommendation"}
         THEN "query_transport_options" ELSE "none"

Preferred == IF Intent \in Undated THEN "none" ELSE Intent

Applied(t) == outcome[t] = "applied"
Refused(t) == outcome[t] \in {"audit_required", "invalid_input"}

Completed ==
    {t \in StageTools["transport_planning"] : Applied("select_transport_tool")}
    \union {t \in StageTools["accommodation_planning"] : Applied("select_accommodation_tool")}

Available ==
    ((StageTools[stage] \union CrossStep \union ({Preferred} \intersect Queries)) \ Undated)
    \ ((AttemptOnce \intersect called) \union Completed)

All == Available \union FreeTools

(* The transport stage: the first rule that applies counts. *)
RequestsTransport(said) == said \intersect {"take transport", "hotel"} # {}
AllowsTransport == RequestsTransport(Spoken) \/ "take transport" \in Recent(4)

TransportRules ==
    LET open(t) == t \in Available /\ stage \notin chosen
        query == "query_transport_options"
        select == "select_transport_tool"
    IN  IF newest = "select_destination_tool"
        THEN Ruled({}, "none")
        ELSE IF outcome[select] = "audit_required" /\ query \in Available
        THEN Ruled({query}, query)
        ELSE IF Refused(select) /\ newest = select
        THEN Ruled(All, "none")
        ELSE IF newest = query
        THEN IF AllowsTransport THEN Ruled(All \ {query}, select)
                                ELSE Ruled(All \ {query, select}, "none")
        ELSE IF open(query) /\ query \in Audits
        THEN Ruled(All, query)
        ELSE IF open(select) /\ RequestsTransport(Spoken)
        THEN Ruled({select}, select)
        ELSE Ruled(All, IF open(query) /\ Preferred = "none" /\ "picks" \notin Text
                        THEN query ELSE "none")

(* The lodging stage.  Right after the transport was recorded the lodging waits    *)
(* for a message of its own, unless this one names a hotel.                        *)
AccommodationRules ==
    LET query == "query_hotel_options"
        select == "select_accommodation_tool"
        waits == newest = "select_transport_tool" /\ "hotel" \notin Spoken
        left == All \ (IF waits THEN {query, select} ELSE {})
        asks == query \in Available /\ newest # query /\ ~waits
    IN  IF outcome[select] = "audit_required" /\ query \in Available
        THEN Ruled(left \ {select}, query)
        ELSE IF Refused(select) /\ newest = select
        THEN Ruled(left, "none")
        ELSE IF stage \in chosen
        THEN Ruled(left \ {query}, "none")
        ELSE IF asks /\ query \in Audits
        THEN Ruled(left, query)
        ELSE IF /\ "take room" \in Spoken /\ newest # "select_transport_tool"
                /\ select \in Available
        THEN Ruled(left \ {query}, select)
        ELSE IF candidates
        THEN Ruled(left \ {query}, select)
        ELSE Ruled(left, IF asks THEN query ELSE "none")

Rules == CASE stage = "transport_planning"     -> TransportRules
           [] stage = "accommodation_planning" -> AccommodationRules
           [] OTHER                            -> Ruled(All, "none")

(* _forced_tool_choice, or else what the intent prefers *)
AskedFor ==
    IF stage = "accommodation_planning" /\ "take room" \in Text
    THEN "select_accommodation_tool"
    ELSE IF stage = "accommodation_planning" /\ {"asks", "room"} \subseteq Text
    THEN "query_hotel_options"
    ELSE IF stage = "transport_planning" /\ "asks" \in Text /\ "picks" \notin Text
    THEN "query_transport_options"
    ELSE Preferred

(* Mutant: whatever the turn has called already is not forced again. *)
NoRetry(t) == FALSE

(* A tool that this turn has called already is not forced again, unless its        *)
(* refusal has been answered by another call in between.                           *)
RetryAfterRecovery(t) == t \in Selects /\ Refused(t) /\ newest # t

(* What the model is given for its next call *)
Given ==
    LET rules == Rules
        wanted == IF rules.force # "none" THEN rules.force ELSE AskedFor
    IN  Ruled(rules.offer, IF wanted \in called /\ ~RetryAfterRecovery(wanted)
                           THEN "none" ELSE wanted)

-----------------------------------------------------------------------------
(* The turn *)

Hear(w) ==
    /\ turn = "over" /\ heard < MaxUserMessages
    /\ turn' = "middleware" /\ heard' = heard + 1
    /\ thread' = Append(thread, w)
    /\ called' = {} /\ newest' = "none" /\ outcome' = [t \in Selects |-> "none"]
    /\ spare' = MaxFreeCalls /\ began' = stage
    /\ UNCHANGED <<given, stage, chosen, candidates, queried, dated>>

(* awrap_model_call, up to the call of the model *)
Ask ==
    /\ turn = "middleware"
    /\ turn' = "model" /\ given' = Given
    /\ UNCHANGED <<thread, heard, called, newest, outcome, stage, chosen,
                   candidates, queried, dated, spare, began>>

(* The model calls t: its message and the result of the tool join the thread. *)
Calls(t) ==
    /\ turn = "model" /\ t \in given.offer
    /\ IF given.force = "none" THEN spare > 0 /\ spare' = spare - 1
                              ELSE t = given.force /\ UNCHANGED spare
    /\ turn' = "middleware" /\ given' = Ruled({}, "none")
    /\ thread' = thread \o <<{}, {}>>
    /\ called' = called \union {t} /\ newest' = t
    /\ queried' = queried \union ({t} \intersect Queries)
    /\ UNCHANGED <<heard, dated, began>>

QueryTransport ==
    /\ Calls("query_transport_options")
    /\ UNCHANGED <<outcome, stage, chosen, candidates>>

(* A query without a date is skipped and leaves no candidates. *)
QueryHotel ==
    /\ Calls("query_hotel_options")
    /\ candidates' \in {candidates, candidates \/ dated}
    /\ UNCHANGED <<outcome, stage, chosen>>

SelectDestination ==
    /\ Calls("select_destination_tool")
    /\ chosen' = chosen \union {stage} /\ stage' = "transport_planning"
    /\ UNCHANGED <<outcome, candidates>>

(* select_transport_tool and select_accommodation_tool *)
Select(t, q, next) ==
    /\ Calls(t)
    /\ \E o \in IF NeedsAudit(q) THEN {"audit_required"} ELSE {"invalid_input", "applied"} :
          /\ outcome' = [outcome EXCEPT ![t] = o]
          /\ IF o = "applied" THEN chosen' = chosen \union {stage} /\ stage' = next
                              ELSE UNCHANGED <<chosen, stage>>
    /\ UNCHANGED candidates

(* go_back_to_...: what was recorded from there on is cleared. *)
GoBack(s) ==
    /\ Calls("go_back")
    /\ stage' = s /\ chosen' = Earlier(s)
    /\ candidates' = FALSE
    /\ UNCHANGED outcome

UseOther ==
    /\ Calls("other")
    /\ UNCHANGED <<outcome, stage, chosen, candidates>>

(* The model answers: it may when nothing is forced. *)
Reply ==
    /\ turn = "model" /\ given.force = "none"
    /\ turn' = "over" /\ given' = Ruled({}, "none")
    /\ UNCHANGED <<thread, heard, called, newest, outcome, stage, chosen,
                   candidates, queried, dated, spare, began>>

TurnNext ==
    \/ \E w \in UserMessages : Hear(w)
    \/ Ask
    \/ QueryTransport \/ QueryHotel \/ SelectDestination
    \/ Select("select_transport_tool", "query_transport_options", "accommodation_planning")
    \/ Select("select_accommodation_tool", "query_hotel_options", "food_planning")
    \/ \E s \in Earlier(stage) : GoBack(s)
    \/ UseOther \/ Reply

TurnSpec == TurnInit /\ [][TurnNext]_turnVars

-----------------------------------------------------------------------------
(* A user who asks, at the stage it belongs to, for the transport or the lodging   *)
(* to be recorded gets it recorded, or is told what is wrong with it: the turn     *)
(* does not end with the tool never called, nor with its demand for a query first. *)
(* And what is to be verified later is recorded only beside such a query, unless   *)
(* the user wants none.                                                            *)
Settles(s, ask, t, q) ==
    began = s /\ ask \in Spoken =>
        /\ outcome[t] \in {"applied", "invalid_input"}
        /\ {"hedge", Noun[q]} \subseteq Spoken /\ "static" \notin Spoken /\ Applied(t)
           => q \in queried

WhatIsAskedIsRecorded ==
    turn = "over" /\ heard > 0 =>
        /\ Settles("transport_planning", "take transport",
                   "select_transport_tool", "query_transport_options")
        /\ Settles("accommodation_planning", "take room",
                   "select_accommodation_tool", "query_hotel_options")
=============================================================================
