---------------------------- MODULE MCServices ----------------------------
(* The turns of a conversation and the services around them, which share no      *)
(* state with each other: TLC explores each by itself, `part` says which. *)
EXTENDS Approvals, ToolGuard, RateLimit, McpClients, ChatTurn, UserMemory, AgentTurn

VARIABLE part

Init ==
    /\ part \in {"approvals", "tools", "rate", "mcp", "chat", "memory", "turn"}
    /\ ApprovalsInit /\ ToolsInit /\ RateInit /\ McpInit /\ ChatInit /\ MemoryInit /\ TurnInit
    /\ part # "approvals" => env = "production"
    /\ part # "turn" => stage = "transport_planning" /\ dated
    /\ part # "rate" => backend = "redis" /\ ~local_fallback

Next ==
    \/ part = "approvals" /\ ApprovalsNext /\ UNCHANGED <<part, toolVars, rateVars, mcpVars, chatVars, memoryVars, turnVars>>
    \/ part = "tools" /\ ToolsNext /\ UNCHANGED <<part, approvalVars, rateVars, mcpVars, chatVars, memoryVars, turnVars>>
    \/ part = "rate" /\ RateNext /\ UNCHANGED <<part, approvalVars, toolVars, mcpVars, chatVars, memoryVars, turnVars>>
    \/ part = "mcp" /\ McpNext /\ UNCHANGED <<part, approvalVars, toolVars, rateVars, chatVars, memoryVars, turnVars>>
    \/ part = "chat" /\ ChatNext /\ UNCHANGED <<part, approvalVars, toolVars, rateVars, mcpVars, memoryVars, turnVars>>
    \/ part = "memory" /\ MemoryNext /\ UNCHANGED <<part, approvalVars, toolVars, rateVars, mcpVars, chatVars, turnVars>>
    \/ part = "turn" /\ TurnNext /\ UNCHANGED <<part, approvalVars, toolVars, rateVars, mcpVars, chatVars, memoryVars>>

Spec == Init /\ [][Next]_<<part, approvalVars, toolVars, rateVars, mcpVars, chatVars, memoryVars, turnVars>>

(* What the messages of the chat say *)
Says(told, signal, neutral) ==
    [req |-> [k \in Requirements |-> IF k \in DOMAIN told THEN told[k] ELSE 0],
     signal |-> signal, neutral |-> neutral]

Trip    == Says([trip |-> 1], "none", FALSE)
Dated   == Says([date |-> 1], "agency", FALSE)
Free    == Says(<<>>, "free", FALSE)
Fine    == Says(<<>>, "none", TRUE)

ChatWords == {Trip, Dated, Free, Fine}

(* What is told of the user: a taste, an allergy with words about this trip, a     *)
(* preferred lodging with a price, a price alone, a trip that was made.            *)
Value(text, hint, override) == [text |-> text, hint |-> hint, override |-> override]
Statement(tool, values, scope, beside) ==
    [tool |-> tool, values |-> values, scope |-> scope, beside |-> beside]

UserStatements ==
    {Statement("update_food_preference_tool", {Value("spicy", FALSE, FALSE)}, "stable", {}),
     Statement("update_food_preference_tool", {Value("sweet", FALSE, FALSE), Value("today", TRUE, FALSE)},
          "stable", {}),
     Statement("update_dietary_restriction_tool", {Value("allergy", TRUE, TRUE)}, "stable", {}),
     Statement("update_accommodation_preference_tool", {Value("guesthouse", FALSE, FALSE)}, "stable", {"300"}),
     Statement("update_accommodation_preference_tool", {}, "stable", {"200"}),
     Statement("update_accommodation_preference_tool", {}, "temporary", {"900"}),
     Statement("add_travel_record_tool", {Value("Beijing", TRUE, FALSE)}, "stable", {"palace"})}

(* What a user may say of the transport and of the lodging: a query, a wish, the    *)
(* choice to be recorded, with words of doubt or without a query; both at once.     *)
TurnMessages ==
    LET take == {"transport", "take transport", "picks"}
        stay == {"room", "take room", "picks"}
        hotel == {"lodging", "hotel", "room"}
    IN  {{"plain"}, {"hedge"}, {"lodging"},
         hotel \cup {"transport", "verify", "asks"},
         take, take \cup {"hedge"}, take \cup {"hedge", "static"},
         stay, stay \cup {"hedge"},
         take \cup stay \cup {"hedge", "verify"},
         take \cup stay \cup hotel \cup {"hedge", "verify", "asks"}}
=============================================================================
