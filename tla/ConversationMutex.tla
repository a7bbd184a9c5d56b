-------------------------- MODULE ConversationMutex --------------------------
(* What the chat API relies on: a turn runs for one conversation at a time and *)
(* a conversation runs one turn at a time.  generate_sse_stream                *)
(* (app/api/v1/chat.py) saves the user's message, drives the agent and writes  *)
(* the checkpoint between a Start and the Stop of the same turn.               *)
CONSTANTS Turns, Conversations

VARIABLE running    \* the <<turn, conversation>> pairs now running

Init == running = {}

Start(t, c) ==
    /\ \A r \in running : r[1] # t /\ r[2] # c
    /\ running' = running \union {<<t, c>>}

Stop(r) == running' = running \ {r}

(* A process that dies takes all its turns with it. *)
StopAll(dead) == running' = {r \in running : r[1] \notin dead}

Next ==
    \/ \E t \in Turns, c \in Conversations : Start(t, c)
    \/ \E r \in running : Stop(r)
    \/ \E dead \in SUBSET Turns : StopAll(dead)

Spec == Init /\ [][Next]_running
==============================================================================
