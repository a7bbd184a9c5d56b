----------------------------- MODULE ToolGuard -----------------------------
(* The loop guard of app/tools/execution_guard.py: within a turn a guarded tool   *)
(* runs once per key.  What has run is remembered twice: in the state of the      *)
(* conversation, where parallel calls meet only when their step ends, and in a     *)
(* memory of the process, which forgets turns.  Three tools record their keys in    *)
(* the state, one key each: the forty entries it holds are never too few.         *)
EXTENDS Naturals, FiniteSets

CONSTANTS
    Turns,
    ToolKeys,       (* a tool, or a tool with its arguments *)
    Recording,      (* keys of tools that return a Command; the RAG tools return text *)
    MaxTurns        (* _LOOP_GUARD_MAX_TURNS: 256 *)

VARIABLES
    recorded,       (* the keys of tool_loop_guard in the state of a turn *)
    batch,          (* the keys of the calls under way, all started from that state *)
    memory,         (* _LOOP_GUARD_MEMORY: turn -> keys, {} of a turn that has no entry *)
    older,          (* <<u, t>>: the last use of u's entry was before that of t's *)
    executed        (* history: runs since the guard last had a reason to forget the key *)

toolVars == <<recorded, batch, memory, older, executed>>

_updated_loop_guard_state(calls, k) == calls \union {k}

(* Mutant: one of the parallel updates wins. *)
OneUpdate(left, updates) == IF updates = {} THEN left ELSE CHOOSE right \in updates : TRUE

(* The reducer of the state, applied to the updates of a step one after the other *)
merge_tool_loop_guard(left, updates) == left \union UNION updates

Known == {t \in Turns : memory[t] # {}}

(* Turns that aged (TTL) and turns beyond the limit go, the oldest first. *)
_prune_loop_guard_memory(gone) ==
    /\ \A p \in older : p[2] \in gone => p[1] \in gone
    /\ Cardinality(Known \ gone) <= MaxTurns

_memory_loop_guard_seen(kept, t, k) == k \in kept[t]

ToolsInit ==
    /\ recorded = [t \in Turns |-> {}] /\ batch = [t \in Turns |-> {}]
    /\ memory = [t \in Turns |-> {}] /\ older = {}
    /\ executed = [t \in Turns |-> [k \in ToolKeys |-> 0]]

(* begin_tool_execution of a key the state knows *)
BlockedByState(t, k) ==
    /\ k \in recorded[t]
    /\ batch' = [batch EXCEPT ![t] = @ \union {k}]
    /\ UNCHANGED <<recorded, memory, older, executed>>

(* begin_tool_execution of a key the state does not know: _memory_loop_guard_seen  *)
(* marks it before the tool runs, whatever becomes of the call.                  *)
BegunFromMemory(t, k) ==
    /\ k \notin recorded[t]
    /\ \E gone \in SUBSET Known :
         LET others == Turns \ (gone \union {t})
             kept == [u \in Turns |-> IF u \in gone THEN {} ELSE memory[u]]
             Excused(u, j) == u \in gone /\ j \in memory[u] /\ (j \notin Recording \/ j \in batch[u])
             Runs(u, j) == IF u = t /\ j = k /\ ~_memory_loop_guard_seen(kept, t, k) THEN 1 ELSE 0
         IN /\ _prune_loop_guard_memory(gone)
            /\ memory' = [kept EXCEPT ![t] = @ \union {k}]
            /\ older' = (older \intersect (others \X others)) \union ((Known \intersect others) \X {t})
            /\ executed' = [u \in Turns |-> [j \in ToolKeys |->
                              (IF Excused(u, j) THEN 0 ELSE executed[u][j]) + Runs(u, j)]]
    /\ batch' = [batch EXCEPT ![t] = @ \union {k}]
    /\ UNCHANGED recorded

(* The step ends: every call answers with the guard of the state it started from, *)
(* plus its own key, and the reducer merges the answers into the state.          *)
StepEnds(t) ==
    LET answers == {_updated_loop_guard_state(recorded[t], k) : k \in batch[t] \intersect Recording}
    IN /\ batch[t] # {}
       /\ recorded' = [recorded EXCEPT ![t] = merge_tool_loop_guard(@, answers)]
       /\ batch' = [batch EXCEPT ![t] = {}]
       /\ UNCHANGED <<memory, older, executed>>

ToolsNext == \E t \in Turns : \/ \E k \in ToolKeys : BlockedByState(t, k) \/ BegunFromMemory(t, k)
                              \/ StepEnds(t)

ToolsSpec == ToolsInit /\ [][ToolsNext]_toolVars

(* Within a turn a key runs a second time only if the process forgot the turn     *)
(* while the state did not know the key: its call was still under way, or its tool *)
(* answers with text and leaves no trace in the state.                           *)
RunsOncePerTurn == \A t \in Turns, k \in ToolKeys : executed[t][k] <= 1
=============================================================================
