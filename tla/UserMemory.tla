----------------------------- MODULE UserMemory -----------------------------
(* The long-term memory of one user: two documents in the store, each read and   *)
(* written whole by the tools of whatever conversations the user has open.  The   *)
(* conversation lock keeps one conversation to one tool at a time, and nothing    *)
(* keeps two conversations apart.                                                 *)
EXTENDS Naturals, SequencesExt

CONSTANTS
    Sessions,         (* conversations of the user *)
    Statements,       (* what the model passes to a memory tool: [tool, values, scope, beside] *)
    MaxAudit,         (* entries an audit log keeps: 40 *)
    MaxMemoryCalls,
    MaxMemoryFaults   (* reads and writes of the store that fail, calls that are cut off *)

VARIABLES
    store,      (* document -> its facts (field and text) and its audit log *)
    statement,  (* what the session's tool was called with, NoStatement if none runs *)
    held,       (* the document as the session's tool read it, NoDocument before *)
    calls, faults,
    promised,   (* history: facts a tool has answered to have recorded, with their document *)
    excused     (* history: documents written by overlapping updates or after a failed read *)

memoryVars == <<store, statement, held, calls, faults, promised, excused>>

Documents == {"profile", "history"}
UserDocument == [facts |-> {}, audit |-> <<>>]
NoStatement == [tool |-> "none"]
NoDocument == [facts |-> {}, audit |-> <<"unread">>]

MainField == [update_travel_style_tool           |-> "travel_styles",
              update_dietary_restriction_tool    |-> "dietary_restrictions",
              update_food_preference_tool        |-> "food_preferences",
              update_accommodation_preference_tool |-> "preferred_types",
              add_travel_record_tool             |-> "completed_trips"]

(* What else a tool takes: a price, which goes into the average, or attractions. *)
BesideField == [update_accommodation_preference_tool |-> "avg_budget_per_night",
                add_travel_record_tool               |-> "visited_attractions"]

ASSUME MemoryAssumption ==
    /\ MaxAudit \in Nat
    /\ \A s \in Statements : s.tool \in DOMAIN MainField /\ IsFiniteSet(s.values) /\ IsFiniteSet(s.beside)

DocumentOf(tool) == IF tool \in DOMAIN BesideField THEN "history" ELSE "profile"

(* classify_memory_candidate: words about this trip only count where others say   *)
(* that they hold for good.  A trip that was made is a fact in any case.          *)
Stable(s) ==
    {v \in s.values : \/ s.tool = "add_travel_record_tool"
                      \/ s.scope = "stable" /\ (v.hint => v.override)}

(* A price alone is enough for a stable preference; with kinds of lodging of which *)
(* none is stable it is dropped with them.                                        *)
Writes(s) ==
    \/ Stable(s) # {}
    \/ s.values = {} /\ s.beside # {} /\ s.scope = "stable"
         /\ s.tool = "update_accommodation_preference_tool"

Facts(s) == {<<MainField[s.tool], v.text>> : v \in Stable(s)}
BesideFacts(s) == {<<BesideField[s.tool], b>> : b \in s.beside}

Audited(s) ==
    Facts(s) \union (IF s.tool = "add_travel_record_tool" THEN {} ELSE BesideFacts(s))

_merge_audit_log(log, entries) ==
    LET merged == log \o SetToSeq(entries)
    IN  IF Len(merged) > MaxAudit THEN SubSeq(merged, Len(merged) - MaxAudit + 1, Len(merged))
                                  ELSE merged

(* Mutant: the new values replace those of their field. *)
Replaced(document, s) ==
    [facts |-> {f \in document.facts : f[1] # MainField[s.tool]} \union Facts(s) \union BesideFacts(s),
     audit |-> _merge_audit_log(document.audit, Audited(s))]

WithFacts(document, s) ==
    [facts |-> document.facts \union Facts(s) \union BesideFacts(s),
     audit |-> _merge_audit_log(document.audit, Audited(s))]

-----------------------------------------------------------------------------
MemoryInit ==
    /\ store = [d \in Documents |-> UserDocument]
    /\ statement = [c \in Sessions |-> NoStatement]
    /\ held = [c \in Sessions |-> NoDocument]
    /\ calls = 0 /\ faults = 0
    /\ promised = {} /\ excused = {}

Silent(c) == statement[c] = NoStatement
Reading(c) == ~Silent(c) /\ held[c] = NoDocument
Writing(c) == ~Silent(c) /\ held[c] # NoDocument
Target(c) == DocumentOf(statement[c].tool)

(* A call with nothing to write is refused and changes nothing. *)
Call(c) ==
    /\ Silent(c) /\ calls < MaxMemoryCalls
    /\ \E s \in Statements : Writes(s) /\ statement' = [statement EXCEPT ![c] = s]
    /\ calls' = calls + 1
    /\ UNCHANGED <<store, held, faults, promised, excused>>

(* get_user_profile, get_travel_history *)
Read(c) ==
    /\ Reading(c)
    /\ held' = [held EXCEPT ![c] = store[Target(c)]]
    /\ UNCHANGED <<store, statement, calls, faults, promised, excused>>

(* A read that fails is logged, and answers with an empty document. *)
ReadFails(c) ==
    /\ Reading(c) /\ faults < MaxMemoryFaults
    /\ held' = [held EXCEPT ![c] = UserDocument]
    /\ faults' = faults + 1
    /\ excused' = excused \union {Target(c)}
    /\ UNCHANGED <<store, statement, calls, promised>>

Ends(c) ==
    /\ statement' = [statement EXCEPT ![c] = NoStatement]
    /\ held' = [held EXCEPT ![c] = NoDocument]

Put(c) == store' = [store EXCEPT ![Target(c)] = WithFacts(held[c], statement[c])]

(* Another session is between its read and its write of the same document. *)
Overlapped(c) == \E other \in Sessions \ {c} : Writing(other) /\ Target(other) = Target(c)
Excuse(c) == excused' = IF Overlapped(c) THEN excused \union {Target(c)} ELSE excused

(* save_user_profile, save_travel_history, and the answer of the tool *)
Write(c) ==
    /\ Writing(c)
    /\ Put(c) /\ Excuse(c) /\ Ends(c)
    /\ promised' = promised \union
         ({Target(c)} \X (Facts(statement[c]) \union BesideFacts(statement[c])))
    /\ UNCHANGED <<calls, faults>>

(* The write fails, or the turn is cancelled in it: it may have been applied. *)
WriteFails(c) ==
    /\ Writing(c) /\ faults < MaxMemoryFaults
    /\ \/ Put(c) /\ Excuse(c)
       \/ UNCHANGED <<store, excused>>
    /\ Ends(c)
    /\ faults' = faults + 1
    /\ UNCHANGED <<calls, promised>>

MemoryNext == \E c \in Sessions : Call(c) \/ Read(c) \/ ReadFails(c) \/ Write(c) \/ WriteFails(c)

MemorySpec == MemoryInit /\ [][MemoryNext]_memoryVars

-----------------------------------------------------------------------------
(* What a tool has answered to have recorded stays in the user's memory through   *)
(* the updates of every tool and conversation, unless two updates of the same     *)
(* document overlapped or one started from a failed read; and nothing is in the   *)
(* memory, the attractions apart, without the audit entry that explains it until  *)
(* the log is full (core/store.py, tools/memory_tools.py).                        *)
MemoryKeepsItsWord ==
    /\ \A r \in promised : r[2] \in store[r[1]].facts \/ r[1] \in excused
    /\ \A d \in Documents : \A f \in store[d].facts :
          \/ f \in ToSet(store[d].audit)
          \/ f[1] = "visited_attractions"
          \/ Len(store[d].audit) = MaxAudit
=============================================================================
