----------------------------- MODULE Approvals -----------------------------
(* Approval governance of app/core/approval.py: requests for sensitive actions,  *)
(* in the database or in the memory of the process, decided by operators over    *)
(* the API and expired by whoever reads them late.                               *)
(*                                                                            *)
(* A request to the API loads a row, and writes it back later without a lock or   *)
(* a version: what happens in between is not seen.  The store in memory does the  *)
(* whole of it under its lock.                                                  *)
EXTENDS Naturals

CONSTANTS
    Marks,          (* sensitive actions to be marked *)
    Operators,      (* who may decide them *)
    ApiCalls,       (* requests of the API under way *)
    NoOperator,
    NoCall,
    MaxClock        (* bound: how often the time is taken *)

ASSUME ApprovalsAssumption == NoOperator \notin Operators /\ MaxClock \in Nat

VARIABLES
    env,            (* "development" or "production" *)
    storage,        (* what ApprovalGovernanceManager says *)
    place,          (* where a mark is kept: "nowhere", "database", "memory" *)
    madeBy,         (* who marked it: "api", "tool" *)
    deadline,        (* expires_at; later than MaxClock when it has none *)
    row,            (* status, decided_by and decided_at *)
    events,         (* the events after "created": a table, ordered by created_at alone *)
    clock,          (* _now() *)
    call            (* the rows a request has read and what it makes of them *)

approvalVars == <<env, storage, place, madeBy, deadline, row, events, clock, call>>

Row(status, by, at) == [status |-> status, by |-> by, at |-> at]
NoRow == Row("none", NoOperator, 0)
Pending == Row("pending", NoOperator, 0)
ExpiredRow == Row("expired", NoOperator, 0)
Decisions == {Row(status, p, 0) : status \in {"approved", "rejected"}, p \in Operators}
               \union {ExpiredRow}

(* Mutant: a failing database puts any process on its memory. *)
AnyEnvironment == TRUE

memory_fallback_allowed == env = "development"

should_use_memory_fallback == storage = "memory" /\ memory_fallback_allowed

StorageWithoutDatabase == IF memory_fallback_allowed THEN "memory" ELSE "postgres"

-----------------------------------------------------------------------------
(* Marking *)

Created(a, where, who) ==
    /\ place[a] = "nowhere"
    /\ place' = [place EXCEPT ![a] = where]
    /\ madeBy' = [madeBy EXCEPT ![a] = who]
    /\ row' = [row EXCEPT ![a] = Pending]
    /\ \E t \in (clock + 1)..(MaxClock + 1) : deadline' = [deadline EXCEPT ![a] = t]
    /\ UNCHANGED <<env, events, clock, call>>

(* POST /approvals *)
ApiMarks(a) ==
    /\ Created(a, IF should_use_memory_fallback THEN "memory" ELSE "database", "api")
    /\ UNCHANGED storage

(* The module's own mark_sensitive_action, which the tools call: memory, always *)
ToolMarks(a) == Created(a, "memory", "tool") /\ UNCHANGED storage

(* The commit of a mark is applied, and the answer does not arrive. *)
ApiMarksUnanswered(a) ==
    /\ ~should_use_memory_fallback
    /\ Created(a, "database", "api")
    /\ storage' = StorageWithoutDatabase

-----------------------------------------------------------------------------
(* Deciding *)

(* Nobody takes the same time twice. *)
Now == clock + 1
TakesTime == clock < MaxClock /\ clock' = Now

(* Mutant: the status of the record is not asked. *)
AnyRecord(record) == record.status # "none"

Decidable(record) == record.status = "pending"

Due(a, at) == deadline[a] <= at

(* The row that a decision makes at a time, and its event: decided_at and created_at *)
Ruling(a, decision, at) == [(IF Due(a, at) THEN ExpiredRow ELSE decision) EXCEPT !.at = at]

(* get and _decide or expire of the store in memory *)
MemoryDecides(a, decision) ==
    /\ should_use_memory_fallback /\ place[a] = "memory"
    /\ Decidable(row[a]) /\ TakesTime
    /\ row' = [row EXCEPT ![a] = Ruling(a, decision, Now)]
    /\ events' = [events EXCEPT ![a] = @ \union {Ruling(a, decision, Now)}]
    /\ UNCHANGED <<env, storage, place, madeBy, deadline, call>>

CallMoves(c, new) ==
    /\ call' = [call EXCEPT ![c] = new]
    /\ UNCHANGED <<env, storage, place, madeBy, deadline, row, events>>

Asks(c) == call[c] = NoCall /\ ~should_use_memory_fallback

Asked(phase, at, marks, decision) ==
    [phase |-> phase, at |-> at, marks |-> marks, decision |-> decision, copy |-> row]

(* approve, reject or expire of the store in the database: the time is taken first, *)
Decide(c, a, decision) ==
    /\ Asks(c) /\ place[a] = "database" /\ TakesTime
    /\ CallMoves(c, Asked("decides", Now, {a}, decision))

(* and then the row is read; the decision works on this copy. *)
Load(c) ==
    /\ call[c] # NoCall /\ call[c].phase = "decides"
    /\ CallMoves(c, [call[c] EXCEPT !.phase = "loaded", !.copy = row])
    /\ UNCHANGED clock

(* _expire_due_records of a listing, at a time taken before its SELECT *)
List(c) ==
    /\ Asks(c) /\ TakesTime
    /\ CallMoves(c, Asked("lists", Now, {}, ExpiredRow))

LoadDue(c) ==
    LET found == {a \in Marks : /\ place[a] = "database" /\ row[a].status = "pending"
                                /\ Due(a, call[c].at)} IN
    /\ call[c] # NoCall /\ call[c].phase = "lists"
    /\ CallMoves(c, IF found = {} THEN NoCall
                    ELSE [call[c] EXCEPT !.phase = "loaded", !.marks = found, !.copy = row])
    /\ UNCHANGED clock

(* get reads first and takes the time afterwards. *)
Get(c, a) ==
    /\ Asks(c) /\ place[a] = "database"
    /\ CallMoves(c, Asked("gets", 0, {a}, ExpiredRow))
    /\ UNCHANGED clock

ExpireIfDue(c) ==
    LET expirable == \A a \in call[c].marks : Decidable(call[c].copy[a]) /\ Due(a, Now) IN
    /\ call[c] # NoCall /\ call[c].phase = "gets" /\ TakesTime
    /\ CallMoves(c, IF expirable THEN [call[c] EXCEPT !.phase = "made", !.at = Now] ELSE NoCall)

(* _transition_model on the copy, after its status has been asked *)
Transition(c) ==
    /\ call[c] # NoCall /\ call[c].phase = "loaded"
    /\ \A a \in call[c].marks : Decidable(call[c].copy[a])
    /\ CallMoves(c, [call[c] EXCEPT !.phase = "made"])
    /\ UNCHANGED clock

StateError(c) ==
    /\ call[c] # NoCall /\ call[c].phase = "loaded"
    /\ \E a \in call[c].marks : ~Decidable(call[c].copy[a])
    /\ CallMoves(c, NoCall)
    /\ UNCHANGED clock

(* Mutant: the time of the first decision is kept. *)
UpdatedKeepingTime(old, copy, new) ==
    [new EXCEPT !.by = IF new.by = copy.by THEN old.by ELSE new.by,
                !.at = IF old.at = copy.at THEN new.at ELSE old.at]

(* The UPDATE sets the columns in which the copy was changed, and no others. *)
Updated(old, copy, new) == [new EXCEPT !.by = IF new.by = copy.by THEN old.by ELSE new.by]

Written(c) ==
    LET made(a) == Ruling(a, call[c].decision, call[c].at) IN
    /\ call[c] # NoCall /\ call[c].phase = "made"
    /\ row' = [a \in Marks |-> IF a \in call[c].marks
                               THEN Updated(row[a], call[c].copy[a], made(a)) ELSE row[a]]
    /\ events' = [a \in Marks |-> events[a] \union (IF a \in call[c].marks THEN {made(a)} ELSE {})]

Commit(c) ==
    /\ Written(c)
    /\ call' = [call EXCEPT ![c] = NoCall]
    /\ UNCHANGED <<env, storage, place, madeBy, deadline, clock>>

(* _fail_persistence, of a statement that was not applied or of a commit that was *)
FailPersistence(c) ==
    /\ call[c] # NoCall
    /\ Written(c) \/ UNCHANGED <<row, events>>
    /\ call' = [call EXCEPT ![c] = NoCall]
    /\ storage' = StorageWithoutDatabase
    /\ UNCHANGED <<env, place, madeBy, deadline, clock>>

(* mark_tool_audit_persistence_failed, or _fail_persistence of a read *)
OtherStatementFails ==
    /\ storage' = StorageWithoutDatabase
    /\ UNCHANGED <<env, place, madeBy, deadline, row, events, clock, call>>

(* The process starts again; verify_database finds the database, or does not. *)
Restart ==
    /\ storage' \in {"postgres", StorageWithoutDatabase}
    /\ call' = [c \in ApiCalls |-> NoCall]
    /\ place' = [a \in Marks |-> IF place[a] = "memory" THEN "nowhere" ELSE place[a]]
    /\ row' = [a \in Marks |-> IF place[a] = "memory" THEN NoRow ELSE row[a]]
    /\ events' = [a \in Marks |-> IF place[a] = "memory" THEN {} ELSE events[a]]
    /\ UNCHANGED <<env, madeBy, deadline, clock>>

-----------------------------------------------------------------------------
ApprovalsInit ==
    /\ env \in {"development", "production"} /\ storage = "postgres"
    /\ place = [a \in Marks |-> "nowhere"] /\ madeBy = [a \in Marks |-> "api"]
    /\ deadline = [a \in Marks |-> MaxClock + 1] /\ clock = 0
    /\ row = [a \in Marks |-> NoRow] /\ events = [a \in Marks |-> {}]
    /\ call = [c \in ApiCalls |-> NoCall]

ApprovalsNext ==
    \/ \E a \in Marks : \/ ApiMarks(a) \/ ToolMarks(a) \/ ApiMarksUnanswered(a)
                        \/ \E d \in Decisions : MemoryDecides(a, d)
    \/ \E c \in ApiCalls : \/ \E a \in Marks : Get(c, a) \/ \E d \in Decisions : Decide(c, a, d)
                           \/ Load(c) \/ List(c) \/ LoadDue(c) \/ ExpireIfDue(c)
                           \/ Transition(c) \/ StateError(c) \/ Commit(c) \/ FailPersistence(c)
    \/ OtherStatementFails \/ Restart

ApprovalsSpec == ApprovalsInit /\ [][ApprovalsNext]_approvalVars

-----------------------------------------------------------------------------
(* Properties *)

(* The event that list_events shows last *)
LastListed(a) == CHOOSE e \in events[a] : \A x \in events[a] : x.at <= e.at

(* The history of a request accounts for its row, whichever requests overlap, fail *)
(* or are answered late: the row is what one event of the history says, found by    *)
(* decided_at = created_at, and a decision names who made it.  An expired row may   *)
(* name somebody who had approved it.                                            *)
HistoryExplainsRow ==
    \A a \in Marks :
        IF events[a] = {} THEN row[a] \in {NoRow, Pending}
        ELSE \E e \in events[a] : /\ row[a].at = e.at /\ row[a].status = e.status
                                  /\ row[a].status # "expired" => row[a].by = e.by

(* The status of a request is derived from its history: it is the status of the last *)
(* event.  Of two overlapping decisions the one that took its time first may be      *)
(* committed last.                                                               *)
StatusIsLastEvent ==
    \A a \in Marks : events[a] # {} => row[a].status = LastListed(a).status

(* A decided request changes again only by a request to the API that had loaded   *)
(* it while it was pending; one in memory never does.                            *)
DecidedUnlessOverlapping ==
    [][\A a \in Marks :
         row[a] \notin {NoRow, Pending} /\ row'[a] # row[a] =>
           \/ place'[a] = "nowhere"
           \/ \E c \in ApiCalls : /\ call[c] # NoCall /\ call[c].phase = "made"
                                  /\ a \in call[c].marks /\ call[c].copy[a] = Pending]_approvalVars

(* In production what the API has marked is in the database, however often it     *)
(* failed meanwhile; only what a tool marked is gone after a restart.            *)
ProductionKeepsMarks ==
    \A a \in Marks : env = "production" /\ place[a] = "memory" => madeBy[a] = "tool"
=============================================================================
