--------------------------- MODULE ServicesProofs ---------------------------
(* Proofs about the services around a conversation: approvals, the tool guard,    *)
(* the rate limit, the MCP clients and the long-term memory.  They share no state; *)
(* each has its inductive invariant and the theorems that follow from it.         *)
EXTENDS Approvals, McpClients, RateLimit, ToolGuard, UserMemory,
        SequenceTheorems, FiniteSetTheorems, TLAPS

-----------------------------------------------------------------------------
(* Approvals *)

RowStatus == {"none", "pending", "approved", "rejected", "expired"}
ApprovalRow == [status : RowStatus, by : Operators \union {NoOperator}, at : Nat]

(* What a decision makes of a row: it names who made it, unless it expires the request. *)
DecidedRow ==
    {e \in ApprovalRow : /\ e.status \notin {"none", "pending"}
                         /\ e.status # "expired" => e.by # NoOperator}

CallRecord ==
    [phase : {"decides", "lists", "gets", "loaded", "made"}, at : Nat,
     marks : SUBSET Marks, decision : Decisions, copy : [Marks -> ApprovalRow]]

ApprovalsTypeOK ==
    /\ env \in {"development", "production"} /\ storage \in {"postgres", "memory"}
    /\ place \in [Marks -> {"nowhere", "database", "memory"}]
    /\ madeBy \in [Marks -> {"api", "tool"}]
    /\ row \in [Marks -> ApprovalRow] /\ events \in [Marks -> SUBSET DecidedRow]
    /\ deadline \in [Marks -> Nat] /\ clock \in Nat /\ DOMAIN call = ApiCalls

(* What a request holds: marks of the database, and copies of their rows, all pending *)
(* once it has seen that they are.                                               *)
Holds(k) ==
    /\ k \in CallRecord
    /\ \A a \in k.marks : place[a] = "database" /\ (k.phase = "made" => k.copy[a] = Pending)
    /\ \A a \in Marks : k.copy[a].status = "pending" => k.copy[a] = Pending

CallsHold == \A c \in ApiCalls : call[c] # NoCall => Holds(call[c])

NowhereIsBlank == \A a \in Marks : place[a] = "nowhere" => row[a] = NoRow /\ events[a] = {}

ProductionStaysOnDatabase == env = "production" => storage = "postgres"

ApprovalsInv ==
    /\ ApprovalsTypeOK /\ CallsHold /\ NowhereIsBlank /\ ProductionStaysOnDatabase
    /\ HistoryExplainsRow /\ ProductionKeepsMarks

(* A decision names who made it, and is no pending row. *)
LEMMA DecisionRows ==
    /\ Decisions \subseteq DecidedRow /\ {NoRow, Pending} \subseteq ApprovalRow
    /\ ExpiredRow \in Decisions
    /\ Pending.status = "pending" /\ NoRow.status = "none" /\ Pending.by = NoOperator
BY ApprovalsAssumption
DEF Decisions, DecidedRow, ApprovalRow, RowStatus, NoRow, Pending, ExpiredRow, Row

(* So is what it makes of a row at any time. *)
LEMMA RulingIsDecided ==
    ASSUME NEW a, NEW d \in Decisions, NEW t \in Nat
    PROVE  Ruling(a, d, t) \in DecidedRow
<1>1. \A e \in DecidedRow : [e EXCEPT !.at = t] \in DecidedRow
  BY DEF DecidedRow, ApprovalRow
<1>2. ExpiredRow \in DecidedRow /\ d \in DecidedRow
  BY DecisionRows
<1> QED BY <1>1, <1>2 DEF Ruling

(* A row that says pending is one nobody has decided. *)
LEMMA PendingIsPending ==
    ASSUME ApprovalsInv, NEW a \in Marks
    PROVE  /\ row[a].status = "pending" => row[a] = Pending
           /\ row[a] \notin {NoRow, Pending} => row[a].status \notin {"none", "pending"}
<1>1. CASE events[a] = {}
  BY <1>1, DecisionRows DEF ApprovalsInv, HistoryExplainsRow
<1>2. CASE events[a] # {}
  <2>1. PICK e \in events[a] : row[a].status = e.status
    BY <1>2 DEF ApprovalsInv, HistoryExplainsRow
  <2>2. e.status \notin {"none", "pending"}
    BY <2>1 DEF ApprovalsInv, ApprovalsTypeOK, DecidedRow
  <2> QED BY <2>1, <2>2
<1> QED BY <1>1, <1>2

(* The step that DecidedUnlessOverlapping allows *)
DecidedOnce ==
    \A a \in Marks :
        row[a] \notin {NoRow, Pending} /\ row'[a] # row[a] =>
          \/ place'[a] = "nowhere"
          \/ \E c \in ApiCalls : /\ call[c] # NoCall /\ call[c].phase = "made"
                                 /\ a \in call[c].marks /\ call[c].copy[a] = Pending

(* A request that holds rows keeps them while they stay in the database. *)
LEMMA CallsStillHold ==
    ASSUME CallsHold, call' = call,
           \A a \in Marks : place[a] = "database" => place'[a] = "database"
    PROVE  CallsHold'
<1>1. ASSUME NEW k, Holds(k)
      PROVE  Holds(k)'
  BY <1>1 DEF Holds, CallRecord
<1> QED BY <1>1 DEF CallsHold, Holds

(* A request is made, in the database or in the memory of the process: it is pending. *)
LEMMA MarkingKeepsInv ==
    ASSUME ApprovalsInv, NEW a \in Marks, ApiMarks(a) \/ ToolMarks(a) \/ ApiMarksUnanswered(a)
    PROVE  ApprovalsInv' /\ DecidedOnce
<1>1. PICK where \in {"database", "memory"}, who \in {"api", "tool"} :
          /\ Created(a, where, who)
          /\ where = "memory" /\ env = "production" => who = "tool"
  BY DEF ApiMarks, ToolMarks, ApiMarksUnanswered, should_use_memory_fallback,
         memory_fallback_allowed
<1>2. /\ storage' \in {"postgres", "memory"} /\ env' = env
      /\ storage' = storage \/ storage' = StorageWithoutDatabase
  BY DEF ApprovalsInv, ApprovalsTypeOK, ApiMarks, ToolMarks, ApiMarksUnanswered, Created,
         StorageWithoutDatabase
<1>3. row[a] = NoRow /\ events[a] = {} /\ events' = events
  BY <1>1 DEF ApprovalsInv, NowhereIsBlank, Created
<1>4. ApprovalsTypeOK'
  <2>1. PICK t \in (clock + 1)..(MaxClock + 1) : deadline' = [deadline EXCEPT ![a] = t]
    BY <1>1 DEF Created
  <2>2. t \in Nat
    BY ApprovalsAssumption DEF ApprovalsInv, ApprovalsTypeOK
  <2> QED
    BY <1>1, <1>2, <1>3, <2>1, <2>2, DecisionRows DEF ApprovalsInv, ApprovalsTypeOK, Created
<1>5. CallsHold'
  BY <1>1, CallsStillHold DEF ApprovalsInv, ApprovalsTypeOK, Created
<1>6. NowhereIsBlank' /\ ProductionKeepsMarks' /\ HistoryExplainsRow' /\ DecidedOnce
  <2>1. place' = [place EXCEPT ![a] = where] /\ row' = [row EXCEPT ![a] = Pending]
        /\ madeBy' = [madeBy EXCEPT ![a] = who]
    BY <1>1 DEF Created
  <2>2. NowhereIsBlank' /\ ProductionKeepsMarks' /\ DecidedOnce
    BY <1>1, <1>2, <1>3, <2>1
    DEF ApprovalsInv, ApprovalsTypeOK, NowhereIsBlank, ProductionKeepsMarks, DecidedOnce
  <2>3. HistoryExplainsRow'
    BY <1>3, <2>1 DEF ApprovalsInv, ApprovalsTypeOK, HistoryExplainsRow
  <2> QED BY <2>2, <2>3
<1>7. ProductionStaysOnDatabase'
  BY <1>2 DEF ApprovalsInv, ProductionStaysOnDatabase, StorageWithoutDatabase,
              memory_fallback_allowed
<1> QED BY <1>4, <1>5, <1>6, <1>7 DEF ApprovalsInv

(* The failures of the database leave the rows alone. *)
LEMMA FaultsKeepInv ==
    ASSUME ApprovalsInv, OtherStatementFails
    PROVE  ApprovalsInv' /\ DecidedOnce
<1>1. /\ UNCHANGED <<env, place, madeBy, deadline, row, events, clock, call>>
      /\ storage' = StorageWithoutDatabase
  BY DEF OtherStatementFails
<1>2. CallsHold'
  BY <1>1, CallsStillHold DEF ApprovalsInv
<1>3. ApprovalsTypeOK' /\ ProductionStaysOnDatabase'
  BY <1>1 DEF ApprovalsInv, ApprovalsTypeOK, ProductionStaysOnDatabase, StorageWithoutDatabase,
              memory_fallback_allowed
<1>4. NowhereIsBlank' /\ HistoryExplainsRow' /\ ProductionKeepsMarks' /\ DecidedOnce
  BY <1>1 DEF ApprovalsInv, NowhereIsBlank, HistoryExplainsRow, ProductionKeepsMarks, DecidedOnce
<1> QED BY <1>2, <1>3, <1>4 DEF ApprovalsInv

(* A decision in memory is one step: the row and its event. *)
LEMMA MemoryDecidesKeepsInv ==
    ASSUME ApprovalsInv, NEW a \in Marks, NEW d \in Decisions, MemoryDecides(a, d)
    PROVE  ApprovalsInv' /\ DecidedOnce
<1> DEFINE e == Ruling(a, d, Now)
<1>1. Now \in Nat /\ e \in DecidedRow
  BY RulingIsDecided DEF Now, ApprovalsInv, ApprovalsTypeOK
<1>2. /\ row' = [row EXCEPT ![a] = e] /\ events' = [events EXCEPT ![a] = @ \union {e}]
      /\ UNCHANGED <<env, storage, place, madeBy, deadline, call>> /\ clock' = Now
      /\ row[a].status = "pending" /\ place[a] = "memory"
  BY DEF MemoryDecides, Decidable, TakesTime
<1> HIDE DEF e
<1>3. row[a] = Pending
  BY <1>2, PendingIsPending
<1>4. /\ events'[a] = events[a] \union {e} /\ row'[a] = e
      /\ \A m \in Marks \ {a} : row'[m] = row[m] /\ events'[m] = events[m]
  BY <1>2 DEF ApprovalsInv, ApprovalsTypeOK
<1>5. ApprovalsTypeOK'
  <2>1. row' \in [Marks -> ApprovalRow] /\ events' \in [Marks -> SUBSET DecidedRow]
    BY <1>1, <1>2 DEF ApprovalsInv, ApprovalsTypeOK, DecidedRow
  <2> QED BY <1>1, <1>2, <2>1 DEF ApprovalsInv, ApprovalsTypeOK
<1>6. CallsHold'
  BY <1>2, CallsStillHold DEF ApprovalsInv
<1>7. HistoryExplainsRow'
  BY <1>4 DEF ApprovalsInv, HistoryExplainsRow
<1>8. NowhereIsBlank' /\ ProductionStaysOnDatabase' /\ ProductionKeepsMarks' /\ DecidedOnce
  BY <1>2, <1>3, <1>4 DEF ApprovalsInv, NowhereIsBlank, ProductionStaysOnDatabase,
                          ProductionKeepsMarks, DecidedOnce
<1> QED BY <1>5, <1>6, <1>7, <1>8 DEF ApprovalsInv

(* What only moves a request keeps everything else: it is enough to look at what this *)
(* request holds.                                                                *)
LEMMA CallMoved ==
    ASSUME ApprovalsInv, NEW c \in ApiCalls, NEW new, CallMoves(c, new),
           clock' \in Nat, new # NoCall => Holds(new)
    PROVE  ApprovalsInv' /\ DecidedOnce
<1>1. /\ call' = [call EXCEPT ![c] = new]
      /\ UNCHANGED <<env, storage, place, madeBy, deadline, row, events>>
  BY DEF CallMoves
<1>2. DOMAIN call' = ApiCalls /\ call'[c] = new /\ \A x \in ApiCalls \ {c} : call'[x] = call[x]
  BY <1>1 DEF ApprovalsInv, ApprovalsTypeOK
<1>3. ASSUME NEW k, Holds(k)
      PROVE  Holds(k)'
  BY <1>1, <1>3 DEF Holds, CallRecord
<1>4. CallsHold'
  <2> SUFFICES ASSUME NEW x \in ApiCalls, call'[x] # NoCall
               PROVE  Holds(call'[x])
    BY <1>1 DEF CallsHold, Holds, CallRecord
  <2> QED BY <1>2 DEF ApprovalsInv, CallsHold
<1> QED
  BY <1>1, <1>2, <1>4 DEF ApprovalsInv, ApprovalsTypeOK, NowhereIsBlank, ProductionStaysOnDatabase,
                          HistoryExplainsRow, ProductionKeepsMarks, DecidedOnce

(* A request takes copies of rows of the database. *)
LEMMA CopiesHold ==
    ASSUME ApprovalsInv, NEW phase \in {"decides", "lists", "gets", "loaded"}, NEW at \in Nat,
           NEW M \in SUBSET Marks, NEW d \in Decisions, \A a \in M : place[a] = "database"
    PROVE  Holds([phase |-> phase, at |-> at, marks |-> M, decision |-> d, copy |-> row])
<1> DEFINE k == [phase |-> phase, at |-> at, marks |-> M, decision |-> d, copy |-> row]
<1>1. k \in CallRecord
  BY DEF CallRecord, ApprovalsInv, ApprovalsTypeOK
<1>2. \A a \in Marks : k.copy[a].status = "pending" => k.copy[a] = Pending
  BY PendingIsPending
<1>3. k.phase # "made" /\ \A a \in k.marks : place[a] = "database"
  OBVIOUS
<1> HIDE DEF k
<1>4. Holds(k)
  BY <1>1, <1>2, <1>3 DEF Holds
<1> QED BY <1>4 DEF k

(* A request begins: it takes the time, or reads the row. *)
LEMMA AskingKeepsInv ==
    ASSUME ApprovalsInv, NEW c \in ApiCalls,
           List(c) \/ \E a \in Marks : Get(c, a) \/ \E d \in Decisions : Decide(c, a, d)
    PROVE  ApprovalsInv' /\ DecidedOnce
<1>1. Now \in Nat /\ clock' \in Nat
  <2>1. clock' = clock \/ clock' = Now
    BY DEF List, Get, Decide, TakesTime
  <2> QED BY <2>1 DEF Now, ApprovalsInv, ApprovalsTypeOK
<1>2. PICK phase \in {"decides", "lists", "gets"}, at \in Nat, M \in SUBSET Marks, d \in Decisions :
          /\ \A a \in M : place[a] = "database"
          /\ CallMoves(c, Asked(phase, at, M, d))
  BY <1>1, DecisionRows DEF List, Get, Decide
<1>3. Holds(Asked(phase, at, M, d))
  BY <1>2, CopiesHold DEF Asked
<1> QED BY <1>1, <1>2, <1>3, CallMoved

(* The rows are read. *)
LEMMA LoadKeepsInv ==
    ASSUME ApprovalsInv, NEW c \in ApiCalls, Load(c) \/ LoadDue(c)
    PROVE  ApprovalsInv' /\ DecidedOnce
<1>1. /\ call[c] # NoCall /\ clock' = clock /\ Holds(call[c])
      /\ clock' \in Nat
  BY DEF Load, LoadDue, ApprovalsInv, ApprovalsTypeOK, CallsHold
<1>2. call[c] \in CallRecord
  BY <1>1 DEF Holds
<1> DEFINE k(M) == [call[c] EXCEPT !.phase = "loaded", !.marks = M, !.copy = row]
<1>3. ASSUME NEW M \in SUBSET Marks, \A a \in M : place[a] = "database"
      PROVE  Holds(k(M))
  <2>1. k(M) \in CallRecord /\ k(M).phase # "made" /\ k(M).marks = M /\ k(M).copy = row
    BY <1>2, <1>3 DEF CallRecord, ApprovalsInv, ApprovalsTypeOK
  <2> HIDE DEF k
  <2> QED BY <1>3, <2>1, PendingIsPending DEF Holds
<1>4. CASE Load(c)
  <2>1. call[c].marks \in SUBSET Marks /\ \A a \in call[c].marks : place[a] = "database"
    BY <1>1, <1>2 DEF Holds, CallRecord
  <2>2. k(call[c].marks) = [call[c] EXCEPT !.phase = "loaded", !.copy = row]
    BY <1>2 DEF CallRecord
  <2>3. CallMoves(c, k(call[c].marks))
    BY <1>4, <2>2 DEF Load
  <2>4. Holds(k(call[c].marks))
    BY <1>3, <2>1
  <2> HIDE DEF k
  <2> QED BY <1>1, <2>3, <2>4, CallMoved
<1>5. CASE LoadDue(c)
  <2> DEFINE found == {a \in Marks : /\ place[a] = "database" /\ row[a].status = "pending"
                                     /\ Due(a, call[c].at)}
  <2>1. Holds(k(found))
    BY <1>3
  <2>2. CallMoves(c, NoCall) \/ CallMoves(c, k(found))
    BY <1>5 DEF LoadDue
  <2> HIDE DEF k, found
  <2> QED BY <1>1, <2>1, <2>2, CallMoved
<1> QED BY <1>4, <1>5

(* The request decides on the rows that it has read. *)
LEMMA TransitionKeepsInv ==
    ASSUME ApprovalsInv, NEW c \in ApiCalls, Transition(c) \/ StateError(c) \/ ExpireIfDue(c)
    PROVE  ApprovalsInv' /\ DecidedOnce
<1>1. /\ call[c] # NoCall /\ Holds(call[c]) /\ call[c] \in CallRecord
      /\ Now \in Nat /\ clock' \in Nat /\ clock \in Nat
  BY DEF Transition, StateError, ExpireIfDue, TakesTime, Now, ApprovalsInv, ApprovalsTypeOK,
         CallsHold, Holds
<1>2. ASSUME NEW t \in Nat, \A a \in call[c].marks : Decidable(call[c].copy[a])
      PROVE  Holds([call[c] EXCEPT !.phase = "made", !.at = t])
  <2> DEFINE k == [call[c] EXCEPT !.phase = "made", !.at = t]
  <2>1. k \in CallRecord /\ k.marks = call[c].marks /\ k.copy = call[c].copy
    BY <1>1 DEF CallRecord
  <2>2. k.marks \in SUBSET Marks
    BY <1>1, <2>1 DEF CallRecord
  <2> HIDE DEF k
  <2>3. Holds(k)
    BY <1>1, <1>2, <2>1, <2>2 DEF Holds, Decidable
  <2> QED BY <2>3 DEF k
<1>3. CallMoves(c, NoCall)
      \/ \E t \in Nat : /\ \A a \in call[c].marks : Decidable(call[c].copy[a])
                        /\ CallMoves(c, [call[c] EXCEPT !.phase = "made", !.at = t])
  <2>1. CASE Transition(c)
    <3>1. [call[c] EXCEPT !.phase = "made"] = [call[c] EXCEPT !.phase = "made", !.at = call[c].at]
          /\ call[c].at \in Nat
      BY <1>1 DEF CallRecord
    <3> QED BY <2>1, <3>1 DEF Transition
  <2>2. CASE StateError(c)
    BY <2>2 DEF StateError
  <2>3. CASE ExpireIfDue(c)
    BY <1>1, <2>3 DEF ExpireIfDue
  <2> QED BY <2>1, <2>2, <2>3
<1> QED BY <1>1, <1>2, <1>3, CallMoved

(* What the request decided is committed, over whatever is there, with its event. *)
LEMMA WrittenKeepsInv ==
    ASSUME ApprovalsInv, NEW c \in ApiCalls, Written(c),
           call' = [call EXCEPT ![c] = NoCall],
           storage' = storage \/ storage' = StorageWithoutDatabase,
           UNCHANGED <<env, place, madeBy, deadline, clock>>
    PROVE  ApprovalsInv' /\ DecidedOnce
<1> DEFINE M == call[c].marks
           made(a) == Ruling(a, call[c].decision, call[c].at)
<1>1. /\ call[c] \in CallRecord /\ M \in SUBSET Marks /\ call[c].phase = "made"
      /\ \A a \in M : call[c].copy[a] = Pending /\ place[a] = "database"
  BY DEF Written, ApprovalsInv, CallsHold, Holds, CallRecord
<1>2. \A a \in M : made(a) \in DecidedRow
  BY <1>1, RulingIsDecided DEF CallRecord
<1>3. \A a \in M : /\ row'[a] = [made(a) EXCEPT !.by = IF made(a).by = NoOperator THEN row[a].by
                                                       ELSE made(a).by]
                   /\ events'[a] = events[a] \union {made(a)}
  BY <1>1, DecisionRows DEF Written, Updated
<1>4. \A a \in Marks \ M : row'[a] = row[a] /\ events'[a] = events[a]
  BY DEF Written
<1>5. /\ row' = [a \in Marks |-> row'[a]] /\ events' = [a \in Marks |-> events'[a]]
      /\ DOMAIN call' = ApiCalls
      /\ \A x \in ApiCalls : call'[x] = NoCall \/ call'[x] = call[x]
  BY DEF Written, ApprovalsInv, ApprovalsTypeOK
<1> HIDE DEF M, made
<1>6. ASSUME NEW a \in M
      PROVE  /\ row'[a] \in ApprovalRow /\ row'[a].status = made(a).status /\ row'[a].at = made(a).at
             /\ row'[a].status # "expired" => row'[a].by = made(a).by
  <2>1. /\ made(a) \in ApprovalRow /\ row[a] \in ApprovalRow
        /\ made(a).status # "expired" => made(a).by # NoOperator
    BY <1>1, <1>2 DEF ApprovalsInv, ApprovalsTypeOK, DecidedRow
  <2> QED BY <1>3, <2>1 DEF ApprovalRow
<1>7. ApprovalsTypeOK'
  <2>1. row' \in [Marks -> ApprovalRow]
    BY <1>4, <1>5, <1>6 DEF ApprovalsInv, ApprovalsTypeOK
  <2>2. \A a \in Marks : events[a] \in SUBSET DecidedRow
    BY DEF ApprovalsInv, ApprovalsTypeOK
  <2>3. ASSUME NEW a \in Marks
        PROVE  events'[a] \in SUBSET DecidedRow
    <3>1. CASE a \in M
      <4>1. made(a) \in DecidedRow /\ events'[a] = events[a] \union {made(a)}
        BY <1>2, <1>3, <3>1
      <4> QED BY <2>2, <4>1
    <3> QED BY <1>4, <2>2, <3>1
  <2>4. events' \in [Marks -> SUBSET DecidedRow]
    BY <1>5, <2>3
  <2> QED BY <1>5, <2>1, <2>4 DEF ApprovalsInv, ApprovalsTypeOK, StorageWithoutDatabase
<1>8. CallsHold'
  <2> SUFFICES ASSUME NEW x \in ApiCalls, call'[x] # NoCall
               PROVE  Holds(call[x])
    BY <1>5 DEF CallsHold, Holds, CallRecord
  <2> QED BY <1>5 DEF ApprovalsInv, CallsHold
<1>9. HistoryExplainsRow'
  <2>1. ASSUME NEW a \in M
        PROVE  \E e \in events'[a] : /\ row'[a].at = e.at /\ row'[a].status = e.status
                                     /\ row'[a].status # "expired" => row'[a].by = e.by
    <3>1. made(a) \in events'[a]
      BY <1>3
    <3> QED BY <1>6, <3>1
  <2>2. \A a \in M : events'[a] # {}
    BY <2>1
  <2> QED BY <1>4, <2>1, <2>2 DEF ApprovalsInv, HistoryExplainsRow
<1>10. NowhereIsBlank' /\ ProductionStaysOnDatabase' /\ ProductionKeepsMarks'
  BY <1>1, <1>4 DEF ApprovalsInv, NowhereIsBlank, ProductionStaysOnDatabase, ProductionKeepsMarks,
                    StorageWithoutDatabase, memory_fallback_allowed
<1>11. DecidedOnce
  BY <1>1, <1>4 DEF DecidedOnce, Written, M
<1> QED BY <1>7, <1>8, <1>9, <1>10, <1>11 DEF ApprovalsInv

(* A restart forgets the requests under way and what is in memory only. *)
LEMMA RestartKeepsInv ==
    ASSUME ApprovalsInv, Restart
    PROVE  ApprovalsInv' /\ DecidedOnce
<1>1. ApprovalsTypeOK'
  BY DecisionRows DEF ApprovalsInv, ApprovalsTypeOK, Restart, StorageWithoutDatabase
<1>2. CallsHold'
  BY DEF Restart, CallsHold
<1>3. NowhereIsBlank' /\ ProductionStaysOnDatabase' /\ ProductionKeepsMarks'
  BY DEF ApprovalsInv, ApprovalsTypeOK, NowhereIsBlank, ProductionStaysOnDatabase,
         ProductionKeepsMarks, Restart, StorageWithoutDatabase, memory_fallback_allowed
<1>4. HistoryExplainsRow' /\ DecidedOnce
  BY DEF ApprovalsInv, ApprovalsTypeOK, HistoryExplainsRow, DecidedOnce, Restart
<1> QED BY <1>1, <1>2, <1>3, <1>4 DEF ApprovalsInv

(* Every step keeps the invariant of the approvals, and takes back no decision by itself. *)
LEMMA ApprovalsStep ==
    ASSUME ApprovalsInv, [ApprovalsNext]_approvalVars
    PROVE  ApprovalsInv' /\ DecidedOnce
<1>1. ASSUME NEW c \in ApiCalls, Commit(c) \/ FailPersistence(c)
      PROVE  ApprovalsInv' /\ DecidedOnce
  <2>1. CASE Written(c)
    BY <1>1, <2>1, WrittenKeepsInv DEF Commit, FailPersistence
  <2>2. CASE ~Written(c)
    <3>1. /\ UNCHANGED <<env, place, madeBy, deadline, row, events, clock>>
          /\ call' = [call EXCEPT ![c] = NoCall] /\ storage' = StorageWithoutDatabase
      BY <1>1, <2>2 DEF Commit, FailPersistence
    <3>2. /\ DOMAIN call' = ApiCalls
          /\ \A x \in ApiCalls : call'[x] = NoCall \/ call'[x] = call[x]
      BY <3>1 DEF ApprovalsInv, ApprovalsTypeOK
    <3>3. CallsHold'
      <4> SUFFICES ASSUME NEW x \in ApiCalls, call'[x] # NoCall
                   PROVE  Holds(call[x])
        BY <3>1, <3>2 DEF CallsHold, Holds, CallRecord
      <4> QED BY <3>2 DEF ApprovalsInv, CallsHold
    <3> QED
      BY <3>1, <3>2, <3>3
      DEF ApprovalsInv, ApprovalsTypeOK, NowhereIsBlank, ProductionStaysOnDatabase,
          HistoryExplainsRow, ProductionKeepsMarks, DecidedOnce,
          StorageWithoutDatabase, memory_fallback_allowed
  <2> QED BY <2>1, <2>2
<1>2. CASE UNCHANGED approvalVars
  <2>1. UNCHANGED <<env, storage, place, madeBy, deadline, row, events, clock, call>>
    BY <1>2 DEF approvalVars
  <2>2. CallsHold'
    BY <2>1, CallsStillHold DEF ApprovalsInv, ApprovalsTypeOK
  <2> QED
    BY <2>1, <2>2 DEF ApprovalsInv, ApprovalsTypeOK, NowhereIsBlank, ProductionStaysOnDatabase,
                      HistoryExplainsRow, ProductionKeepsMarks, DecidedOnce
<1> QED
  BY <1>1, <1>2, MarkingKeepsInv, FaultsKeepInv, MemoryDecidesKeepsInv, AskingKeepsInv,
     LoadKeepsInv, TransitionKeepsInv, RestartKeepsInv
  DEF ApprovalsNext

(* The invariant holds before the first request. *)
LEMMA ApprovalsInit_Inv == ApprovalsInit => ApprovalsInv
BY DecisionRows, ApprovalsAssumption
DEF ApprovalsInit, ApprovalsInv, ApprovalsTypeOK, CallsHold, NowhereIsBlank,
    ProductionStaysOnDatabase, HistoryExplainsRow, ProductionKeepsMarks

(* The inductive invariant *)
THEOREM ApprovalsAreGoverned == ApprovalsSpec => []ApprovalsInv
<1>1. ApprovalsInv /\ [ApprovalsNext]_approvalVars => ApprovalsInv'
  BY ApprovalsStep
<1> QED BY <1>1, ApprovalsInit_Inv, PTL DEF ApprovalsSpec

(* With any number of marks, operators and overlapping requests, a row is what one event
   of its history says, found by the time that both keep; which need not be the event that
   is listed last (core/approval.py). *)
THEOREM RowsAreExplained == ApprovalsSpec => []HistoryExplainsRow
<1>1. ApprovalsInv => HistoryExplainsRow
  BY DEF ApprovalsInv
<1> QED BY <1>1, ApprovalsAreGoverned, PTL

(* In production a mark that has been made is never only in memory (core/approval.py). *)
THEOREM ProductionMarksStay == ApprovalsSpec => []ProductionKeepsMarks
<1>1. ApprovalsInv => ProductionKeepsMarks
  BY DEF ApprovalsInv
<1> QED BY <1>1, ApprovalsAreGoverned, PTL

(* A decision is changed only by a request that had read the row as pending before it
   was made (core/approval.py). *)
THEOREM DecisionsStand == ApprovalsSpec => DecidedUnlessOverlapping
<1>1. ApprovalsInv /\ [ApprovalsNext]_approvalVars =>
        [\A a \in Marks :
           row[a] \notin {NoRow, Pending} /\ row'[a] # row[a] =>
             \/ place'[a] = "nowhere"
             \/ \E c \in ApiCalls : /\ call[c] # NoCall /\ call[c].phase = "made"
                                    /\ a \in call[c].marks /\ call[c].copy[a] = Pending]_approvalVars
  BY ApprovalsStep DEF DecidedOnce
<1> QED BY <1>1, ApprovalsAreGoverned, PTL DEF ApprovalsSpec, DecidedUnlessOverlapping

-----------------------------------------------------------------------------
(* The MCP clients *)

LoadRow == [at : {"idle", "loading", "asleep"}, attempt : Nat]

McpTypeOK ==
    /\ cache \in 0..NoTools
    /\ health \in [status : {"uninitialized", "healthy", "unavailable"}, tools : 0..MaxTools]
    /\ load \in [Loads -> LoadRow]

(* A load that is under way has made an attempt. *)
AttemptsCounted == \A l \in Loads : load[l].at # "idle" => load[l].attempt > 0

McpInv == McpTypeOK /\ AttemptsCounted /\ HealthTellsTheCache

(* One load moves at a time. *)
LEMMA LoadMoves ==
    ASSUME McpTypeOK, AttemptsCounted, NEW l \in Loads, NEW moved \in LoadRow,
           moved.at # "idle" => moved.attempt > 0,
           load' = [load EXCEPT ![l] = moved]
    PROVE  load' \in [Loads -> LoadRow] /\ AttemptsCounted'
BY DEF McpTypeOK, AttemptsCounted

(* Whatever happens to the loads, those under way have made an attempt. *)
LEMMA LoadsCounted ==
    ASSUME McpTypeOK, AttemptsCounted, [McpNext]_mcpVars
    PROVE  load' \in [Loads -> LoadRow] /\ AttemptsCounted'
<1>1. ASSUME NEW l \in Loads, NEW f \in BOOLEAN, LoadBegins(l, f)
      PROVE  load' \in [Loads -> LoadRow] /\ AttemptsCounted'
  <2> DEFINE moved == [at |-> "loading", attempt |-> 1]
  <2>1. load' = [load EXCEPT ![l] = moved]
    BY <1>1 DEF LoadBegins
  <2>2. moved \in LoadRow /\ moved.attempt > 0
    BY DEF LoadRow
  <2> HIDE DEF moved
  <2> QED BY <2>1, <2>2, LoadMoves
<1>2. ASSUME NEW l \in Loads, \/ \E n \in 0..MaxTools : LoadSucceeds(l, n)
                              \/ LoadFails(l) \/ LoadCancelled(l)
      PROVE  load' \in [Loads -> LoadRow] /\ AttemptsCounted'
  <2>1. Idle \in LoadRow /\ Idle.at = "idle"
    BY DEF Idle, LoadRow
  <2> QED BY <1>2, <2>1, LoadMoves DEF LoadSucceeds, LoadFails, LoadCancelled
<1>3. ASSUME NEW l \in Loads, AttemptFails(l)
      PROVE  load' \in [Loads -> LoadRow] /\ AttemptsCounted'
  <2> DEFINE moved == [load[l] EXCEPT !.at = "asleep"]
  <2>1. load' = [load EXCEPT ![l] = moved]
    BY <1>3 DEF AttemptFails, McpTypeOK, LoadRow
  <2>2. moved \in LoadRow /\ moved.attempt > 0
    BY <1>3 DEF AttemptFails, McpTypeOK, AttemptsCounted, LoadRow
  <2> HIDE DEF moved
  <2> QED BY <2>1, <2>2, LoadMoves
<1>4. ASSUME NEW l \in Loads, Retries(l)
      PROVE  load' \in [Loads -> LoadRow] /\ AttemptsCounted'
  <2> DEFINE moved == [at |-> "loading", attempt |-> load[l].attempt + 1]
  <2>1. load' = [load EXCEPT ![l] = moved]
    BY <1>4 DEF Retries, McpTypeOK
  <2>2. moved \in LoadRow /\ moved.attempt > 0
    BY <1>4 DEF Retries, McpTypeOK, LoadRow
  <2> HIDE DEF moved
  <2> QED BY <2>1, <2>2, LoadMoves
<1>5. CASE load' = load
  BY <1>5 DEF McpTypeOK, AttemptsCounted
<1> QED
  BY <1>1, <1>2, <1>3, <1>4, <1>5
  DEF McpNext, mcpVars, SessionOpens, SessionFails, SessionEnds, close

(* What a step that leaves cache and health as they are must keep of the excuse *)
McpExcused == gaveUp \/ \E l \in Loads : load[l].at = "asleep" \/ load[l].attempt > 1

(* The ways in which a step treats the tools that are kept and the health *)
McpEffect ==
    \/ \E s \in {"uninitialized", "unavailable"} : cache' = NoTools /\ health' = Health(s, 0)
    \/ \E n \in 0..MaxTools : cache' = n /\ health' = Health("healthy", n)
    \/ cache' = cache /\ health' = Health("healthy", IF cache = NoTools THEN 0 ELSE cache)
    \/ cache' = NoTools /\ health' = health /\ McpExcused'
    \/ cache' = cache /\ health' = health /\ (McpExcused => McpExcused')

(* Every step is one of these effects on the cache and the health. *)
LEMMA McpEffects ==
    ASSUME McpTypeOK, AttemptsCounted, [McpNext]_mcpVars
    PROVE  McpEffect
<1>1. ASSUME NEW l \in Loads, NEW f \in BOOLEAN, LoadBegins(l, f)
      PROVE  cache' = cache /\ health' = health /\ (McpExcused => McpExcused')
  <2>1. \A k \in Loads : load[k].at = "asleep" \/ load[k].attempt > 1 => load'[k] = load[k]
    BY <1>1 DEF LoadBegins, Idle, McpTypeOK
  <2> QED BY <1>1, <2>1 DEF LoadBegins, McpExcused
<1>2. ASSUME NEW l \in Loads, NEW n \in 0..MaxTools, LoadSucceeds(l, n)
      PROVE  cache' = n /\ health' = Health("healthy", n)
  BY <1>2 DEF LoadSucceeds
<1>3. ASSUME NEW l \in Loads, AttemptFails(l)
      PROVE  cache' = NoTools /\ health' = health /\ McpExcused'
  <2>1. load'[l].at = "asleep"
    BY <1>3 DEF AttemptFails, McpTypeOK, LoadRow
  <2> QED BY <1>3, <2>1 DEF AttemptFails, DropCache, McpExcused
<1>4. ASSUME NEW l \in Loads, Retries(l)
      PROVE  cache' = cache /\ health' = health /\ McpExcused'
  <2>1. load'[l].attempt > 1
    BY <1>4 DEF Retries, McpTypeOK, AttemptsCounted, LoadRow
  <2> QED BY <1>4, <2>1 DEF Retries, McpExcused
<1>5. ASSUME NEW l \in Loads, LoadFails(l)
      PROVE  cache' = NoTools /\ health' = Health("unavailable", 0)
  BY <1>5 DEF LoadFails, DropCache
<1>6. ASSUME NEW l \in Loads, LoadCancelled(l)
      PROVE  cache' = cache /\ health' = health /\ (McpExcused => McpExcused')
  <2>1. CASE gaveUp \/ load[l].at = "asleep" \/ load[l].attempt > 1
    BY <1>6, <2>1 DEF LoadCancelled, McpExcused
  <2>2. CASE ~(load[l].at = "asleep" \/ load[l].attempt > 1)
    <3>1. \A k \in Loads : load[k].at = "asleep" \/ load[k].attempt > 1 => load'[k] = load[k]
      BY <1>6, <2>2 DEF LoadCancelled, McpTypeOK
    <3> QED BY <1>6, <3>1 DEF LoadCancelled, McpExcused
  <2> QED BY <2>1, <2>2
<1>7. ASSUME NEW s \in McpSessions, SessionOpens(s) \/ SessionFails(s) \/ SessionEnds(s)
      PROVE  McpEffect
  BY <1>7 DEF SessionOpens, SessionFails, SessionEnds, DropCache, McpExcused, McpEffect
<1>8. CASE close
  BY <1>8 DEF close, McpEffect
<1>9. CASE UNCHANGED mcpVars
  BY <1>9 DEF mcpVars, McpEffect, McpExcused
<1> QED BY <1>1, <1>2, <1>3, <1>4, <1>5, <1>6, <1>7, <1>8, <1>9 DEF McpNext, McpEffect

(* Every step keeps the invariant of the clients. *)
LEMMA McpStep ==
    ASSUME McpInv, [McpNext]_mcpVars
    PROVE  McpInv'
<1>1. McpTypeOK /\ AttemptsCounted
  BY DEF McpInv
<1>2. load' \in [Loads -> LoadRow] /\ AttemptsCounted'
  BY <1>1, LoadsCounted
<1>3. McpEffect
  BY <1>1, McpEffects
<1>4. /\ cache' \in 0..NoTools
      /\ health' \in [status : {"uninitialized", "healthy", "unavailable"}, tools : 0..MaxTools]
  BY <1>1, <1>3, McpAssumption DEF McpEffect, McpTypeOK, NoTools, Health
<1>5. HealthTellsTheCache'
  BY <1>1, <1>3, McpAssumption
  DEF McpInv, McpEffect, McpTypeOK, NoTools, Health, HealthTellsTheCache, McpExcused
<1> QED BY <1>2, <1>4, <1>5 DEF McpInv, McpTypeOK

(* HealthTellsTheCache holds for any number of loads, sessions, attempts and tools: *)
(* an attempt that failed clears the tools before the health is told, and until     *)
(* then somebody is between two attempts or has gone away there.                   *)
THEOREM HealthIsTold == McpSpec => []HealthTellsTheCache
<1>1. McpInit => McpInv
  BY McpAssumption
  DEF McpInit, McpInv, McpTypeOK, AttemptsCounted, HealthTellsTheCache, NoTools, Health, Idle, LoadRow
<1>2. McpInv /\ [McpNext]_mcpVars => McpInv'
  BY McpStep
<1>3. McpInv => HealthTellsTheCache
  BY DEF McpInv
<1> QED BY <1>1, <1>2, <1>3, PTL DEF McpSpec

-----------------------------------------------------------------------------
(* The rate limit *)

Asking == {"idle", "keyed", "sent", "expiring", "counted"}
RequestRow == [at : Asking \union {"admitted", "refused"}, key : Windows, now : Windows,
               count : Nat, seen : Windows, by : Processes \union {"redis", "nobody"}]
BucketRow == [start : Windows, count : Nat]

RateTypeOK ==
    /\ window \in Windows
    /\ counter \in [Windows -> Nat] /\ expires \in [Windows -> 0..Never]
    /\ bucket \in [Processes -> [Windows -> BucketRow]]
    /\ req \in [Requests -> RequestRow]

(* A request is keyed with a window that has come, and nobody has decided on it yet. *)
KeysHaveCome ==
    \A r \in Requests : /\ req[r].at # "idle" => req[r].key <= window
                        /\ req[r].at \in {"sent", "expiring", "counted"} => req[r].key <= req[r].now
                        /\ req[r].at \in Asking => req[r].by = "nobody"
                        /\ req[r].by \in Processes => backend = "local" \/ local_fallback

(* No key expires before its window is over. *)
KeysOutlastWindows == \A w \in Windows : expires[w] >= w

(* Counted in Redis in the window of its key *)
CountedInWindow(q, w) ==
    (q.at \in {"expiring", "counted"} \/ q.by = "redis") /\ q.key = w /\ q.seen = w

(* The counter of the present window has been told to each of them, and to each another. *)
CountsDiffer ==
    \A w \in Windows, r \in Requests : CountedInWindow(req[r], w) =>
        /\ req[r].count > 0
        /\ window = w => req[r].count <= counter[w]
        /\ req[r].at = "admitted" => req[r].count <= Limit
        /\ \A s \in Requests \ {r} : CountedInWindow(req[s], w) => req[s].count # req[r].count

Admitted(by, w) == {r \in Requests : /\ req[r].at = "admitted" /\ req[r].by = by
                                     /\ req[r].key = w /\ req[r].seen = w}

(* A process has admitted in the window of a key at most as many as its bucket counts. *)
BucketsCount ==
    \A p \in Processes, w \in Windows :
        /\ IsFiniteSet(Admitted(p, w))
        /\ Cardinality(Admitted(p, w)) <= Limit
        /\ window <= w => /\ bucket[p][w].start = w
                          /\ Cardinality(Admitted(p, w)) <= bucket[p][w].count

RateInv == RateTypeOK /\ KeysHaveCome /\ KeysOutlastWindows /\ CountsDiffer /\ BucketsCount

(* The windows are the numbers up to the bound; a key that never expires is beyond them. *)
LEMMA RateWindows == Windows \subseteq Nat /\ Windows \subseteq Int /\ \A w \in Windows : w <= MaxWindow /\ Never = MaxWindow + 1 /\ w < Never
BY RateAssumption DEF Windows, Never

(* Redis admits no more than the counts that are within the limit. *)
LEMMA RedisKeepsLimit ==
    ASSUME RateTypeOK, CountsDiffer, NEW w \in Windows
    PROVE  Cardinality(Admitted("redis", w)) <= Limit
<1> DEFINE A == Admitted("redis", w)
           f == [r \in A |-> req[r].count]
<1>1. Limit \in Nat /\ \A r \in A : r \in Requests /\ CountedInWindow(req[r], w) /\ req[r].at = "admitted" /\ req[r].count \in Nat
  BY RateAssumption DEF Admitted, CountedInWindow, RateTypeOK, RequestRow
<1>2. \A r \in A : req[r].count \in 1..Limit
  BY <1>1 DEF CountsDiffer
<1>3. \A r, s \in A : req[r].count = req[s].count => r = s
  BY <1>1 DEF CountsDiffer
<1>4. f \in Injection(A, 1..Limit)
  BY <1>2, <1>3 DEF Injection, IsInjective
<1>5. IsFiniteSet(1..Limit) /\ Cardinality(1..Limit) = Limit
  BY <1>1, FS_Interval
<1>6. Cardinality(A) <= Cardinality(1..Limit)
  <2> HIDE DEF A, f
  <2> QED BY <1>4, <1>5, FS_Injection
<1> QED BY <1>5, <1>6

(* The invariant implies the limit: Redis by its counts, the processes by their buckets. *)
LEMMA RateInvImplies ==
    ASSUME RateInv
    PROVE  LimitPerWindow
<1>1. ASSUME NEW w \in Windows, NEW by \in {"redis"} \union Processes
      PROVE  /\ Cardinality(Admitted(by, w)) <= Limit
             /\ Admitted(by, w) # {} => by = "redis" \/ backend = "local" \/ local_fallback
  <2>1. Cardinality(Admitted(by, w)) <= Limit
    BY RedisKeepsLimit DEF RateInv, BucketsCount
  <2>2. Admitted(by, w) # {} => by = "redis" \/ backend = "local" \/ local_fallback
    BY DEF RateInv, KeysHaveCome, Admitted
  <2> QED BY <2>1, <2>2
<1> QED BY <1>1 DEF LimitPerWindow, Admitted

(* What the commands do to the keys: counters grow, and a key is kept for its window. *)
KeysGrow ==
    /\ counter' \in [Windows -> Nat] /\ expires' \in [Windows -> 0..Never]
    /\ \A w \in Windows : counter'[w] >= counter[w] /\ expires'[w] >= w

(* Keys that nobody touches are kept. *)
LEMMA KeysUntouched ==
    ASSUME RateInv, UNCHANGED <<counter, expires>>
    PROVE  KeysGrow
<1> USE DEF RateInv, RateTypeOK, KeysOutlastWindows, KeysGrow
<1> QED OBVIOUS

(* INCR raises one counter. *)
LEMMA IncrementGrows ==
    ASSUME RateInv, NEW w \in Windows, Incremented(w), UNCHANGED expires
    PROVE  KeysGrow /\ counter'[w] = counter[w] + 1
BY DEF RateInv, RateTypeOK, KeysOutlastWindows, KeysGrow, Incremented

(* EXPIRE at the end of a window that is not before the key's keeps the key that long. *)
LEMMA ExpiryGrows ==
    ASSUME RateInv, NEW w \in Windows, NEW now \in Windows, w <= now, Expiring(w, now), UNCHANGED counter
    PROVE  KeysGrow
<1>1. EndOf(now) - 1 = now /\ now \in 0..Never
  BY RateWindows, RateAssumption DEF EndOf, Never, Windows
<1> QED BY <1>1 DEF RateInv, RateTypeOK, KeysOutlastWindows, KeysGrow, Expiring

(* A command that nobody answers does no more than one that is answered. *)
LEMMA UnansweredGrows ==
    ASSUME RateInv, NEW r \in Requests, Unanswered(r)
    PROVE  KeysGrow /\ req[r].at \in {"sent", "expiring", "counted"}
<1>1. req[r].key \in Windows /\ req[r].now \in Windows
  BY DEF RateInv, RateTypeOK, RequestRow
<1>2. req[r].at \in {"sent", "expiring", "counted"} /\ req[r].key <= req[r].now
  BY DEF Unanswered, RateInv, KeysHaveCome
<1> QED BY <1>1, <1>2, KeysUntouched, IncrementGrows, ExpiryGrows DEF Unanswered

(* A request that moves on, as far as Redis is concerned *)
LEMMA RequestMoves ==
    ASSUME RateInv, KeysGrow, UNCHANGED <<window, backend, local_fallback>>,
           NEW r \in Requests, NEW q \in RequestRow, req' = [req EXCEPT ![r] = q],
           /\ q.at # "idle" => q.key <= window
           /\ q.at \in {"sent", "expiring", "counted"} => q.key <= q.now
           /\ q.at \in Asking => q.by = "nobody"
           /\ q.by \in Processes => backend = "local" \/ local_fallback,
           \A w \in Windows : CountedInWindow(q, w) =>
             /\ q.count > 0
             /\ window = w => q.count <= counter'[w]
             /\ q.at = "admitted" => q.count <= Limit
             /\ \A s \in Requests \ {r} : CountedInWindow(req[s], w) => req[s].count # q.count
    PROVE  KeysHaveCome' /\ KeysOutlastWindows' /\ CountsDiffer' /\ req' \in [Requests -> RequestRow]
<1>1. /\ req' \in [Requests -> RequestRow] /\ req'[r] = q
      /\ \A s \in Requests \ {r} : req'[s] = req[s]
  BY DEF RateInv, RateTypeOK
<1>2. KeysHaveCome'
  BY <1>1 DEF RateInv, KeysHaveCome
<1>3. KeysOutlastWindows'
  BY DEF KeysGrow, KeysOutlastWindows
<1>4. CountsDiffer'
  <2> SUFFICES ASSUME NEW w \in Windows, NEW s \in Requests, CountedInWindow(req'[s], w)
               PROVE  /\ req'[s].count > 0
                      /\ window = w => req'[s].count <= counter'[w]
                      /\ req'[s].at = "admitted" => req'[s].count <= Limit
                      /\ \A t \in Requests \ {s} :
                            CountedInWindow(req'[t], w) => req'[t].count # req'[s].count
    BY DEF CountsDiffer, CountedInWindow
  <2>1. CASE s = r
    BY <1>1, <2>1
  <2>2. CASE s # r
    <3>1. /\ req[s].count > 0
          /\ window = w => req[s].count <= counter[w]
          /\ req[s].at = "admitted" => req[s].count <= Limit
          /\ \A t \in Requests \ {s} :
                CountedInWindow(req[t], w) => req[t].count # req[s].count
      BY <1>1, <2>2 DEF RateInv, CountsDiffer
    <3>2. window = w => req[s].count <= counter'[w]
      <4>1. counter[w] <= counter'[w] /\ counter[w] \in Nat /\ counter'[w] \in Nat /\ req[s].count \in Nat
        BY DEF KeysGrow, RateInv, RateTypeOK, RequestRow
      <4> QED BY <3>1, <4>1
    <3> QED BY <1>1, <2>2, <3>1, <3>2
  <2> QED BY <2>1, <2>2
<1> QED BY <1>1, <1>2, <1>3, <1>4

(* Nobody asks a process. *)
LEMMA BucketsUntouched ==
    ASSUME RateInv, UNCHANGED <<window, bucket>>,
           NEW r \in Requests, NEW q \in RequestRow, req' = [req EXCEPT ![r] = q],
           req[r].at \in Asking, q.by \in {"redis", "nobody"}
    PROVE  BucketsCount'
<1>1. req'[r] = q /\ \A s \in Requests \ {r} : req'[s] = req[s]
  BY DEF RateInv, RateTypeOK
<1>2. req[r].by = "nobody"
  BY DEF RateInv, KeysHaveCome
<1>3. \A p \in Processes, w \in Windows : Admitted(p, w)' = Admitted(p, w)
  BY <1>1, <1>2, RateAssumption DEF Admitted
<1> QED BY <1>3 DEF RateInv, BucketsCount

(* The steps of a request that neither Redis counts nor a process *)
LEMMA PassingKeepsInv ==
    ASSUME RateInv, NEW r \in Requests,
           Keyed(r) \/ Sent(r) \/ ExpirySet(r) \/ Decided(r) \/ RefusedUnavailable(r)
    PROVE  RateInv'
<1> DEFINE old == req[r]
<1>1. /\ old \in RequestRow /\ window \in Windows /\ window \in Nat
      /\ old.at \in Asking => old.by = "nobody"
      /\ old.at # "idle" => old.key <= window
      /\ old.at \in {"sent", "expiring", "counted"} => old.key <= old.now
  BY RateWindows DEF RateInv, RateTypeOK, KeysHaveCome
<1>2. \A w \in Windows : CountedInWindow(old, w) =>
        /\ old.count > 0
        /\ window = w => old.count <= counter[w]
        /\ \A s \in Requests \ {r} : CountedInWindow(req[s], w) => req[s].count # old.count
  BY DEF RateInv, CountsDiffer
<1>3. ASSUME KeysGrow, UNCHANGED <<window, backend, local_fallback, bucket>>, old.at \in Asking,
             NEW q \in RequestRow, req' = [req EXCEPT ![r] = q],
             /\ q.at # "idle" => q.key <= window
             /\ q.at \in {"sent", "expiring", "counted"} => q.key <= q.now
             /\ q.at \in Asking => q.by = "nobody"
             /\ q.by \in {"redis", "nobody"},
             q.at = "admitted" => q.count <= Limit,
             \A w \in Windows : CountedInWindow(q, w) => CountedInWindow(old, w) /\ q.count = old.count
      PROVE  RateInv'
  <2>1. \A w \in Windows : CountedInWindow(q, w) =>
             /\ q.count > 0
             /\ window = w => q.count <= counter'[w]
             /\ q.at = "admitted" => q.count <= Limit
             /\ \A s \in Requests \ {r} : CountedInWindow(req[s], w) => req[s].count # q.count
    <3> SUFFICES ASSUME NEW w \in Windows, CountedInWindow(q, w)
                 PROVE  /\ q.count > 0
                        /\ window = w => q.count <= counter'[w]
                        /\ q.at = "admitted" => q.count <= Limit
                        /\ \A s \in Requests \ {r} : CountedInWindow(req[s], w) => req[s].count # q.count
      OBVIOUS
    <3>1. q.count = old.count /\ CountedInWindow(old, w)
      BY <1>3
    <3>2. counter[w] <= counter'[w] /\ counter[w] \in Nat /\ counter'[w] \in Nat /\ q.count \in Nat
      BY <1>3 DEF KeysGrow, RateInv, RateTypeOK, RequestRow
    <3>3. window = w => q.count <= counter'[w]
      BY <1>2, <3>1, <3>2
    <3> QED BY <1>2, <1>3, <3>1, <3>3
  <2>2. q.by \in Processes => backend = "local" \/ local_fallback
    BY <1>3, RateAssumption
  <2>3. KeysHaveCome' /\ KeysOutlastWindows' /\ CountsDiffer' /\ req' \in [Requests -> RequestRow]
    <3> HIDE DEF old
    <3> QED BY <1>3, <2>1, <2>2, RequestMoves
  <2>4. BucketsCount'
    BY <1>3, BucketsUntouched
  <2> QED BY <1>3, <2>3, <2>4 DEF RateInv, RateTypeOK, KeysGrow
<1>4. CASE Keyed(r)
  <2> DEFINE q == [old EXCEPT !.at = "keyed", !.key = window]
  <2>1. /\ req' = [req EXCEPT ![r] = q] /\ UNCHANGED <<window, backend, local_fallback, bucket>>
        /\ UNCHANGED <<counter, expires>> /\ old.at = "idle"
    BY <1>4 DEF Keyed, RateInv, RateTypeOK
  <2>2. /\ q \in RequestRow /\ q.at = "keyed" /\ q.key = window /\ q.by = "nobody"
        /\ old.at \in Asking
    BY <1>1, <2>1 DEF RequestRow, Asking
  <2>3. \A w \in Windows : ~CountedInWindow(q, w)
    BY <2>2 DEF CountedInWindow
  <2>4. q.key <= window
    BY <1>1, <2>2
  <2>5. KeysGrow
    BY <2>1, KeysUntouched
  <2> HIDE DEF q, old
  <2> QED BY <1>3, <2>1, <2>2, <2>3, <2>4, <2>5
<1>5. CASE Sent(r)
  <2> DEFINE q == [old EXCEPT !.at = "sent", !.now = window]
  <2>1. /\ req' = [req EXCEPT ![r] = q] /\ UNCHANGED <<window, backend, local_fallback, bucket>>
        /\ UNCHANGED <<counter, expires>> /\ old.at = "keyed"
    BY <1>5 DEF Sent, RateInv, RateTypeOK
  <2>2. /\ q \in RequestRow /\ q.at = "sent" /\ q.key = old.key /\ q.by = "nobody" /\ q.now = window
        /\ old.at \in Asking
    BY <1>1, <2>1 DEF RequestRow, Asking
  <2>3. \A w \in Windows : ~CountedInWindow(q, w)
    BY <2>2 DEF CountedInWindow
  <2>4. q.key <= window
    BY <1>1, <2>1, <2>2
  <2> HIDE DEF q, old
  <2> QED BY <1>1, <1>3, <2>1, <2>2, <2>3, <2>4, KeysUntouched
<1>6. CASE ExpirySet(r)
  <2> DEFINE q == [old EXCEPT !.at = "counted"]
  <2>1. /\ req' = [req EXCEPT ![r] = q] /\ UNCHANGED <<window, backend, local_fallback, bucket>>
        /\ UNCHANGED counter /\ old.at = "expiring" /\ Expiring(old.key, old.now)
    BY <1>6 DEF ExpirySet, RateInv, RateTypeOK
  <2>2. /\ q \in RequestRow /\ q.at = "counted" /\ q.key = old.key /\ q.by = "nobody"
        /\ q.now = old.now /\ q.seen = old.seen /\ q.count = old.count /\ old.at \in Asking
    BY <1>1, <2>1 DEF RequestRow, Asking
  <2>3. \A w \in Windows : CountedInWindow(q, w) => CountedInWindow(old, w)
    BY <2>1, <2>2 DEF CountedInWindow
  <2>4. old.key \in Windows /\ old.now \in Windows /\ old.key <= old.now
    BY <1>1, <2>1 DEF RequestRow
  <2>5. KeysGrow
    BY <2>1, <2>4, ExpiryGrows
  <2> HIDE DEF q, old
  <2> QED BY <1>1, <1>3, <2>1, <2>2, <2>3, <2>5
<1>7. CASE Decided(r)
  <2> DEFINE q == [old EXCEPT !.at = Verdict(old.count), !.by = "redis"]
  <2>1. /\ req' = [req EXCEPT ![r] = q] /\ UNCHANGED <<window, backend, local_fallback, bucket>>
        /\ UNCHANGED <<counter, expires>> /\ old.at = "counted"
    BY <1>7 DEF Decided, RateInv, RateTypeOK
  <2>2. /\ q \in RequestRow /\ q.at \in {"admitted", "refused"} /\ q.key = old.key /\ q.by = "redis"
        /\ q.seen = old.seen /\ q.count = old.count /\ old.at \in Asking
        /\ q.at = "admitted" => q.count <= Limit
    BY <1>1, <2>1 DEF RequestRow, Asking, Verdict
  <2>3. \A w \in Windows : CountedInWindow(q, w) => CountedInWindow(old, w)
    BY <2>1, <2>2 DEF CountedInWindow
  <2>4. q.key <= window
    BY <1>1, <2>1, <2>2
  <2>5. q.at \notin Asking
    BY <2>2 DEF Asking
  <2> HIDE DEF q, old
  <2> QED BY <1>1, <1>3, <2>1, <2>2, <2>3, <2>4, <2>5, KeysUntouched
<1>8. CASE RefusedUnavailable(r)
  <2> DEFINE q == [old EXCEPT !.at = "refused"]
  <2>1. /\ req' = [req EXCEPT ![r] = q] /\ UNCHANGED <<window, backend, local_fallback, bucket>>
        /\ Unanswered(r)
    BY <1>8 DEF RefusedUnavailable, RateInv, RateTypeOK
  <2>2. KeysGrow /\ old.at \in {"sent", "expiring", "counted"}
    BY <2>1, UnansweredGrows
  <2>3. /\ q \in RequestRow /\ q.at = "refused" /\ q.key = old.key /\ q.by = "nobody"
        /\ q.seen = old.seen /\ q.count = old.count /\ old.at \in Asking
    BY <1>1, <2>2 DEF RequestRow, Asking
  <2>4. \A w \in Windows : ~CountedInWindow(q, w)
    BY <2>3 DEF CountedInWindow
  <2>5. q.at \notin Asking /\ q.key <= window
    BY <1>1, <2>2, <2>3 DEF Asking
  <2> HIDE DEF q, old
  <2> QED BY <1>1, <1>3, <2>1, <2>2, <2>3, <2>4, <2>5
<1> QED BY <1>4, <1>5, <1>6, <1>7, <1>8

(* Counted in Redis: one more than everybody it has counted for in this window. *)
LEMMA CountedKeepsInv ==
    ASSUME RateInv, NEW r \in Requests, Counted(r)
    PROVE  RateInv'
<1> DEFINE old == req[r]
           q == [old EXCEPT !.at = IF counter[old.key] = 0 THEN "expiring" ELSE "counted",
                            !.count = counter[old.key] + 1, !.seen = window]
<1>1. /\ old \in RequestRow /\ window \in Windows /\ counter \in [Windows -> Nat]
      /\ old.at = "sent" /\ old.by = "nobody" /\ old.key <= window /\ old.key <= old.now
      /\ old.key \in Windows /\ counter[old.key] \in Nat
  BY DEF RateInv, RateTypeOK, KeysHaveCome, Counted, Asking, RequestRow
<1>2. /\ req' = [req EXCEPT ![r] = q] /\ UNCHANGED <<window, backend, local_fallback, bucket>>
      /\ Incremented(old.key) /\ UNCHANGED expires
  BY DEF Counted, RateInv, RateTypeOK
<1>3. /\ q \in RequestRow /\ q.at \in {"expiring", "counted"} /\ q.key = old.key /\ q.by = "nobody"
      /\ q.now = old.now /\ q.seen = window /\ q.count = counter[old.key] + 1 /\ old.at \in Asking
  <2>1. /\ counter[old.key] + 1 \in Nat
        /\ (IF counter[old.key] = 0 THEN "expiring" ELSE "counted") \in {"expiring", "counted"}
    BY <1>1
  <2> QED BY <1>1, <2>1 DEF RequestRow, Asking
<1>4. KeysGrow /\ counter'[old.key] = counter[old.key] + 1
  BY <1>1, <1>2, IncrementGrows
<1>5. q.at # "admitted" /\ q.count > 0 /\ q.count <= counter'[old.key]
  BY <1>1, <1>3, <1>4
<1>6. \A w \in Windows : CountedInWindow(q, w) => w = old.key /\ window = w
  BY <1>3 DEF CountedInWindow
<1>7. \A s \in Requests \ {r} : CountedInWindow(req[s], window) /\ old.key = window => req[s].count # q.count
  <2> SUFFICES ASSUME NEW s \in Requests \ {r}, CountedInWindow(req[s], window), old.key = window
               PROVE  req[s].count # q.count
    OBVIOUS
  <2>1. req[s].count <= counter[window] /\ req[s].count \in Nat
    BY <1>1 DEF RateInv, CountsDiffer, RateTypeOK, RequestRow
  <2> QED BY <1>1, <1>3, <2>1
<1>8. KeysHaveCome' /\ KeysOutlastWindows' /\ CountsDiffer' /\ req' \in [Requests -> RequestRow]
  <2>1. \A w \in Windows : CountedInWindow(q, w) =>
             /\ q.count > 0
             /\ window = w => q.count <= counter'[w]
             /\ q.at = "admitted" => q.count <= Limit
             /\ \A s \in Requests \ {r} : CountedInWindow(req[s], w) => req[s].count # q.count
    <3> HIDE DEF q, old
    <3> QED BY <1>5, <1>6, <1>7
  <2>2. /\ q.at # "idle" => q.key <= window
        /\ q.at \in {"sent", "expiring", "counted"} => q.key <= q.now
        /\ q.at \in Asking => q.by = "nobody"
        /\ q.by \in Processes => backend = "local" \/ local_fallback
    <3> HIDE DEF q, old
    <3> QED BY <1>1, <1>3, RateAssumption
  <2> HIDE DEF q, old
  <2> QED BY <1>2, <1>3, <1>4, <2>1, <2>2, RequestMoves
<1>9. BucketsCount'
  <2> HIDE DEF q
  <2> QED BY <1>1, <1>2, <1>3, BucketsUntouched
<1> QED BY <1>2, <1>4, <1>8, <1>9 DEF RateInv, RateTypeOK, KeysGrow

(* Counted by a process: its bucket starts with the window or counts one more. *)
LEMMA CountedLocallyKeepsInv ==
    ASSUME RateInv, NEW r \in Requests, NEW p \in Processes, CountedLocally(r, p)
    PROVE  RateInv'
<1> DEFINE old == req[r]
           k == old.key
           was == bucket[p][k]
           new == [start |-> window, count |-> IF was.start = window THEN was.count + 1 ELSE 1]
           q == [old EXCEPT !.at = Verdict(new.count), !.by = p, !.seen = window]
<1>1. /\ old \in RequestRow /\ window \in Windows /\ k \in Windows /\ was \in BucketRow
      /\ bucket \in [Processes -> [Windows -> BucketRow]]
  BY DEF RateInv, RateTypeOK, RequestRow
<1>2. /\ req' = [req EXCEPT ![r] = q] /\ UNCHANGED <<window, backend, local_fallback>>
      /\ bucket' = [bucket EXCEPT ![p][k] = new]
  BY DEF CountedLocally, RateInv, RateTypeOK
<1>3. KeysGrow /\ old.at \in {"keyed", "sent", "expiring", "counted"} /\ (backend = "local" \/ local_fallback)
  BY KeysUntouched, UnansweredGrows DEF CountedLocally
<1>4. old.by = "nobody" /\ k <= window
  BY <1>3 DEF RateInv, KeysHaveCome, Asking
<1>5. new \in BucketRow /\ new.start = window /\ new.count \in Nat /\ new.count > 0
      /\ (was.start = window => new.count = was.count + 1)
  BY <1>1 DEF BucketRow
<1>6. /\ q \in RequestRow /\ q.key = k /\ q.by = p /\ q.seen = window
      /\ q.at \in {"admitted", "refused"} /\ (q.at = "admitted" => new.count <= Limit)
  BY <1>1 DEF RequestRow, Verdict
<1>7. p \notin {"redis", "nobody"}
  BY RateAssumption
<1>8. KeysHaveCome' /\ KeysOutlastWindows' /\ CountsDiffer' /\ req' \in [Requests -> RequestRow]
  <2>1. \A w \in Windows : ~CountedInWindow(q, w)
    BY <1>6, <1>7 DEF CountedInWindow
  <2>2. q.at \notin Asking /\ q.key <= window
    BY <1>4, <1>6 DEF Asking
  <2> HIDE DEF q, new, was, k, old
  <2> QED BY <1>2, <1>3, <1>6, <2>1, <2>2, RequestMoves
<1>9. /\ bucket' \in [Processes -> [Windows -> BucketRow]] /\ bucket'[p][k] = new
      /\ \A o \in Processes, w \in Windows : o # p \/ w # k => bucket'[o][w] = bucket[o][w]
  <2> HIDE DEF new, was, k
  <2> QED BY <1>1, <1>2, <1>5
<1>10. BucketsCount'
  <2>1. req'[r] = q /\ \A s \in Requests \ {r} : req'[s] = req[s]
    <3> HIDE DEF q
    <3> QED BY <1>2 DEF RateInv, RateTypeOK
  <2>2. \A o \in Processes, w \in Windows : o # p \/ w # k \/ window # w \/ q.at = "refused" =>
          Admitted(o, w)' = Admitted(o, w)
    <3> HIDE DEF q, new, was, k
    <3> QED BY <1>4, <1>6, <2>1, RateAssumption DEF Admitted
  <2>3. \A w \in Windows : q.at = "admitted" /\ window = w /\ w = k =>
          Admitted(p, w)' = Admitted(p, w) \union {r} /\ r \notin Admitted(p, w)
    <3> HIDE DEF q, new, was, k
    <3> QED BY <1>4, <1>6, <1>7, <2>1 DEF Admitted
  <2> HIDE DEF q, new, was, k, old
  <2> SUFFICES ASSUME NEW o \in Processes, NEW w \in Windows
               PROVE  /\ IsFiniteSet(Admitted(o, w)')
                      /\ Cardinality(Admitted(o, w)') <= Limit
                      /\ window <= w => /\ bucket'[o][w].start = w
                                        /\ Cardinality(Admitted(o, w)') <= bucket'[o][w].count
    BY <1>2 DEF BucketsCount, Admitted
  <2>4. /\ IsFiniteSet(Admitted(o, w)) /\ Cardinality(Admitted(o, w)) <= Limit
        /\ window <= w => /\ bucket[o][w].start = w
                          /\ Cardinality(Admitted(o, w)) <= bucket[o][w].count
    BY DEF RateInv, BucketsCount
  <2>5. CASE o # p \/ w # k
    BY <1>9, <2>2, <2>4, <2>5
  <2>6. CASE o = p /\ w = k /\ window # w
    <3>1. ~(window <= w)
      BY <1>1, <1>4, <2>6, RateWindows
    <3> QED BY <2>2, <2>4, <2>6, <3>1
  <2>7. CASE o = p /\ w = k /\ window = w
    <3>1. bucket[o][w] = was /\ was.start = window /\ new.count = was.count + 1 /\ was.count \in Nat
      <4>1. bucket[o][w] = was
        BY <2>7 DEF was
      <4> QED BY <1>1, <1>5, <2>4, <2>7, <4>1, RateWindows DEF BucketRow
    <3>2. bucket'[o][w] = new /\ new.start = w
      BY <1>5, <1>9, <2>7
    <3>3. Cardinality(Admitted(o, w)) \in Nat /\ Cardinality(Admitted(o, w)) <= was.count
      BY <2>4, <2>7, <3>1, FS_CardinalityType, RateWindows
    <3>4. CASE q.at = "refused"
      BY <2>2, <2>4, <3>1, <3>2, <3>3, <3>4
    <3>5. CASE q.at = "admitted"
      <4>1. Admitted(o, w)' = Admitted(o, w) \union {r} /\ r \notin Admitted(o, w)
        BY <2>3, <2>7, <3>5
      <4>2. IsFiniteSet(Admitted(o, w)') /\ Cardinality(Admitted(o, w)') = Cardinality(Admitted(o, w)) + 1
        BY <2>4, <4>1, FS_AddElement
      <4>3. new.count <= Limit /\ Limit \in Nat
        BY <1>6, <3>5, RateAssumption
      <4> QED BY <3>1, <3>2, <3>3, <4>2, <4>3
    <3> QED BY <1>6, <3>4, <3>5
  <2> QED BY <2>5, <2>6, <2>7
<1> QED BY <1>2, <1>3, <1>8, <1>9, <1>10 DEF RateInv, RateTypeOK, KeysGrow

(* A new window, for which no bucket has counted anybody and every key is still kept *)
LEMMA ClockKeepsInv ==
    ASSUME RateInv, ClockTurns
    PROVE  RateInv'
<1> USE DEF RateInv
<1>1. /\ window \in Nat /\ MaxWindow \in Nat /\ window' = window + 1 /\ window' \in Windows
      /\ UNCHANGED <<backend, local_fallback, counter, expires, bucket, req>>
  BY RateAssumption DEF ClockTurns, RateTypeOK, Windows
<1>2. RateTypeOK'
  BY <1>1 DEF RateTypeOK
<1>3. KeysHaveCome'
  <2>1. \A r \in Requests : req[r].key \in Nat
    BY RateWindows DEF RateTypeOK, RequestRow
  <2> QED BY <1>1, <2>1 DEF KeysHaveCome
<1>4. CountsDiffer'
  <2>1. \A w \in Windows : \A r \in Requests : CountedInWindow(req[r], w) => req[r].key <= window /\ req[r].key = w
    BY RateWindows DEF KeysHaveCome, CountedInWindow, Asking, RateTypeOK
  <2>2. \A w \in Windows : \A r \in Requests : CountedInWindow(req[r], w) => window' # w
    BY <1>1, <2>1, RateWindows
  <2> QED BY <1>1, <2>2 DEF CountsDiffer, CountedInWindow
<1>5. BucketsCount'
  <2>1. \A p, w : Admitted(p, w)' = Admitted(p, w)
    BY <1>1 DEF Admitted
  <2>2. \A w \in Windows : window' <= w => window <= w
    BY <1>1, RateWindows
  <2> QED BY <1>1, <2>1, <2>2 DEF BucketsCount
<1> QED BY <1>1, <1>2, <1>3, <1>4, <1>5 DEF KeysOutlastWindows

(* A key expires only after the window it counts. *)
LEMMA ExpiryKeepsInv ==
    ASSUME RateInv, NEW k \in Windows, KeyExpires(k)
    PROVE  RateInv'
<1> USE DEF RateInv
<1>1. /\ UNCHANGED <<backend, local_fallback, window, bucket, req>>
      /\ counter' = [counter EXCEPT ![k] = 0] /\ expires' = [expires EXCEPT ![k] = Never]
      /\ window > expires[k]
  BY DEF KeyExpires
<1>2. RateTypeOK' /\ KeysOutlastWindows'
  <2>1. Never \in 0..Never /\ \A w \in Windows : Never >= w
    BY RateWindows, RateAssumption DEF Never, Windows
  <2> QED BY <1>1, <2>1 DEF RateTypeOK, KeysOutlastWindows
<1>3. window # k
  <2>1. expires[k] \in Nat /\ window \in Nat /\ k \in Nat /\ expires[k] >= k
    BY RateWindows DEF RateTypeOK, KeysOutlastWindows
  <2> QED BY <1>1, <2>1
<1>4. CountsDiffer'
  <2>1. \A w \in Windows : window = w => counter'[w] = counter[w]
    BY <1>1, <1>3 DEF RateTypeOK
  <2> QED BY <1>1, <2>1 DEF CountsDiffer, CountedInWindow
<1>5. BucketsCount'
  BY <1>1 DEF BucketsCount, Admitted
<1> QED BY <1>1, <1>2, <1>4, <1>5 DEF KeysHaveCome

(* Every step keeps the invariant of the rate limit. *)
LEMMA RateStep == RateInv /\ [RateNext]_rateVars => RateInv'
<1> SUFFICES ASSUME RateInv, [RateNext]_rateVars PROVE RateInv'
  OBVIOUS
<1>1. CASE UNCHANGED rateVars
  <2>1. UNCHANGED <<backend, local_fallback, window, counter, expires, bucket, req>>
    BY <1>1 DEF rateVars
  <2>2. RateTypeOK' /\ KeysHaveCome' /\ KeysOutlastWindows'
    BY <2>1 DEF RateInv, RateTypeOK, KeysHaveCome, KeysOutlastWindows
  <2>3. CountsDiffer'
    BY <2>1 DEF RateInv, CountsDiffer, CountedInWindow
  <2>4. BucketsCount'
    BY <2>1 DEF RateInv, BucketsCount, Admitted
  <2> QED BY <2>2, <2>3, <2>4 DEF RateInv
<1> QED BY <1>1, ClockKeepsInv, ExpiryKeepsInv, PassingKeepsInv, CountedKeepsInv, CountedLocallyKeepsInv
        DEF RateNext

(* The invariant holds before the first request. *)
LEMMA RateInitInv == RateInit => RateInv
<1> SUFFICES ASSUME RateInit PROVE RateInv
  OBVIOUS
<1> USE DEF RateInit, Untouched
<1>1. MaxWindow \in Nat /\ Never \in Nat /\ 0 \in Windows /\ Limit \in Nat /\ Windows \subseteq 0..Never
  BY RateAssumption DEF Never, Windows
<1>2. RateTypeOK
  BY <1>1, RateWindows DEF RateTypeOK, RequestRow, BucketRow, Asking
<1>3. \A r \in Requests : req[r] = Untouched
  OBVIOUS
<1>4. KeysHaveCome /\ CountsDiffer
  BY <1>3, RateAssumption DEF KeysHaveCome, CountsDiffer, CountedInWindow
<1>5. KeysOutlastWindows
  BY RateWindows, <1>1 DEF KeysOutlastWindows, Windows, Never
<1>6. BucketsCount
  <2>1. \A p, w : Admitted(p, w) = {}
    BY <1>3 DEF Admitted
  <2>2. IsFiniteSet({}) /\ Cardinality({}) = 0
    BY FS_EmptySet
  <2>3. \A p \in Processes, w \in Windows : bucket[p][w] = [start |-> w, count |-> 0]
    OBVIOUS
  <2>4. SUFFICES ASSUME NEW p \in Processes, NEW w \in Windows
                 PROVE  /\ IsFiniteSet(Admitted(p, w))
                        /\ Cardinality(Admitted(p, w)) <= Limit
                        /\ window <= w => /\ bucket[p][w].start = w
                                          /\ Cardinality(Admitted(p, w)) <= bucket[p][w].count
    BY DEF BucketsCount
  <2>5. Admitted(p, w) = {} /\ bucket[p][w].start = w /\ bucket[p][w].count = 0
    BY <2>1, <2>3
  <2>6. 0 <= Limit /\ 0 <= 0
    BY <1>1
  <2> HIDE DEF RateInit
  <2> QED BY <2>2, <2>5, <2>6
<1> QED BY <1>2, <1>4, <1>5, <1>6 DEF RateInv

(* For any limit, any number of windows, requests and processes: per window and counter
   no more than the limit are admitted (core/rate_limit.py). *)
THEOREM LimitIsKept == RateSpec => []LimitPerWindow
<1>1. RateInv => LimitPerWindow
  BY RateInvImplies
<1> QED BY <1>1, RateInitInv, RateStep, PTL DEF RateSpec

-----------------------------------------------------------------------------
(* The tool guard *)

ToolTypeOK ==
    /\ recorded \in [Turns -> SUBSET ToolKeys] /\ batch \in [Turns -> SUBSET ToolKeys]
    /\ memory \in [Turns -> SUBSET ToolKeys]
    /\ executed \in [Turns -> [ToolKeys -> 0..1]]

(* A key that ran is known to the memory of the process or to the state. *)
RunsAreKnown ==
    \A t \in Turns, k \in ToolKeys :
        executed[t][k] = 1 => k \in memory[t] \/ k \in recorded[t]

(* What the memory knows of a recording key, the state knows or will know when the step ends. *)
MemoryIsRecorded ==
    \A t \in Turns, k \in Recording : k \in memory[t] => k \in batch[t] \/ k \in recorded[t]

ToolInv == ToolTypeOK /\ RunsAreKnown /\ MemoryIsRecorded

(* A call that the state blocks only joins the batch. *)
LEMMA BlockedKeepsInv ==
    ASSUME ToolInv, NEW t \in Turns, NEW k \in ToolKeys, BlockedByState(t, k)
    PROVE  ToolInv'
<1>1. /\ batch' = [batch EXCEPT ![t] = @ \union {k}] /\ UNCHANGED <<recorded, memory, executed>>
      /\ batch \in [Turns -> SUBSET ToolKeys]
  BY DEF BlockedByState, ToolInv, ToolTypeOK
<1>2. batch' \in [Turns -> SUBSET ToolKeys] /\ \A u \in Turns : batch[u] \subseteq batch'[u]
  BY <1>1
<1> QED BY <1>1, <1>2 DEF ToolInv, ToolTypeOK, RunsAreKnown, MemoryIsRecorded

(* What the batch recorded is in the state when the step has ended. *)
LEMMA StepEndKeepsInv ==
    ASSUME ToolInv, NEW t \in Turns, StepEnds(t)
    PROVE  ToolInv'
<1> DEFINE new == merge_tool_loop_guard(recorded[t],
                      {_updated_loop_guard_state(recorded[t], k) : k \in batch[t] \intersect Recording})
<1>1. /\ recorded' = [recorded EXCEPT ![t] = new] /\ batch' = [batch EXCEPT ![t] = {}]
      /\ UNCHANGED <<memory, executed>>
      /\ recorded \in [Turns -> SUBSET ToolKeys] /\ batch \in [Turns -> SUBSET ToolKeys]
  BY DEF StepEnds, ToolInv, ToolTypeOK
<1>2. new = recorded[t] \union (batch[t] \intersect Recording)
  BY DEF merge_tool_loop_guard, _updated_loop_guard_state
<1>3. new \subseteq ToolKeys
  BY <1>1, <1>2
<1> HIDE DEF new
<1>4. /\ recorded' \in [Turns -> SUBSET ToolKeys] /\ batch' \in [Turns -> SUBSET ToolKeys]
      /\ recorded'[t] = new /\ batch'[t] = {}
      /\ \A u \in Turns \ {t} : recorded'[u] = recorded[u] /\ batch'[u] = batch[u]
  BY <1>1, <1>3
<1>5. ToolTypeOK'
  BY <1>1, <1>4 DEF ToolInv, ToolTypeOK
<1>6. RunsAreKnown'
  <2> SUFFICES ASSUME NEW u \in Turns, NEW k \in ToolKeys, executed[u][k] = 1
               PROVE  k \in memory[u] \/ k \in recorded'[u]
    BY <1>1 DEF RunsAreKnown
  <2> QED BY <1>2, <1>4 DEF ToolInv, RunsAreKnown
<1>7. MemoryIsRecorded'
  <2> SUFFICES ASSUME NEW u \in Turns, NEW k \in Recording, k \in memory[u]
               PROVE  k \in batch'[u] \/ k \in recorded'[u]
    BY <1>1 DEF MemoryIsRecorded
  <2>1. k \in batch[u] \/ k \in recorded[u]
    BY DEF ToolInv, MemoryIsRecorded
  <2> QED BY <1>2, <1>4, <2>1
<1> QED BY <1>5, <1>6, <1>7 DEF ToolInv

(* A forgotten key may run again without count if it was not recorded: what was not *)
(* forgotten is still known, and what the process knows does not run.             *)
LEMMA BegunKeepsInv ==
    ASSUME ToolInv, NEW t \in Turns, NEW k \in ToolKeys, BegunFromMemory(t, k)
    PROVE  ToolInv'
<1>1. PICK gone \in SUBSET Known :
        LET kept == [u \in Turns |-> IF u \in gone THEN {} ELSE memory[u]]
            Excused(u, j) == u \in gone /\ j \in memory[u] /\ (j \notin Recording \/ j \in batch[u])
            Runs(u, j) == IF u = t /\ j = k /\ ~_memory_loop_guard_seen(kept, t, k) THEN 1 ELSE 0
        IN /\ memory' = [kept EXCEPT ![t] = @ \union {k}]
           /\ executed' = [u \in Turns |-> [j \in ToolKeys |->
                              (IF Excused(u, j) THEN 0 ELSE executed[u][j]) + Runs(u, j)]]
  BY DEF BegunFromMemory
<1> DEFINE kept == [u \in Turns |-> IF u \in gone THEN {} ELSE memory[u]]
           Excused(u, j) == u \in gone /\ j \in memory[u] /\ (j \notin Recording \/ j \in batch[u])
           left(u, j) == IF Excused(u, j) THEN 0 ELSE executed[u][j]
           runs(u, j) == IF u = t /\ j = k /\ k \notin kept[t] THEN 1 ELSE 0
<1>2. /\ k \notin recorded[t] /\ batch' = [batch EXCEPT ![t] = @ \union {k}] /\ recorded' = recorded
      /\ batch \in [Turns -> SUBSET ToolKeys] /\ memory \in [Turns -> SUBSET ToolKeys]
      /\ executed \in [Turns -> [ToolKeys -> 0..1]]
  BY DEF BegunFromMemory, ToolInv, ToolTypeOK
<1>3. kept \in [Turns -> SUBSET ToolKeys]
  BY <1>2
<1>4. /\ memory' \in [Turns -> SUBSET ToolKeys]
      /\ \A u \in Turns : memory'[u] = (IF u = t THEN kept[t] \union {k} ELSE kept[u])
  <2> HIDE DEF kept
  <2>1. memory' = [kept EXCEPT ![t] = @ \union {k}]
    BY <1>1 DEF kept
  <2> QED BY <1>3, <2>1
<1>5. executed' = [u \in Turns |-> [j \in ToolKeys |-> left(u, j) + runs(u, j)]]
  BY <1>1 DEF _memory_loop_guard_seen
<1>6. /\ batch' \in [Turns -> SUBSET ToolKeys] /\ k \in batch'[t]
      /\ \A u \in Turns : batch[u] \subseteq batch'[u]
  BY <1>2
<1>7. \A u \in Turns, j \in ToolKeys :
        /\ left(u, j) \in {0, 1}
        /\ left(u, j) = 1 => j \in kept[u] \/ j \in recorded[u]
  <2> SUFFICES ASSUME NEW u \in Turns, NEW j \in ToolKeys
               PROVE  /\ left(u, j) \in {0, 1}
                      /\ left(u, j) = 1 => j \in kept[u] \/ j \in recorded[u]
    OBVIOUS
  <2>1. executed[u][j] \in {0, 1}
    BY <1>2
  <2>2. left(u, j) \in {0, 1}
    BY <2>1
  <2>3. ASSUME left(u, j) = 1 PROVE j \in kept[u] \/ j \in recorded[u]
    <3>1. executed[u][j] = 1 /\ ~Excused(u, j)
      BY <2>3
    <3>2. j \in memory[u] \/ j \in recorded[u]
      BY <3>1 DEF ToolInv, RunsAreKnown
    <3>3. j \in Recording /\ j \in memory[u] => j \in batch[u] \/ j \in recorded[u]
      BY DEF ToolInv, MemoryIsRecorded
    <3> QED BY <3>1, <3>2, <3>3
  <2> QED BY <2>2, <2>3
<1>8. \A u \in Turns, j \in ToolKeys :
        /\ executed'[u][j] = left(u, j) + runs(u, j)
        /\ runs(u, j) \in {0, 1} /\ (runs(u, j) = 1 => u = t /\ j = k /\ k \notin kept[t])
  <2> HIDE DEF left, runs
  <2>1. \A u \in Turns, j \in ToolKeys : executed'[u][j] = left(u, j) + runs(u, j)
    BY <1>5
  <2>2. \A u \in Turns, j \in ToolKeys :
          runs(u, j) \in {0, 1} /\ (runs(u, j) = 1 => u = t /\ j = k /\ k \notin kept[t])
    <3> HIDE DEF kept
    <3> QED BY DEF runs
  <2> QED BY <2>1, <2>2
<1>9. \A u \in Turns, j \in ToolKeys :
        /\ executed'[u][j] \in 0..1
        /\ executed'[u][j] = 1 => j \in memory'[u] \/ j \in recorded[u]
  <2> SUFFICES ASSUME NEW u \in Turns, NEW j \in ToolKeys
               PROVE  /\ executed'[u][j] \in 0..1
                      /\ executed'[u][j] = 1 => j \in memory'[u] \/ j \in recorded[u]
    OBVIOUS
  <2> HIDE DEF left, runs, kept
  <2>1. CASE runs(u, j) = 1
    <3>1. u = t /\ j = k /\ left(u, j) # 1
      BY <1>2, <1>7, <1>8, <2>1
    <3>2. executed'[u][j] = 1
      BY <1>7, <1>8, <2>1, <3>1
    <3> QED BY <1>4, <3>1, <3>2
  <2>2. CASE runs(u, j) = 0
    <3>1. executed'[u][j] = left(u, j)
      BY <1>7, <1>8, <2>2
    <3> QED BY <1>4, <1>7, <3>1
  <2> QED BY <1>8, <2>1, <2>2
<1>10. executed' \in [Turns -> [ToolKeys -> 0..1]]
  <2> HIDE DEF left, runs, kept
  <2>1. \A u \in Turns, j \in ToolKeys : left(u, j) + runs(u, j) \in 0..1
    BY <1>8, <1>9
  <2> QED BY <1>5, <2>1
<1>11. RunsAreKnown'
  <2> HIDE DEF left, runs, kept
  <2> QED BY <1>2, <1>9 DEF RunsAreKnown
<1>12. MemoryIsRecorded'
  <2> SUFFICES ASSUME NEW u \in Turns, NEW j \in Recording, j \in memory'[u]
               PROVE  j \in batch'[u] \/ j \in recorded[u]
    BY <1>2 DEF MemoryIsRecorded
  <2>1. j \in memory[u] \/ (u = t /\ j = k)
    BY <1>4
  <2>2. j \in memory[u] => j \in batch[u] \/ j \in recorded[u]
    BY DEF ToolInv, MemoryIsRecorded
  <2> QED BY <1>6, <2>1, <2>2
<1> HIDE DEF left, runs, kept
<1> QED BY <1>2, <1>4, <1>6, <1>10, <1>11, <1>12 DEF ToolInv, ToolTypeOK

(* Every step keeps the invariant of the tool guard. *)
LEMMA ToolStep == ToolInv /\ [ToolsNext]_toolVars => ToolInv'
<1> SUFFICES ASSUME ToolInv, [ToolsNext]_toolVars PROVE ToolInv'
  OBVIOUS
<1>1. CASE UNCHANGED toolVars
  BY <1>1 DEF ToolInv, ToolTypeOK, RunsAreKnown, MemoryIsRecorded, toolVars
<1> QED BY <1>1, BlockedKeepsInv, BegunKeepsInv, StepEndKeepsInv DEF ToolsNext

(* The invariant holds before the first call. *)
LEMMA ToolsInitInv == ToolsInit => ToolInv
BY DEF ToolsInit, ToolInv, ToolTypeOK, RunsAreKnown, MemoryIsRecorded

(* Of every number of turns and keys and of every size of the memory of a process,  *)
(* a guarded tool runs at most once per turn and key unless the process forgot it    *)
(* while the state did not know it (tools/execution_guard.py).                      *)
THEOREM ToolsRunOnce == ToolsSpec => []RunsOncePerTurn
<1>1. ToolInv => RunsOncePerTurn
  BY DEF ToolInv, ToolTypeOK, RunsOncePerTurn
<1> QED BY <1>1, ToolsInitInv, ToolStep, PTL DEF ToolsSpec

-----------------------------------------------------------------------------
(* The long-term memory *)

Told == UNION {Facts(s) \union BesideFacts(s) : s \in Statements}
DocumentRow == [facts : SUBSET Told, audit : Seq(Told)]

(* The audit log has the entry of every fact but the attractions, or is full. *)
Explained(document) ==
    \A f \in document.facts : \/ f \in ToSet(document.audit)
                              \/ f[1] = "visited_attractions"
                              \/ Len(document.audit) = MaxAudit

MemoryTypeOK ==
    /\ store \in [Documents -> DocumentRow]
    /\ statement \in [Sessions -> Statements \union {NoStatement}]
    /\ DOMAIN held = Sessions
    /\ \A c \in Sessions : Writing(c) => held[c] \in DocumentRow
    /\ \A c \in Sessions : Silent(c) => held[c] = NoDocument

StoreExplained == \A d \in Documents : Explained(store[d])
HeldExplained == \A c \in Sessions : Writing(c) => Explained(held[c])

(* What is promised is in the store and in every copy that is about to be written. *)
PromisesKept ==
    \A r \in promised : r[1] \in excused
        \/ /\ r[2] \in store[r[1]].facts
           /\ \A c \in Sessions : Writing(c) /\ Target(c) = r[1] => r[2] \in held[c].facts

PromisesMade == promised \subseteq Documents \X Told

MemoryInv == MemoryTypeOK /\ StoreExplained /\ HeldExplained /\ PromisesKept /\ PromisesMade

(* A tool writes the profile or the history. *)
LEMMA TargetIsDocument == ASSUME NEW c \in Sessions PROVE Target(c) \in Documents
BY DEF Target, DocumentOf, Documents

(* A session that writes has been called with a statement. *)
LEMMA StatementIsSpoken ==
    ASSUME MemoryTypeOK, NEW c \in Sessions, Writing(c)
    PROVE  statement[c] \in Statements
BY DEF MemoryTypeOK, Writing, Silent

(* The values of a statement are finitely many, and so are their audit entries. *)
LEMMA AuditedFinite ==
    ASSUME NEW s \in Statements
    PROVE  IsFiniteSet(Audited(s)) /\ Audited(s) \subseteq Facts(s) \union BesideFacts(s)
<1>1. IsFiniteSet(s.values) /\ IsFiniteSet(s.beside)
  BY MemoryAssumption
<1>2. IsFiniteSet(Stable(s))
  BY <1>1, FS_Subset DEF Stable
<1>3. IsFiniteSet(Facts(s))
  <2> DEFINE f == [v \in Stable(s) |-> <<MainField[s.tool], v.text>>]
  <2>1. f \in Surjection(Stable(s), Facts(s))
    BY DEF Surjection, Facts
  <2> HIDE DEF f
  <2> QED BY <1>2, <2>1, FS_Surjection
<1>4. IsFiniteSet(BesideFacts(s))
  <2> DEFINE f == [b \in s.beside |-> <<BesideField[s.tool], b>>]
  <2>1. f \in Surjection(s.beside, BesideFacts(s))
    BY DEF Surjection, BesideFacts
  <2> HIDE DEF f
  <2> QED BY <1>1, <2>1, FS_Surjection
<1>5. IsFiniteSet(Facts(s) \union BesideFacts(s))
  BY <1>3, <1>4, FS_Union
<1> QED BY <1>5, FS_Subset DEF Audited

(* All elements of a finite set, each once, as a sequence *)
LEMMA SetToSeqLists ==
    ASSUME NEW S, IsFiniteSet(S)
    PROVE  SetToSeq(S) \in Seq(S) /\ ToSet(SetToSeq(S)) = S
<1> DEFINE n == Cardinality(S)
<1>1. n \in Nat /\ ExistsBijection(1..n, S)
  BY FS_CardinalityType
<1>2. \E f \in [1..n -> S] : IsInjective(f)
  BY <1>1 DEF ExistsBijection, Bijection, Injection
<1>3. SetToSeq(S) \in [1..n -> S] /\ IsInjective(SetToSeq(S))
  BY <1>2 DEF SetToSeq
<1>4. IsFiniteSet(1..n) /\ Cardinality(1..n) = n
  BY <1>1, FS_Interval
<1>5. SetToSeq(S) \in Surjection(1..n, S)
  <2>1. SetToSeq(S) \in Injection(1..n, S)
    BY <1>3 DEF Injection
  <2> HIDE DEF n
  <2>2. Cardinality(1..n) = Cardinality(S)
    BY <1>4 DEF n
  <2> QED BY <2>1, <2>2, FS_Injection
<1>6. \A x \in S : \E i \in 1..n : SetToSeq(S)[i] = x
  BY <1>5 DEF Surjection
<1> QED BY <1>1, <1>3, <1>6 DEF ToSet

(* What the log holds is kept with the new entries, unless it is full. *)
LEMMA LogGrows ==
    ASSUME NEW U, NEW trail \in Seq(U), NEW entries \in SUBSET U, IsFiniteSet(entries)
    PROVE  /\ _merge_audit_log(trail, entries) \in Seq(U)
           /\ \/ Len(_merge_audit_log(trail, entries)) = MaxAudit
              \/ /\ Len(trail) # MaxAudit
                 /\ ToSet(trail) \union entries \subseteq ToSet(_merge_audit_log(trail, entries))
<1> DEFINE new == SetToSeq(entries)
           merged == trail \o new
           first == Len(merged) - MaxAudit + 1
<1>1. new \in Seq(U) /\ ToSet(new) = entries
  BY SetToSeqLists
<1>2. MaxAudit \in Nat
  BY MemoryAssumption
<1>3. /\ merged \in Seq(U) /\ Len(merged) = Len(trail) + Len(new)
      /\ Len(trail) \in Nat /\ Len(new) \in Nat /\ Len(merged) \in Nat
  BY <1>1
<1>4. _merge_audit_log(trail, entries) =
        IF Len(merged) > MaxAudit THEN SubSeq(merged, first, Len(merged)) ELSE merged
  BY DEF _merge_audit_log
<1>5. CASE Len(merged) > MaxAudit
  <2> HIDE DEF merged
  <2>1. first \in 1..Len(merged)+1 /\ Len(merged) - first + 1 = MaxAudit /\ first <= Len(merged) + 1
    BY <1>2, <1>3, <1>5
  <2>2. SubSeq(merged, first, Len(merged)) \in Seq(U) /\ Len(SubSeq(merged, first, Len(merged))) = MaxAudit
    BY <1>2, <1>3, <1>5, <2>1
  <2> QED BY <1>4, <1>5, <2>2
<1>6. CASE ~(Len(merged) > MaxAudit)
  <2>1. _merge_audit_log(trail, entries) = merged
    BY <1>4, <1>6
  <2>2. ToSet(trail) \subseteq ToSet(merged)
    <3>1. \A i \in 1..Len(trail) : i \in 1..Len(merged) /\ merged[i] = trail[i]
      BY <1>1, <1>3
    <3>2. DOMAIN merged = 1..Len(merged) /\ DOMAIN trail = 1..Len(trail)
      BY <1>3
    <3> HIDE DEF merged
    <3> QED BY <3>1, <3>2 DEF ToSet
  <2>3. entries \subseteq ToSet(merged)
    <3>1. \A i \in 1..Len(new) : Len(trail) + i \in 1..Len(merged) /\ merged[Len(trail) + i] = new[i]
      BY <1>1, <1>3
    <3>2. \A x \in entries : \E i \in 1..Len(new) : new[i] = x
      BY <1>1 DEF ToSet
    <3>3. DOMAIN merged = 1..Len(merged)
      BY <1>3
    <3> HIDE DEF merged, new
    <3> SUFFICES ASSUME NEW x \in entries PROVE \E j \in DOMAIN merged : merged[j] = x
      BY DEF ToSet
    <3>4. PICK i \in 1..Len(new) : new[i] = x
      BY <3>2
    <3>5. Len(trail) + i \in DOMAIN merged /\ merged[Len(trail) + i] = x
      BY <3>1, <3>3, <3>4
    <3> QED BY <3>5
  <2>4. Len(merged) # MaxAudit => Len(trail) # MaxAudit
    <3> HIDE DEF merged, new
    <3> QED BY <1>2, <1>3, <1>6
  <2> HIDE DEF merged
  <2> QED BY <1>3, <2>1, <2>2, <2>3, <2>4
<1> QED BY <1>5, <1>6

(* A document with the facts of a statement added *)
LEMMA FactsAreAdded ==
    ASSUME NEW document \in DocumentRow, Explained(document), NEW s \in Statements
    PROVE  /\ WithFacts(document, s) \in DocumentRow
           /\ Explained(WithFacts(document, s))
           /\ WithFacts(document, s).facts = document.facts \union Facts(s) \union BesideFacts(s)
<1> DEFINE new == WithFacts(document, s)
           trail == _merge_audit_log(document.audit, Audited(s))
<1>1. /\ new.facts = document.facts \union Facts(s) \union BesideFacts(s)
      /\ new.audit = trail /\ new = [facts |-> new.facts, audit |-> trail]
  BY DEF WithFacts
<1>2. Facts(s) \union BesideFacts(s) \subseteq Told
  BY DEF Told
<1>3. IsFiniteSet(Audited(s)) /\ Audited(s) \subseteq Told
  BY <1>2, AuditedFinite
<1>4. document.facts \subseteq Told /\ document.audit \in Seq(Told)
  BY DEF DocumentRow
<1>5. /\ trail \in Seq(Told)
      /\ \/ Len(trail) = MaxAudit
         \/ Len(document.audit) # MaxAudit /\ ToSet(document.audit) \union Audited(s) \subseteq ToSet(trail)
  BY <1>3, <1>4, LogGrows
<1>6. \A f \in Facts(s) \union BesideFacts(s) : f \in Audited(s) \/ f[1] = "visited_attractions"
  BY DEF Audited, BesideFacts, BesideField
<1> HIDE DEF trail, new
<1>7. Explained(new)
  BY <1>1, <1>5, <1>6 DEF Explained
<1>8. new \in DocumentRow
  BY <1>1, <1>2, <1>4, <1>5 DEF DocumentRow
<1> QED BY <1>1, <1>7, <1>8 DEF new

(* What a session ends with is neither read nor to be written any more. *)
LEMMA EndedIsSilent ==
    ASSUME MemoryInv, NEW c \in Sessions, Ends(c)
    PROVE  /\ statement' \in [Sessions -> Statements \union {NoStatement}] /\ DOMAIN held' = Sessions
           /\ ~Writing(c)' /\ held'[c] = NoDocument
           /\ \A o \in Sessions \ {c} : /\ statement'[o] = statement[o] /\ held'[o] = held[o]
                                        /\ Writing(o)' = Writing(o) /\ Target(o)' = Target(o)
BY DEF Ends, MemoryInv, MemoryTypeOK, Writing, Silent, Target

(* A document is written: by a session that has not overlapped with another, or excused. *)
LEMMA PutKeepsDocuments ==
    ASSUME MemoryInv, NEW c \in Sessions, Writing(c), Put(c)
    PROVE  /\ store' \in [Documents -> DocumentRow] /\ StoreExplained'
           /\ Facts(statement[c]) \union BesideFacts(statement[c]) \subseteq Told
           /\ store'[Target(c)].facts =
                held[c].facts \union Facts(statement[c]) \union BesideFacts(statement[c])
           /\ \A d \in Documents \ {Target(c)} : store'[d] = store[d]
<1> DEFINE new == WithFacts(held[c], statement[c])
<1>1. /\ Target(c) \in Documents /\ statement[c] \in Statements
      /\ held[c] \in DocumentRow /\ Explained(held[c])
  BY TargetIsDocument, StatementIsSpoken DEF MemoryInv, MemoryTypeOK, HeldExplained
<1>2. /\ new \in DocumentRow /\ Explained(new)
      /\ new.facts = held[c].facts \union Facts(statement[c]) \union BesideFacts(statement[c])
  BY <1>1, FactsAreAdded
<1>3. store' = [store EXCEPT ![Target(c)] = new] /\ store \in [Documents -> DocumentRow]
  BY DEF Put, MemoryInv, MemoryTypeOK
<1> HIDE DEF new
<1>4. /\ store' \in [Documents -> DocumentRow] /\ store'[Target(c)] = new
      /\ \A d \in Documents \ {Target(c)} : store'[d] = store[d]
  BY <1>1, <1>2, <1>3
<1>5. StoreExplained'
  <2> SUFFICES ASSUME NEW d \in Documents PROVE Explained(store'[d])
    BY DEF StoreExplained, Explained
  <2> QED BY <1>2, <1>4 DEF MemoryInv, StoreExplained
<1>6. Facts(statement[c]) \union BesideFacts(statement[c]) \subseteq Told
  BY <1>1 DEF Told
<1> QED BY <1>2, <1>4, <1>5, <1>6

(* A session ends with its write, or with one that has not been applied. *)
LEMMA WriteKeepsInv ==
    ASSUME MemoryInv, NEW c \in Sessions, Writing(c), Ends(c),
           \/ Put(c) /\ Excuse(c)
           \/ UNCHANGED <<store, excused>>,
           \/ UNCHANGED promised
           \/ /\ Put(c) /\ Excuse(c)
              /\ promised' = promised \union
                   ({Target(c)} \X (Facts(statement[c]) \union BesideFacts(statement[c])))
    PROVE  MemoryInv'
<1> DEFINE d == Target(c)
           told == Facts(statement[c]) \union BesideFacts(statement[c])
<1>1. /\ statement' \in [Sessions -> Statements \union {NoStatement}] /\ DOMAIN held' = Sessions
      /\ ~Writing(c)' /\ held'[c] = NoDocument
      /\ \A o \in Sessions \ {c} : /\ statement'[o] = statement[o] /\ held'[o] = held[o]
                                   /\ Writing(o)' = Writing(o) /\ Target(o)' = Target(o)
  BY EndedIsSilent
<1>2. d \in Documents
  BY TargetIsDocument
<1>3. Put(c) =>
        /\ store' \in [Documents -> DocumentRow] /\ StoreExplained'
        /\ told \subseteq Told
        /\ store'[d].facts = held[c].facts \union told
        /\ \A o \in Documents \ {d} : store'[o] = store[o]
  BY PutKeepsDocuments
<1>4. store' \in [Documents -> DocumentRow] /\ StoreExplained'
  <2>1. CASE Put(c)
    BY <1>3, <2>1
  <2>2. CASE UNCHANGED store
    BY <2>2 DEF MemoryInv, MemoryTypeOK, StoreExplained, Explained
  <2> QED BY <2>1, <2>2
<1>5. MemoryTypeOK'
  BY <1>1, <1>4 DEF MemoryInv, MemoryTypeOK, Silent
<1>6. HeldExplained'
  <2> SUFFICES ASSUME NEW o \in Sessions, Writing(o)' PROVE Explained(held'[o])
    BY DEF HeldExplained, Explained
  <2> QED BY <1>1 DEF MemoryInv, HeldExplained
<1>7. excused \subseteq excused'
  BY DEF Excuse
<1>8. \A r \in promised : r[1] \in excused'
        \/ /\ r[2] \in store'[r[1]].facts
           /\ \A o \in Sessions : Writing(o)' /\ Target(o)' = r[1] => r[2] \in held'[o].facts
  <2> SUFFICES ASSUME NEW r \in promised, r[1] \notin excused'
               PROVE  /\ r[2] \in store'[r[1]].facts
                      /\ \A o \in Sessions : Writing(o)' /\ Target(o)' = r[1] => r[2] \in held'[o].facts
    OBVIOUS
  <2>1. /\ r[2] \in store[r[1]].facts /\ r[1] \in Documents
        /\ \A o \in Sessions : Writing(o) /\ Target(o) = r[1] => r[2] \in held[o].facts
    BY <1>7 DEF MemoryInv, PromisesKept, PromisesMade
  <2>2. r[2] \in store'[r[1]].facts
    <3>1. CASE UNCHANGED store
      BY <2>1, <3>1
    <3>2. CASE Put(c) /\ r[1] = d
      BY <1>3, <2>1, <3>2
    <3>3. CASE Put(c) /\ r[1] # d
      BY <1>3, <2>1, <3>3
    <3> QED BY <3>1, <3>2, <3>3
  <2> HIDE DEF d
  <2> QED BY <1>1, <2>1, <2>2
<1>9. \A r \in promised' \ promised : r[1] = d /\ r[2] \in told /\ r \in {d} \X told /\ Put(c) /\ Excuse(c)
  BY DEF told, d
<1>10. PromisesKept'
  <2> SUFFICES ASSUME NEW r \in promised', r[1] \notin excused'
               PROVE  /\ r[2] \in store'[r[1]].facts
                      /\ \A o \in Sessions : Writing(o)' /\ Target(o)' = r[1] => r[2] \in held'[o].facts
    BY DEF PromisesKept
  <2>1. CASE r \in promised
    BY <1>8, <2>1
  <2>2. CASE r \notin promised
    <3>1. r[1] = d /\ r[2] \in told /\ Put(c) /\ Excuse(c)
      BY <1>9, <2>2
    <3>2. r[2] \in store'[r[1]].facts
      BY <1>3, <3>1
    <3>3. ASSUME NEW o \in Sessions, Writing(o)', Target(o)' = r[1] PROVE r[2] \in held'[o].facts
      <4>1. o # c /\ Writing(o) /\ Target(o) = d
        BY <1>1, <3>1, <3>3
      <4> QED BY <3>1, <4>1 DEF Excuse, Overlapped
    <3> QED BY <3>2, <3>3
  <2> QED BY <2>1, <2>2
<1>11. PromisesMade'
  <2> HIDE DEF told, d
  <2>1. \A r \in promised' \ promised : r \in Documents \X Told
    BY <1>2, <1>3, <1>9
  <2> QED BY <2>1 DEF MemoryInv, PromisesMade
<1> QED BY <1>4, <1>5, <1>6, <1>10, <1>11 DEF MemoryInv

(* A session that is called or has read: the store is as it was, and the copy of the *)
(* document is what the store holds unless the read failed.                        *)
LEMMA CopyKeepsInv ==
    ASSUME MemoryInv, NEW c \in Sessions, UNCHANGED <<store, promised>>, excused \subseteq excused',
           statement' \in [Sessions -> Statements \union {NoStatement}], DOMAIN held' = Sessions,
           \A o \in Sessions \ {c} : statement'[o] = statement[o] /\ held'[o] = held[o],
           ~Silent(c)',
           Writing(c)' => /\ held'[c] \in DocumentRow /\ Explained(held'[c])
                          /\ held'[c] = store[Target(c)'] \/ Target(c)' \in excused'
    PROVE  MemoryInv'
<1>1. \A o \in Sessions \ {c} : /\ Writing(o)' = Writing(o) /\ Target(o)' = Target(o)
                               /\ Silent(o)' = Silent(o)
  BY DEF Writing, Silent, Target
<1>2. MemoryTypeOK'
  BY <1>1 DEF MemoryInv, MemoryTypeOK
<1>3. StoreExplained'
  BY DEF MemoryInv, StoreExplained, Explained
<1>4. HeldExplained'
  <2> SUFFICES ASSUME NEW o \in Sessions, Writing(o)' PROVE Explained(held'[o])
    BY DEF HeldExplained, Explained
  <2> QED BY <1>1 DEF MemoryInv, HeldExplained
<1>5. PromisesKept'
  <2> SUFFICES ASSUME NEW r \in promised, r[1] \notin excused'
               PROVE  /\ r[2] \in store[r[1]].facts
                      /\ \A o \in Sessions : Writing(o)' /\ Target(o)' = r[1] => r[2] \in held'[o].facts
    BY DEF PromisesKept
  <2>1. /\ r[2] \in store[r[1]].facts
        /\ \A o \in Sessions : Writing(o) /\ Target(o) = r[1] => r[2] \in held[o].facts
    BY DEF MemoryInv, PromisesKept
  <2>2. ASSUME NEW o \in Sessions, Writing(o)', Target(o)' = r[1] PROVE r[2] \in held'[o].facts
    <3>1. CASE o = c
      BY <2>1, <2>2, <3>1
    <3>2. CASE o # c
      BY <1>1, <2>1, <2>2, <3>2
    <3> QED BY <3>1, <3>2
  <2> QED BY <2>1, <2>2
<1> QED BY <1>2, <1>3, <1>4, <1>5 DEF MemoryInv, PromisesMade

(* A session that is called holds no document yet. *)
LEMMA CallKeepsInv ==
    ASSUME MemoryInv, NEW c \in Sessions, Call(c)
    PROVE  MemoryInv'
<1>1. PICK s \in Statements : statement' = [statement EXCEPT ![c] = s]
  BY DEF Call
<1>2. /\ UNCHANGED <<store, held, promised, excused>> /\ held[c] = NoDocument
      /\ statement \in [Sessions -> Statements \union {NoStatement}] /\ DOMAIN held = Sessions
  BY DEF Call, MemoryInv, MemoryTypeOK
<1>3. /\ statement' \in [Sessions -> Statements \union {NoStatement}] /\ statement'[c] = s
      /\ \A o \in Sessions \ {c} : statement'[o] = statement[o]
  BY <1>1, <1>2
<1>4. s # NoStatement
  <2>1. s.tool \in DOMAIN MainField /\ NoStatement.tool = "none" /\ "none" \notin DOMAIN MainField
    BY MemoryAssumption DEF MainField, NoStatement
  <2> QED BY <2>1
<1>5. ~Silent(c)' /\ ~Writing(c)'
  BY <1>2, <1>3, <1>4 DEF Silent, Writing
<1> QED BY <1>2, <1>3, <1>5, CopyKeepsInv

(* A session reads the document, or an empty one and the document is excused. *)
LEMMA ReadKeepsInv ==
    ASSUME MemoryInv, NEW c \in Sessions, Read(c) \/ ReadFails(c)
    PROVE  MemoryInv'
<1>1. /\ UNCHANGED <<store, statement, promised>> /\ excused \subseteq excused' /\ ~Silent(c)
      /\ \/ held' = [held EXCEPT ![c] = store[Target(c)]]
         \/ held' = [held EXCEPT ![c] = UserDocument] /\ Target(c) \in excused'
  BY DEF Read, ReadFails, Reading
<1>2. statement \in [Sessions -> Statements \union {NoStatement}] /\ DOMAIN held = Sessions
  BY DEF MemoryInv, MemoryTypeOK
<1>3. /\ DOMAIN held' = Sessions /\ \A o \in Sessions \ {c} : held'[o] = held[o]
      /\ \/ held'[c] = store[Target(c)]
         \/ held'[c] = UserDocument /\ Target(c) \in excused'
  BY <1>1, <1>2
<1>4. Target(c)' = Target(c) /\ ~Silent(c)'
  BY <1>1 DEF Target, Silent
<1>5. /\ store[Target(c)] \in DocumentRow /\ Explained(store[Target(c)])
      /\ UserDocument \in DocumentRow /\ Explained(UserDocument)
  <2>1. UserDocument \in DocumentRow /\ Explained(UserDocument)
    BY DEF UserDocument, DocumentRow, Explained
  <2> QED BY <2>1, TargetIsDocument DEF MemoryInv, MemoryTypeOK, StoreExplained
<1> QED BY <1>1, <1>2, <1>3, <1>4, <1>5, CopyKeepsInv

(* Every step keeps the invariant of the memory. *)
LEMMA MemoryStep == MemoryInv /\ [MemoryNext]_memoryVars => MemoryInv'
<1> SUFFICES ASSUME MemoryInv, [MemoryNext]_memoryVars PROVE MemoryInv'
  OBVIOUS
<1>1. CASE UNCHANGED memoryVars
  <2> USE <1>1 DEF memoryVars
  <2>1. \A c : Writing(c)' = Writing(c) /\ Silent(c)' = Silent(c) /\ Target(c)' = Target(c)
    BY DEF Writing, Silent, Target
  <2>2. MemoryTypeOK' /\ HeldExplained' /\ StoreExplained'
    BY <2>1 DEF MemoryInv, MemoryTypeOK, HeldExplained, StoreExplained, Explained
  <2>3. PromisesKept' /\ PromisesMade'
    BY <2>1 DEF MemoryInv, PromisesKept, PromisesMade
  <2> QED BY <2>2, <2>3 DEF MemoryInv
<1>2. ASSUME NEW c \in Sessions, Write(c) PROVE MemoryInv'
  BY <1>2, WriteKeepsInv DEF Write
<1>3. ASSUME NEW c \in Sessions, WriteFails(c) PROVE MemoryInv'
  BY <1>3, WriteKeepsInv DEF WriteFails
<1> QED BY <1>1, <1>2, <1>3, CallKeepsInv, ReadKeepsInv DEF MemoryNext

(* The invariant holds of the empty memory. *)
LEMMA MemoryInitInv == MemoryInit => MemoryInv
<1> SUFFICES ASSUME MemoryInit PROVE MemoryInv
  OBVIOUS
<1> USE DEF MemoryInit
<1>1. UserDocument \in DocumentRow /\ Explained(UserDocument)
  BY DEF UserDocument, DocumentRow, Explained
<1>2. \A c \in Sessions : Silent(c) /\ ~Writing(c)
  BY DEF Silent, Writing
<1>3. MemoryTypeOK
  BY <1>1, <1>2 DEF MemoryTypeOK
<1>4. StoreExplained /\ HeldExplained /\ PromisesKept /\ PromisesMade
  BY <1>1, <1>2 DEF StoreExplained, HeldExplained, PromisesKept, PromisesMade
<1> QED BY <1>3, <1>4 DEF MemoryInv

(* Whatever the tools are told, in however many conversations: the promises of the  *)
(* memory tools are kept and its facts explained (core/store.py, tools/memory_tools.py). *)
THEOREM MemoryIsKept == MemorySpec => []MemoryKeepsItsWord
<1>1. MemoryInv => MemoryKeepsItsWord
  BY DEF MemoryInv, PromisesKept, StoreExplained, Explained, MemoryKeepsItsWord
<1> QED BY <1>1, MemoryInitInv, MemoryStep, PTL DEF MemorySpec
=============================================================================
