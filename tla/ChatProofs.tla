---- MODULE ChatProofs ----
(***************************************************************************)
(* Theorems about ChatTurn, for any number of turns and saves, any words   *)
(* and any limits, and about AgentTurn, for anything a user may say and    *)
(* any number of messages and calls.                                       *)
(***************************************************************************)
EXTENDS ChatTurn, AgentTurn, SequenceTheorems, FiniteSetTheorems, WellFoundedInduction, TLAPS

\* The question of the turn is saved, and its answer is not.
Awaiting == {"asked", "reading", "writing", "ready", "replying", "running", "worked", "answering"}

Places == {"new", "checked"} \cup Live \cup Ended

\* The turn that holds the conversation lock is the one that is live.
LockIsHeld ==
    /\ pc \in [ChatTurns -> Places]
    /\ owner \in ChatTurns \cup {NoTurn}
    /\ \A t \in ChatTurns : pc[t] \in Live <=> owner = t

DialogueOK == \E S : dialogue \in Seq(S)

\* The last message is the question of the turn that awaits its answer.
LastIsAsked(d, t) == Len(d) > 0 /\ d[Len(d)].role = "user" /\ d[Len(d)].turn = t

QuestionIsLast == \A t \in ChatTurns : pc[t] \in Awaiting => LastIsAsked(dialogue, t)

(* The inductive invariant *)
DialogueInv == LockIsHeld /\ DialogueOK /\ QuestionIsLast /\ AnswersFollowTheirQuestions

LEMMA PlacesDiffer ==
    /\ Awaiting \subseteq Live /\ Fast \subseteq Live
    /\ \A p \in Live : p \notin Ended /\ p \notin {"new", "checked"}
    /\ \A p \in Ended : p \notin {"new", "checked"}
BY DEF Awaiting, Live, Fast, Ended

\* A message more
LEMMA Appended ==
    ASSUME NEW S, NEW d \in Seq(S), NEW m, NEW e, e = Append(d, m)
    PROVE  /\ \E T : e \in Seq(T)
           /\ Len(d) \in Nat /\ Len(e) = Len(d) + 1
           /\ DOMAIN d = 1..Len(d) /\ DOMAIN e = 1..(Len(d) + 1)
           /\ e[Len(d) + 1] = m
           /\ \A i \in 1..Len(d) : e[i] = d[i]
<1>1. d \in Seq(S \cup {m}) /\ m \in S \cup {m}
  <2>1. d \in Seq(S \cup {m})
    BY SeqDef
  <2> QED BY <2>1
<1>2. e \in Seq(S \cup {m})
  BY <1>1, AppendProperties
<1>3. Len(d) \in Nat /\ DOMAIN d = 1..Len(d)
  BY LenProperties
<1> QED BY <1>1, <1>2, <1>3, AppendProperties

LEMMA QuestionAppended ==
    ASSUME AnswersFollowTheirQuestions, DialogueOK, NEW t,
           NEW m, m.role = "user", m.turn = t, dialogue' = Append(dialogue, m)
    PROVE  AnswersFollowTheirQuestions' /\ DialogueOK' /\ LastIsAsked(dialogue', t)
<1>1. PICK S : dialogue \in Seq(S)
  BY DEF DialogueOK
<1>2. /\ \E T : dialogue' \in Seq(T)
      /\ Len(dialogue) \in Nat /\ Len(dialogue') = Len(dialogue) + 1
      /\ DOMAIN dialogue = 1..Len(dialogue) /\ DOMAIN dialogue' = 1..(Len(dialogue) + 1)
      /\ dialogue'[Len(dialogue) + 1] = m
      /\ \A i \in 1..Len(dialogue) : dialogue'[i] = dialogue[i]
  BY <1>1, Appended
<1>3. AnswersFollowTheirQuestions'
  <2> SUFFICES ASSUME NEW i \in DOMAIN dialogue', dialogue'[i].role = "assistant"
               PROVE  /\ i > 1
                      /\ dialogue'[i - 1].role = "user"
                      /\ dialogue'[i - 1].turn = dialogue'[i].turn
    BY DEF AnswersFollowTheirQuestions
  <2>1. i \in 1..Len(dialogue)
    BY <1>2
  <2>2. dialogue'[i] = dialogue[i] /\ i \in DOMAIN dialogue
    BY <1>2, <2>1
  <2>3. i > 1 /\ dialogue[i - 1].role = "user" /\ dialogue[i - 1].turn = dialogue[i].turn
    BY <2>2 DEF AnswersFollowTheirQuestions
  <2>4. dialogue'[i - 1] = dialogue[i - 1]
    BY <1>2, <2>1, <2>3
  <2> QED BY <2>2, <2>3, <2>4
<1> QED BY <1>2, <1>3 DEF DialogueOK, LastIsAsked

LEMMA AnswerAppended ==
    ASSUME AnswersFollowTheirQuestions, DialogueOK, NEW t, LastIsAsked(dialogue, t),
           NEW m, m.turn = t, dialogue' = Append(dialogue, m)
    PROVE  AnswersFollowTheirQuestions' /\ DialogueOK'
<1>1. PICK S : dialogue \in Seq(S)
  BY DEF DialogueOK
<1>2. /\ \E T : dialogue' \in Seq(T)
      /\ Len(dialogue) \in Nat /\ Len(dialogue') = Len(dialogue) + 1
      /\ DOMAIN dialogue = 1..Len(dialogue) /\ DOMAIN dialogue' = 1..(Len(dialogue) + 1)
      /\ dialogue'[Len(dialogue) + 1] = m
      /\ \A i \in 1..Len(dialogue) : dialogue'[i] = dialogue[i]
  BY <1>1, Appended
<1>3. AnswersFollowTheirQuestions'
  <2> SUFFICES ASSUME NEW i \in DOMAIN dialogue', dialogue'[i].role = "assistant"
               PROVE  /\ i > 1
                      /\ dialogue'[i - 1].role = "user"
                      /\ dialogue'[i - 1].turn = dialogue'[i].turn
    BY DEF AnswersFollowTheirQuestions
  <2>1. CASE i \in 1..Len(dialogue)
    <3>1. dialogue'[i] = dialogue[i] /\ i \in DOMAIN dialogue
      BY <1>2, <2>1
    <3>2. i > 1 /\ dialogue[i - 1].role = "user" /\ dialogue[i - 1].turn = dialogue[i].turn
      BY <3>1 DEF AnswersFollowTheirQuestions
    <3>3. dialogue'[i - 1] = dialogue[i - 1]
      BY <1>2, <2>1, <3>2
    <3> QED BY <3>1, <3>2, <3>3
  <2>2. CASE i = Len(dialogue) + 1
    <3>1. /\ Len(dialogue) > 0 /\ dialogue[Len(dialogue)].role = "user"
          /\ dialogue[Len(dialogue)].turn = t
      BY DEF LastIsAsked
    <3>2. Len(dialogue) \in 1..Len(dialogue) /\ i - 1 = Len(dialogue) /\ i > 1
      <4>1. Len(dialogue) \in Nat
        BY <1>2
      <4> QED BY <2>2, <3>1, <4>1
    <3>3. dialogue'[i - 1] = dialogue[Len(dialogue)]
      BY <1>2, <3>2
    <3>4. dialogue'[i] = m
      BY <1>2, <2>2
    <3> QED BY <3>1, <3>2, <3>3, <3>4
  <2> QED BY <1>2, <2>1, <2>2
<1> QED BY <1>2, <1>3 DEF DialogueOK

-----------------------------------------------------------------------------
(* Steps that leave the messages alone *)

\* A turn moves on; it awaits an answer only if it has done so before.
LEMMA TurnMoves ==
    ASSUME DialogueInv, NEW t \in ChatTurns, NEW where, Go(t, where),
           owner' = owner, dialogue' = dialogue,
           where \in Places, pc[t] \in Live <=> where \in Live,
           where \in Awaiting => pc[t] \in Awaiting
    PROVE  DialogueInv'
<1>1. pc \in [ChatTurns -> Places] /\ pc' = [pc EXCEPT ![t] = where]
  BY DEF DialogueInv, LockIsHeld, Go
<1>2. pc' \in [ChatTurns -> Places] /\ pc'[t] = where
      /\ \A u \in ChatTurns : u # t => pc'[u] = pc[u]
  BY <1>1
<1>3. LockIsHeld'
  BY <1>2 DEF DialogueInv, LockIsHeld
<1>4. QuestionIsLast'
  BY <1>2 DEF DialogueInv, QuestionIsLast
<1> QED BY <1>3, <1>4 DEF DialogueInv, DialogueOK, AnswersFollowTheirQuestions

\* A live turn gives the lock back: nobody awaits an answer any more.
LEMMA TurnLeaves ==
    ASSUME LockIsHeld, NEW t \in ChatTurns, pc[t] \in Live, NEW how \in Ended, Leave(t, how)
    PROVE  LockIsHeld' /\ \A u \in ChatTurns : pc'[u] \notin Awaiting
<1>1. pc \in [ChatTurns -> Places] /\ pc' = [pc EXCEPT ![t] = how] /\ owner' = NoTurn
  BY DEF LockIsHeld, Leave, Go
<1>2. pc' \in [ChatTurns -> Places] /\ pc'[t] = how
      /\ \A u \in ChatTurns : u # t => pc'[u] = pc[u]
  BY <1>1 DEF Places
<1>3. \A u \in ChatTurns : pc'[u] \notin Live
  BY <1>2, PlacesDiffer DEF LockIsHeld
<1>4. \A u \in ChatTurns : owner' # u
  BY <1>1, NoTurnAssumption DEF ChatTurns
<1> QED BY <1>1, <1>2, <1>3, <1>4, PlacesDiffer DEF LockIsHeld

LEMMA QuietlyLeaves ==
    ASSUME DialogueInv, NEW t \in ChatTurns, pc[t] \in Live, NEW how \in Ended, Leave(t, how),
           dialogue' = dialogue
    PROVE  DialogueInv'
<1>1. LockIsHeld' /\ \A u \in ChatTurns : pc'[u] \notin Awaiting
  BY TurnLeaves DEF DialogueInv
<1> QED BY <1>1 DEF DialogueInv, QuestionIsLast, DialogueOK, AnswersFollowTheirQuestions

LEMMA RequestKeepsInv == ASSUME DialogueInv, NEW t \in ChatTurns, Request(t) PROVE DialogueInv'
<1>1. PICK where \in {"refused", "checked"} : Go(t, where)
  BY DEF Request
<1>2. pc[t] \notin Live /\ where \in Places /\ where \notin Live /\ where \notin Awaiting
  BY <1>1, PlacesDiffer DEF Request, Places, Ended
<1> QED BY <1>1, <1>2, TurnMoves DEF Request

LEMMA AcquireKeepsInv == ASSUME DialogueInv, NEW t \in ChatTurns, Acquire(t) PROVE DialogueInv'
<1>1. CASE owner = NoTurn
  <2>1. pc \in [ChatTurns -> Places] /\ pc' = [pc EXCEPT ![t] = "locked"] /\ owner' = t
    BY <1>1 DEF Acquire, Go, DialogueInv, LockIsHeld
  <2>2. "locked" \in Places /\ "locked" \in Live /\ "locked" \notin Awaiting
    BY DEF Places, Live, Fast, Awaiting
  <2>3. \A u \in ChatTurns : pc[u] \notin Live
    BY <1>1, NoTurnAssumption DEF DialogueInv, LockIsHeld, ChatTurns
  <2>4. LockIsHeld'
    BY <2>1, <2>2, <2>3 DEF LockIsHeld
  <2>5. QuestionIsLast'
    BY <2>1, <2>2, <2>3, PlacesDiffer DEF QuestionIsLast
  <2> QED BY <2>4, <2>5 DEF Acquire, DialogueInv, DialogueOK, AnswersFollowTheirQuestions
<1>2. CASE owner # NoTurn
  <2>1. pc[t] \notin Live /\ "busy" \in Places /\ "busy" \notin Live /\ "busy" \notin Awaiting
    BY PlacesDiffer DEF Acquire, Places, Ended
  <2> QED BY <1>2, <2>1, TurnMoves DEF Acquire
<1> QED BY <1>1, <1>2

LEMMA PrepareMoves ==
    ASSUME NEW t, Prepare(t)
    PROVE  /\ Go(t, "reading") \/ Go(t, "ready")
           /\ pc[t] = "asked" /\ owner' = owner /\ dialogue' = dialogue
BY DEF Prepare

-----------------------------------------------------------------------------
(* Steps that save a message *)

LEMMA QuestionKeepsInv == ASSUME DialogueInv, NEW t \in ChatTurns, SaveQuestion(t) PROVE DialogueInv'
<1>1. PICK w \in Words : dialogue' = Append(dialogue, Message(t, "user", WordFacts(w)))
  BY DEF SaveQuestion
<1>2. /\ Message(t, "user", WordFacts(w)).role = "user"
      /\ Message(t, "user", WordFacts(w)).turn = t
  BY DEF Message
<1>3. AnswersFollowTheirQuestions' /\ DialogueOK' /\ LastIsAsked(dialogue', t)
  BY <1>1, <1>2, QuestionAppended DEF DialogueInv
<1>4. /\ pc \in [ChatTurns -> Places] /\ pc[t] = "locked" /\ pc' = [pc EXCEPT ![t] = "asked"]
      /\ owner' = owner
  BY DEF SaveQuestion, Go, DialogueInv, LockIsHeld
<1>5. {"asked", "locked"} \subseteq Live /\ Live \subseteq Places
  BY DEF Live, Fast, Places
<1>6. LockIsHeld'
  BY <1>4, <1>5 DEF DialogueInv, LockIsHeld
<1>7. \A u \in ChatTurns : pc'[u] \in Live => u = t
  BY <1>4, <1>5, <1>6 DEF LockIsHeld
<1>8. QuestionIsLast'
  BY <1>3, <1>7, PlacesDiffer DEF QuestionIsLast
<1> QED BY <1>3, <1>6, <1>8 DEF DialogueInv

LEMMA FastAnswerKeepsInv ==
    ASSUME DialogueInv, NEW t \in ChatTurns, SaveFastAnswer(t) PROVE DialogueInv'
<1>1. pc[t] \in Awaiting /\ pc[t] \in Live /\ "answered" \in Ended
  BY DEF SaveFastAnswer, Awaiting, Live, Fast, Ended
<1>2. LockIsHeld' /\ \A u \in ChatTurns : pc'[u] \notin Awaiting
  BY <1>1, TurnLeaves DEF SaveFastAnswer, DialogueInv
<1>3. Message(t, "assistant", job[t].facts).turn = t
  BY DEF Message
<1>4. AnswersFollowTheirQuestions' /\ DialogueOK'
  BY <1>1, <1>3, AnswerAppended DEF SaveFastAnswer, DialogueInv, QuestionIsLast
<1> QED BY <1>2, <1>4 DEF DialogueInv, QuestionIsLast

LEMMA AnswerKeepsInv == ASSUME DialogueInv, NEW t \in ChatTurns, SaveAnswer(t) PROVE DialogueInv'
<1>1. pc[t] \in Awaiting /\ pc[t] \in Live
  BY DEF SaveAnswer, Awaiting, Live
<1>2. AnswersFollowTheirQuestions' /\ DialogueOK'
  <2>1. Message(t, "assistant", NoFacts).turn = t
    BY DEF Message
  <2>2. CASE dialogue' = Append(dialogue, Message(t, "assistant", NoFacts))
    BY <1>1, <2>1, <2>2, AnswerAppended DEF DialogueInv, QuestionIsLast
  <2>3. CASE dialogue' = dialogue
    BY <2>3 DEF DialogueInv, DialogueOK, AnswersFollowTheirQuestions
  <2> QED BY <2>2, <2>3 DEF SaveAnswer
<1>3. LockIsHeld' /\ \A u \in ChatTurns : pc'[u] \notin Awaiting
  <2>1. CASE Leave(t, "unmarked")
    <3>1. "unmarked" \in Ended
      BY DEF Ended
    <3> QED BY <1>1, <2>1, <3>1, TurnLeaves DEF DialogueInv
  <2>2. ASSUME NEW where \in {"drafting", "marking"}, Go(t, where), owner' = owner
        PROVE  LockIsHeld' /\ \A u \in ChatTurns : pc'[u] \notin Awaiting
    <3>1. pc \in [ChatTurns -> Places] /\ pc' = [pc EXCEPT ![t] = where]
      BY <2>2 DEF DialogueInv, LockIsHeld, Go
    <3>2. where \in Live /\ where \in Places /\ where \notin Awaiting
      BY DEF Live, Places, Awaiting
    <3>3. LockIsHeld'
      BY <1>1, <2>2, <3>1, <3>2 DEF DialogueInv, LockIsHeld
    <3>4. \A u \in ChatTurns : pc'[u] \in Live => u = t
      BY <3>1, <3>2, <3>3 DEF LockIsHeld
    <3> QED BY <3>1, <3>2, <3>3, <3>4, PlacesDiffer
  <2> QED BY <2>1, <2>2 DEF SaveAnswer, AfterAnswer
<1> QED BY <1>2, <1>3 DEF DialogueInv, QuestionIsLast

-----------------------------------------------------------------------------
LEMMA FastKeepsInv == ASSUME DialogueInv, NEW t \in ChatTurns, FastStep(t) PROVE DialogueInv'
<1>1. CASE Prepare(t)
  <2>1. {"asked", "reading", "ready"} \subseteq Live /\ {"asked", "reading", "ready"} \subseteq Places
        /\ {"asked", "reading", "ready"} \subseteq Awaiting
    BY DEF Live, Fast, Places, Awaiting
  <2> QED BY <1>1, <2>1, PrepareMoves, TurnMoves
<1>2. CASE ReadForFacts(t)
  <2>1. {"reading", "writing"} \subseteq Live /\ "writing" \in Places /\ "reading" \in Awaiting
    BY DEF Live, Fast, Places, Awaiting
  <2> QED BY <1>2, <2>1, TurnMoves DEF ReadForFacts
<1>3. CASE WriteFacts(t)
  <2>1. PICK where \in {"ready", "replying"} : Go(t, where)
    BY <1>3 DEF WriteFacts
  <2>2. "writing" \in Live /\ where \in Live /\ where \in Places /\ "writing" \in Awaiting
    BY DEF Live, Fast, Places, Awaiting
  <2> QED BY <1>3, <2>1, <2>2, TurnMoves DEF WriteFacts
<1> QED BY <1>1, <1>2, <1>3, RequestKeepsInv, AcquireKeepsInv, QuestionKeepsInv, FastAnswerKeepsInv
        DEF FastStep

LEMMA AgentKeepsInv ==
    ASSUME DialogueInv, NEW t \in ChatTurns, AgentStep(t) \/ AgentWorks(t) \/ Cancel(t)
    PROVE  DialogueInv'
<1>1. /\ {"ready", "running", "worked", "answering"} \subseteq Awaiting
      /\ {"ready", "running", "worked", "answering", "drafting", "drafted", "marking", "marked"}
           \subseteq Live
      /\ {"drafting", "drafted", "marking", "marked"} \intersect Awaiting = {}
      /\ Live \subseteq Places
      /\ {"completed", "unmarked", "left"} \subseteq Ended
  BY DEF Awaiting, Live, Fast, Places, Ended
<1>2. CASE StartAgent(t)
  BY <1>1, <1>2, TurnMoves DEF StartAgent
<1>3. CASE AgentWorks(t)
  BY <1>1, <1>3, TurnMoves DEF AgentWorks
<1>4. CASE AgentEnds(t) \/ AgentStalls(t)
  BY <1>1, <1>4, TurnMoves DEF AgentEnds, AgentStalls
<1>5. CASE AgentFails(t)
  BY <1>1, <1>5, QuietlyLeaves DEF AgentFails
<1>6. CASE ReadForDraft(t)
  BY <1>1, <1>6, TurnMoves DEF ReadForDraft
<1>7. CASE WriteDraft(t)
  <2>1. CASE job[t].cut
    BY <1>1, <1>7, <2>1, QuietlyLeaves DEF WriteDraft
  <2>2. CASE ~job[t].cut
    BY <1>1, <1>7, <2>2, TurnMoves DEF WriteDraft
  <2> QED BY <2>1, <2>2
<1>8. CASE ReadForMark(t)
  BY <1>1, <1>8, TurnMoves DEF ReadForMark
<1>9. CASE WriteMark(t) \/ SkipMark(t)
  BY <1>1, <1>9, QuietlyLeaves DEF WriteMark, SkipMark
<1>10. CASE Cancel(t)
  <2>1. PICK how \in {"left", "unmarked"} : Leave(t, how)
    BY <1>10 DEF Cancel
  <2> QED BY <1>1, <1>10, <2>1, QuietlyLeaves DEF Cancel
<1> QED BY <1>2, <1>3, <1>4, <1>5, <1>6, <1>7, <1>8, <1>9, <1>10, AnswerKeepsInv DEF AgentStep

LEMMA DialogueInvStarts == ChatInit => DialogueInv
<1> SUFFICES ASSUME ChatInit PROVE DialogueInv
  OBVIOUS
<1>1. /\ pc = [t \in ChatTurns |-> "new"] /\ "new" \in Places
      /\ "new" \notin Live /\ "new" \notin Awaiting
  BY DEF ChatInit, Places, Live, Fast, Awaiting
<1>2. LockIsHeld
  BY <1>1, NoTurnAssumption DEF ChatInit, LockIsHeld, ChatTurns
<1>3. DialogueOK /\ DOMAIN dialogue = {}
  <2>1. <<>> \in Seq({}) /\ DOMAIN <<>> = {}
    OBVIOUS
  <2> QED BY <2>1 DEF ChatInit, DialogueOK
<1> QED BY <1>1, <1>2, <1>3 DEF DialogueInv, QuestionIsLast, AnswersFollowTheirQuestions

LEMMA DialogueInvStays == DialogueInv /\ [ChatNext]_chatVars => DialogueInv'
<1> SUFFICES ASSUME DialogueInv, [ChatNext]_chatVars PROVE DialogueInv'
  OBVIOUS
<1>1. CASE \E t \in ChatTurns : FastStep(t) \/ AgentStep(t) \/ AgentWorks(t) \/ Cancel(t)
  BY <1>1, FastKeepsInv, AgentKeepsInv
<1>2. CASE UNCHANGED <<pc, owner, dialogue>>
  BY <1>2 DEF DialogueInv, LockIsHeld, DialogueOK, QuestionIsLast, AnswersFollowTheirQuestions
<1> QED BY <1>1, <1>2 DEF ChatNext, chatVars, SaveReads, SaveWrites

(* However many turns are sent, refused, cancelled or cut off, and whoever saves    *)
(* a draft meanwhile, no answer comes to stand behind another turn's question      *)
(* (api/v1/chat.py: the lock is held from before the question to after the answer). *)
THEOREM AnswersBelongToQuestions == ChatSpec => []AnswersFollowTheirQuestions
<1>1. DialogueInv => AnswersFollowTheirQuestions
  BY DEF DialogueInv
<1> QED BY <1>1, DialogueInvStarts, DialogueInvStays, PTL DEF ChatSpec

-----------------------------------------------------------------------------
(* What the user told, and the marker of the conversation row: a second invariant, which *)
(* stands on the first. *)

\* No turn of the agent has been, or is under way.
AgentPhase == Live \ Fast
Fresh == NeverRan /\ \A u \in ChatTurns : pc[u] \notin AgentPhase

\* The job of a turn, and the rows, have the fields that are read.
IsJob(j) == DOMAIN j = DOMAIN NoJob

RowsOK ==
    /\ DOMAIN job = ChatTurns /\ \A t \in ChatTurns : IsJob(job[t])
    /\ DOMAIN extra = DOMAIN NoExtra
    /\ DOMAIN seen = ChatTurns \cup Saves /\ \A r \in ChatTurns \cup Saves : DOMAIN seen[r] = DOMAIN NoExtra
    /\ DOMAIN agent = DOMAIN NoAgent /\ agent.stage \in Nat
    /\ DOMAIN saving = Saves

\* Before the first turn of the agent no row carries its marker.
Deriving == {"reading", "writing", "ready", "replying"}
NothingIsMarked ==
    Fresh =>
      /\ ~extra.init /\ \A r \in ChatTurns \cup Saves : ~seen[r].init
      /\ \A t \in ChatTurns : pc[t] \in Deriving => ~job[t].ctx.init

\* The answers so far: each knows what was told before it.
AnswersAddUp ==
    Fresh =>
      \A j \in Answers :
        /\ dialogue[j].facts # NoFacts
        /\ \A k \in Requirements, i \in DOMAIN dialogue :
             i < j /\ i + 1 \in Answers /\ dialogue[i].facts.req[k] # 0 => dialogue[j].facts.req[k] # 0

\* A turn under way knows it too, and seeds the agent with it.
JobsAddUp ==
    \A t \in ChatTurns :
      /\ pc[t] \in {"asked"} \cup Deriving => dialogue[Len(dialogue)].facts = WordFacts(job[t].word)
      /\ pc[t] \in {"new", "checked", "locked", "asked"} => job[t].kind = "none" /\ ~job[t].seeds
      /\ pc[t] = "ready" => job[t].kind = "agent"
      /\ pc[t] = "replying" => job[t].kind # "agent"
      /\ Fresh /\ pc[t] \in Deriving =>
           \A k \in Requirements :
             /\ ToldAndAnswered(k) => job[t].facts.req[k] # 0
             /\ job[t].kind = "agent" /\ job[t].decision.sure /\ ToldAndAnswered(k) => job[t].seeds
             /\ job[t].kind # "agent" => /\ job[t].facts # NoFacts
                                         /\ job[t].word.req[k] # 0 => job[t].facts.req[k] # 0

\* The plan is where it began, or the row says that the agent owns it, unless a turn has
\* ended without its marker or a saved draft has taken the marker away.
Excused ==
    \/ \E u \in ChatTurns : pc[u] = "unmarked"
    \/ \E s \in Saves : saving[s] = "saved" /\ ~seen[s].init
MarkedUnlessExcused ==
    /\ agent.stage = 0 \/ Excused \/ extra.init \/ \E u \in ChatTurns : pc[u] \in AgentPhase
    /\ \A t \in ChatTurns : pc[t] = "writing" => agent.stage = 0 \/ Excused \/ seen[t].init
    /\ \A t \in ChatTurns :
         pc[t] \in Deriving /\ job[t].seeds /\ ~job[t].decision.latest => agent.stage = 0 \/ Excused

ChatInv == RowsOK /\ NothingIsMarked /\ AnswersAddUp /\ JobsAddUp /\ MarkedUnlessExcused

-----------------------------------------------------------------------------
(* The facts of the answers *)

\* A set of positions has a last one.
LEMMA HasGreatest ==
    ASSUME NEW n \in Nat, NEW S \in SUBSET (1..n), S # {}
    PROVE  \E l \in S : \A j \in S : j <= l
<1> DEFINE fromEnd == {n - i : i \in S}
<1>1. fromEnd \in SUBSET Nat /\ fromEnd # {}
  <2>1. \A i \in S : n - i \in Nat
    OBVIOUS
  <2> QED BY <2>1
<1>2. PICK low \in fromEnd : \A m \in fromEnd : ~(<<m, low>> \in OpToRel(<, Nat))
  BY <1>1, NatLessThanWellFounded, WFMin, Zenon
<1>3. PICK l \in S : low = n - l
  OBVIOUS
<1>4. ASSUME NEW j \in S PROVE j <= l
  <2>1. n - j \in fromEnd /\ n - j \in Nat /\ low \in Nat
    BY <1>1
  <2>2. ~(n - j < low)
    BY <1>2, <2>1 DEF OpToRel
  <2> QED BY <1>3, <2>2
<1> QED BY <1>4

\* The facts that a message is read with are those of the last answer, and it knows all.
LEMMA LatestKnows ==
    ASSUME DialogueOK, AnswersAddUp, Fresh
    PROVE  /\ Answers # {} => LatestFacts # NoFacts
           /\ \A k \in Requirements : ToldAndAnswered(k) => Answers # {} /\ LatestFacts.req[k] # 0
<1>1. DOMAIN dialogue = 1..Len(dialogue) /\ Len(dialogue) \in Nat
  <2>1. PICK S : dialogue \in Seq(S)
    BY DEF DialogueOK
  <2> QED BY <2>1, LenProperties
<1>2. Answers \in SUBSET (1..Len(dialogue)) /\ \A i \in Answers : i \in Int
  <2>1. \A i \in Answers : i \in 1..Len(dialogue)
    BY <1>1 DEF Answers
  <2> QED BY <1>1, <2>1
<1>3. ASSUME NEW k \in Requirements, ToldAndAnswered(k)
      PROVE  \E i \in DOMAIN dialogue : i + 1 \in Answers /\ dialogue[i].facts.req[k] # 0
  BY <1>1, <1>3 DEF ToldAndAnswered, Answers
<1>4. ASSUME Answers # {}
      PROVE  /\ LatestFacts # NoFacts
             /\ \A k \in Requirements : ToldAndAnswered(k) => LatestFacts.req[k] # 0
  <2>1. PICK l \in Answers : \A j \in Answers : j <= l
    BY <1>1, <1>2, <1>4, HasGreatest
  <2> DEFINE last == {i \in Answers : Cardinality({j \in Answers : i < j}) < Lookback}
             told == {i \in last : dialogue[i].facts # NoFacts}
  <2>2. l \in last
    <3>1. {j \in Answers : l < j} = {}
      <4>1. \A j \in Answers : j <= l /\ j \in Int /\ l \in Int
        BY <1>2, <2>1
      <4>2. \A j \in Answers : ~(l < j)
        BY <4>1
      <4> QED BY <4>2
    <3>2. Cardinality({}) = 0 /\ 0 < Lookback
      BY FS_EmptySet, BoundsAssumption
    <3> QED BY <3>1, <3>2
  <2>3. l \in told /\ \A j \in told : j <= l
    BY <2>1, <2>2 DEF AnswersAddUp
  <2>4. told \subseteq Int
    BY <1>1, <1>2
  <2>5. LatestFacts = IF told = {} THEN NoFacts
                      ELSE dialogue[CHOOSE i \in told : \A j \in told : j <= i].facts
    BY DEF LatestFacts
  <2> HIDE DEF told
  <2>6. (CHOOSE i \in told : \A j \in told : j <= i) = l
    <3>1. \A i \in told : (\A j \in told : j <= i) <=> i = l
      BY <2>3, <2>4
    <3> QED BY <2>3, <3>1
  <2>7. LatestFacts = dialogue[l].facts
    BY <2>3, <2>5, <2>6
  <2>8. ASSUME NEW k \in Requirements, ToldAndAnswered(k) PROVE LatestFacts.req[k] # 0
    <3>1. PICK i \in DOMAIN dialogue : i + 1 \in Answers /\ dialogue[i].facts.req[k] # 0
      BY <1>3, <2>8
    <3>2. i < l
      BY <1>1, <1>2, <2>1, <3>1
    <3> QED BY <2>7, <3>1, <3>2 DEF AnswersAddUp
  <2> QED BY <2>7, <2>8 DEF AnswersAddUp
<1> QED BY <1>3, <1>4

\* What is known stays known, whatever is merged into it.
LEMMA MergeKnows ==
    ASSUME NEW f, NEW g, NEW k \in Requirements
    PROVE  /\ f.req[k] # 0 \/ g.req[k] # 0 => Merge(f, g).req[k] # 0
           /\ f.req[k] # 0 => f # NoFacts
<1>1. Merge(f, g).req = Over(f.req, g.req)
  BY DEF Merge
<1>2. Over(f.req, g.req)[k] = IF g.req[k] # 0 THEN g.req[k] ELSE f.req[k]
  BY DEF Over
<1>3. NoFacts.req[k] = 0
  BY DEF NoFacts
<1> QED BY <1>1, <1>2, <1>3

LEMMA FactsOfWord ==
    ASSUME NEW w
    PROVE  WordFacts(w).req = w.req /\ WordFacts(w) # NoFacts
BY DEF WordFacts, NoFacts

\* A message adds to the facts; so does the agency's way of putting them.
LEMMA AgencyKnows ==
    ASSUME NEW w, NEW facts, NEW decision, NEW k \in Requirements,
           AgencyFacts(w, facts, decision) # NoFacts,
           facts.req[k] # 0 \/ w.req[k] # 0
    PROVE  AgencyFacts(w, facts, decision).req[k] # 0
<1>1. AgencyFacts(w, facts, decision) = Merge(Merge(facts, WordFacts(w)), Chosen("agency"))
  BY DEF AgencyFacts
<1>2. Merge(facts, WordFacts(w)).req[k] # 0
  BY MergeKnows, FactsOfWord
<1> QED BY <1>1, <1>2, MergeKnows

LEMMA JobFields ==
    ASSUME NEW j, IsJob(j), NEW ctx, NEW facts, NEW decision
    PROVE  /\ IsJob(SplitJob(j, ctx)) /\ IsJob(ReplyJob(j, ctx, facts, decision))
           /\ \A x \in {SplitJob(j, ctx), ReplyJob(j, ctx, facts, decision)} :
                 x.kind \in {"split", "reply"} /\ x.ctx = ctx /\ x.word = j.word /\ x.seeds = j.seeds
           /\ SplitJob(j, ctx).facts = WordFacts(j.word)
           /\ ReplyJob(j, ctx, facts, decision).facts = AgencyFacts(j.word, facts, decision)
<1>1. DOMAIN j = {"word", "kind", "facts", "ctx", "decision", "seeds", "made", "cut"}
  BY DEF IsJob, NoJob
<1> QED BY <1>1 DEF IsJob, SplitJob, ReplyJob

LEMMA AgentJobFields ==
    ASSUME NEW j, IsJob(j), NEW ctx, NEW facts, NEW decision,
           NEW x, x = AgentJob(j, ctx, facts, decision)
    PROVE  /\ IsJob(x)
           /\ x.kind = "agent" /\ x.ctx = ctx /\ x.word = j.word /\ x.decision = decision
           /\ x.seeds <=> SeedApplies(facts, ctx, decision)
           /\ x.facts = IF AgencyFacts(j.word, facts, decision) # NoFacts
                        THEN AgencyFacts(j.word, facts, decision) ELSE facts
<1>1. DOMAIN j = {"word", "kind", "facts", "ctx", "decision", "seeds", "made", "cut"}
  BY DEF IsJob, NoJob
<1> QED BY <1>1 DEF IsJob, AgentJob

-----------------------------------------------------------------------------
(* One turn at a time *)

LEMMA Phases ==
    /\ Deriving \subseteq Fast /\ {"asked", "locked"} \subseteq Fast /\ Fast \subseteq Live
    /\ AgentPhase \subseteq Live /\ AgentPhase \cap Fast = {}
    /\ AgentPhase = {"running", "worked", "answering", "drafting", "drafted", "marking", "marked"}
    /\ {"new", "checked", "unmarked", "completed", "left", "refused", "busy", "answered"} \cap Live = {}
    /\ {"asked", "locked"} \cap Deriving = {}
BY DEF Deriving, Fast, Live, AgentPhase

\* A step of a live turn: the others are not live, before and after.
LEMMA Alone ==
    ASSUME DialogueInv, NEW t \in ChatTurns, NEW where, Go(t, where)
    PROVE  /\ pc'[t] = where /\ \A u \in ChatTurns : u # t => pc'[u] = pc[u]
           /\ pc[t] \in Live => \A u \in ChatTurns : u # t => pc[u] \notin Live
BY DEF DialogueInv, LockIsHeld, Go

LEMMA ExcusedStays ==
    ASSUME Excused,
           \A u \in ChatTurns : pc[u] = "unmarked" => pc'[u] = "unmarked",
           \A s \in Saves : saving[s] = "saved" => saving'[s] = "saved" /\ seen'[s] = seen[s]
    PROVE  Excused'
BY DEF Excused

\* Once the agent runs, its turn ends with the marker or as an excuse.
LEMMA AgentPhaseKeepsInv ==
    ASSUME ChatInv, DialogueInv, NEW t \in ChatTurns, NEW where, Go(t, where), pc[t] \in Live,
           RowsOK', \A u \in ChatTurns : u # t => job'[u] = job[u],
           \/ where \in AgentPhase \cup {"unmarked"}
           \/ where = "completed" /\ extra'.init
    PROVE  ChatInv'
<1>1. /\ pc'[t] = where /\ \A u \in ChatTurns : u # t => pc'[u] = pc[u] /\ pc[u] \notin Live
  BY Alone
<1>2. ~Fresh'
  BY <1>1 DEF Fresh, NeverRan
<1>3. where \notin Fast /\ where \notin {"new", "checked"}
  BY Phases
<1>4. \A u \in ChatTurns : pc'[u] \notin Fast
  BY <1>1, <1>3, Phases
<1>5. JobsAddUp'
  <2>1. ASSUME NEW u \in ChatTurns
        PROVE  /\ pc'[u] \notin {"asked", "locked", "ready", "replying"} \cup Deriving
               /\ pc'[u] \in {"new", "checked"} => pc[u] = pc'[u] /\ job'[u] = job[u]
    BY <1>1, <1>3, <1>4, Phases DEF Deriving
  <2> QED BY <1>2, <2>1 DEF JobsAddUp, ChatInv
<1>6. MarkedUnlessExcused'
  <2>1. \A u \in ChatTurns : pc'[u] \notin Deriving
    BY <1>4, Phases
  <2>2. extra'.init \/ Excused' \/ \E u \in ChatTurns : pc'[u] \in AgentPhase
    BY <1>1 DEF Excused
  <2> QED BY <2>1, <2>2 DEF MarkedUnlessExcused, Deriving
<1> QED BY <1>2, <1>5, <1>6 DEF ChatInv, NothingIsMarked, AnswersAddUp

\* A turn that comes in, or is turned away, or goes away before the agent has begun
LEMMA QuietKeepsInv ==
    ASSUME ChatInv, DialogueInv, NEW t \in ChatTurns, NEW where, Go(t, where),
           UNCHANGED <<dialogue, extra, agent, saving>>,
           pc[t] \notin AgentPhase \cup {"unmarked", "completed"},
           \/ where \in {"refused", "checked", "busy", "locked"} /\ pc[t] \in {"new", "checked"}
              /\ job' = job /\ seen' = seen
           \/ where = "left" /\ job' = [job EXCEPT ![t] = NoJob]
              /\ seen' = [seen EXCEPT ![t] = NoExtra]
    PROVE  ChatInv'
<1>1. /\ pc'[t] = where /\ \A u \in ChatTurns : u # t => pc'[u] = pc[u]
      /\ where \notin AgentPhase \cup {"unmarked", "completed", "asked"} \cup Deriving
  BY Alone, Phases
<1>2. Fresh' => Fresh
  BY <1>1 DEF Fresh, NeverRan
<1>3. RowsOK'
  BY DEF ChatInv, RowsOK, IsJob
<1>4. /\ \A r \in ChatTurns \cup Saves : seen'[r] = seen[r] \/ (r = t /\ seen'[r] = NoExtra)
      /\ \A u \in ChatTurns : u # t => job'[u] = job[u]
      /\ \A s \in Saves : seen'[s] = seen[s]
  BY SavesAssumption DEF ChatInv, RowsOK
<1>5. NothingIsMarked'
  <2>1. ~NoExtra.init
    BY DEF NoExtra
  <2> QED BY <1>1, <1>2, <1>4, <2>1 DEF ChatInv, NothingIsMarked
<1>6. AnswersAddUp'
  BY <1>2 DEF ChatInv, AnswersAddUp, Answers
<1>7. JobsAddUp'
  <2>1. \A k : ToldAndAnswered(k)' = ToldAndAnswered(k)
    BY DEF ToldAndAnswered
  <2>2. ASSUME NEW u \in ChatTurns, u # t PROVE pc'[u] = pc[u] /\ job'[u] = job[u]
    BY <1>1, <1>4, <2>2
  <2>3. /\ pc'[t] \notin {"new", "asked", "ready", "replying"} \cup Deriving
        /\ pc'[t] \in {"checked", "locked"} => job'[t] = job[t] /\ pc[t] \in {"new", "checked"}
    BY <1>1 DEF Deriving
  <2> QED BY <1>2, <2>1, <2>2, <2>3 DEF ChatInv, JobsAddUp
<1>8. MarkedUnlessExcused'
  <2>1. Excused => Excused'
    BY <1>1, <1>4, ExcusedStays
  <2>2. \A u \in ChatTurns : pc[u] \in AgentPhase => pc'[u] \in AgentPhase
    BY <1>1
  <2>3. \A u \in ChatTurns : pc'[u] \in Deriving =>
            pc[u] = pc'[u] /\ job'[u] = job[u] /\ seen'[u] = seen[u]
    BY <1>1, <1>4
  <2> QED BY <2>1, <2>2, <2>3 DEF ChatInv, MarkedUnlessExcused, Deriving
<1> QED BY <1>3, <1>5, <1>6, <1>7, <1>8 DEF ChatInv

\* A message of the user joins the dialogue.
LEMMA AskedKeepsInv ==
    ASSUME ChatInv, DialogueInv, NEW t \in ChatTurns, SaveQuestion(t)
    PROVE  ChatInv'
<1>1. PICK w \in Words :
          /\ job' = [job EXCEPT ![t].word = w]
          /\ dialogue' = Append(dialogue, Message(t, "user", WordFacts(w)))
  BY DEF SaveQuestion
<1>2. /\ pc'[t] = "asked" /\ \A u \in ChatTurns : u # t => pc'[u] = pc[u] /\ pc[u] \notin Live
      /\ pc[t] = "locked"
  BY Alone, Phases DEF SaveQuestion
<1>3. Fresh' => Fresh
  BY <1>2, Phases DEF Fresh, NeverRan
<1>4. /\ job'[t].word = w /\ job'[t].kind = job[t].kind /\ job'[t].seeds = job[t].seeds
      /\ IsJob(job'[t]) /\ DOMAIN job' = ChatTurns
      /\ \A u \in ChatTurns : u # t => job'[u] = job[u]
  BY <1>1 DEF ChatInv, RowsOK, IsJob, NoJob
<1>5. RowsOK'
  BY <1>4 DEF ChatInv, RowsOK, SaveQuestion
<1>6. /\ Len(dialogue) \in Nat /\ DOMAIN dialogue = 1..Len(dialogue)
      /\ Len(dialogue') = Len(dialogue) + 1 /\ DOMAIN dialogue' = 1..(Len(dialogue) + 1)
      /\ dialogue'[Len(dialogue) + 1] = Message(t, "user", WordFacts(w))
      /\ \A i \in 1..Len(dialogue) : dialogue'[i] = dialogue[i]
  BY <1>1, Appended DEF DialogueInv, DialogueOK
<1>7. Message(t, "user", WordFacts(w)).role = "user"
      /\ Message(t, "user", WordFacts(w)).facts = WordFacts(w)
  BY DEF Message
<1>8. NothingIsMarked'
  BY <1>2, <1>3, Phases DEF ChatInv, NothingIsMarked, SaveQuestion
<1>9. AnswersAddUp'
  <2>1. Answers' = Answers
    BY <1>6, <1>7 DEF Answers
  <2>2. \A j \in Answers : j \in 1..Len(dialogue)
    BY <1>6 DEF Answers
  <2>3. \A j \in Answers, i \in DOMAIN dialogue' : i < j => i \in DOMAIN dialogue
    BY <1>6, <2>2
  <2> QED BY <1>3, <1>6, <2>1, <2>2, <2>3 DEF ChatInv, AnswersAddUp
<1>10. JobsAddUp'
  <2>1. ASSUME NEW u \in ChatTurns, u # t
        PROVE  pc'[u] = pc[u] /\ job'[u] = job[u] /\ pc[u] \notin {"asked"} \cup Deriving
    BY <1>2, <1>4, <2>1, Phases
  <2>2. dialogue'[Len(dialogue')].facts = WordFacts(job'[t].word)
    BY <1>4, <1>6, <1>7
  <2>3. job'[t].kind = "none" /\ ~job'[t].seeds
    BY <1>2, <1>4 DEF ChatInv, JobsAddUp
  <2> QED BY <1>2, <2>1, <2>2, <2>3 DEF ChatInv, JobsAddUp, Deriving
<1>11. MarkedUnlessExcused'
  <2>1. Excused => Excused'
    BY <1>2, ExcusedStays DEF SaveQuestion
  <2>2. \A u \in ChatTurns : pc[u] \notin AgentPhase /\ pc'[u] \notin Deriving
    BY <1>2, Phases
  <2> QED BY <2>1, <2>2 DEF ChatInv, MarkedUnlessExcused, SaveQuestion, Deriving
<1> QED BY <1>5, <1>8, <1>9, <1>10, <1>11 DEF ChatInv

\* An answer of the fast path joins the dialogue: it knows all that was told.
LEMMA FastAnsweredKeepsInv ==
    ASSUME ChatInv, DialogueInv, NEW t \in ChatTurns, SaveFastAnswer(t)
    PROVE  ChatInv'
<1>1. /\ dialogue' = Append(dialogue, Message(t, "assistant", job[t].facts))
      /\ Go(t, "answered") /\ job' = [job EXCEPT ![t] = NoJob] /\ seen' = [seen EXCEPT ![t] = NoExtra]
      /\ UNCHANGED <<extra, agent, saving>> /\ pc[t] = "replying"
  BY DEF SaveFastAnswer, Leave
<1>2. /\ pc'[t] = "answered" /\ \A u \in ChatTurns : u # t => pc'[u] = pc[u] /\ pc[u] \notin Live
      /\ "replying" \in Deriving
  BY <1>1, Alone, Phases DEF Deriving, Live, Fast
<1>3. Fresh' => Fresh
  BY <1>1, <1>2, Phases DEF Fresh, NeverRan
<1>4. RowsOK'
  BY <1>1 DEF ChatInv, RowsOK, IsJob
<1>5. /\ Len(dialogue) \in Nat /\ DOMAIN dialogue = 1..Len(dialogue)
      /\ Len(dialogue') = Len(dialogue) + 1 /\ DOMAIN dialogue' = 1..(Len(dialogue) + 1)
      /\ dialogue'[Len(dialogue) + 1] = Message(t, "assistant", job[t].facts)
      /\ \A i \in 1..Len(dialogue) : dialogue'[i] = dialogue[i]
  BY <1>1, Appended DEF DialogueInv, DialogueOK
<1>6. /\ \A r \in ChatTurns \cup Saves : seen'[r] = seen[r] \/ seen'[r] = NoExtra
      /\ \A s \in Saves : seen'[s] = seen[s]
      /\ ~NoExtra.init
      /\ \A u \in ChatTurns : u # t => job'[u] = job[u]
  BY <1>1, SavesAssumption DEF ChatInv, RowsOK, NoExtra
<1>7. \A u \in ChatTurns : pc'[u] \notin Fast /\ pc'[u] \notin AgentPhase
  BY <1>2, Phases
<1>8. NothingIsMarked'
  BY <1>1, <1>3, <1>6, <1>7, Phases DEF ChatInv, NothingIsMarked
<1>9. ASSUME Fresh PROVE AnswersAddUp'
  <2> DEFINE n == Len(dialogue)
  <2>1. Answers' = Answers \cup {n + 1} /\ \A j \in Answers : j \in 1..n
    <3>1. Message(t, "assistant", job[t].facts).role = "assistant"
      BY DEF Message
    <3> QED BY <1>5, <3>1 DEF Answers
  <2>2. /\ dialogue'[n + 1].facts = job[t].facts
        /\ job[t].kind # "agent" /\ job[t].facts # NoFacts
        /\ \A k \in Requirements : ToldAndAnswered(k) \/ job[t].word.req[k] # 0 => job[t].facts.req[k] # 0
    <3>1. Message(t, "assistant", job[t].facts).facts = job[t].facts
      BY DEF Message
    <3>2. job[t].kind # "agent"
      BY <1>1 DEF ChatInv, JobsAddUp
    <3>3. "trip" \in Requirements
      BY DEF Requirements
    <3> QED BY <1>1, <1>2, <1>5, <1>9, <3>1, <3>2, <3>3 DEF ChatInv, JobsAddUp
  <2>3. dialogue[n].facts.req = job[t].word.req
    <3>1. dialogue[n].facts = WordFacts(job[t].word)
      BY <1>1, <1>2 DEF ChatInv, JobsAddUp
    <3> QED BY <3>1, FactsOfWord
  <2>4. ASSUME NEW k \in Requirements, NEW i \in DOMAIN dialogue', i < n + 1,
               i + 1 \in Answers', dialogue'[i].facts.req[k] # 0
        PROVE  job[t].facts.req[k] # 0
    <3>1. CASE i = n
      <4>1. n \in 1..n
        BY <1>5, <2>4, <3>1
      <4> QED BY <1>5, <2>2, <2>3, <2>4, <3>1, <4>1
    <3>2. CASE i < n
      <4>1. i \in 1..n /\ i + 1 \in 1..n /\ i + 1 \in Answers
        BY <1>5, <2>1, <2>4, <3>2
      <4>2. ToldAndAnswered(k)
        BY <1>5, <2>4, <3>2, <4>1 DEF ToldAndAnswered, Answers
      <4> QED BY <2>2, <4>2
    <3> QED BY <1>5, <2>4, <3>1, <3>2
  <2>5. ASSUME NEW j \in Answers, NEW k \in Requirements, NEW i \in DOMAIN dialogue', i < j,
               i + 1 \in Answers', dialogue'[i].facts.req[k] # 0
        PROVE  dialogue'[j].facts.req[k] # 0
    <3>1. /\ j \in 1..n /\ i \in 1..n /\ i + 1 \in 1..n /\ i + 1 \in Answers
      BY <1>5, <2>1, <2>5
    <3> QED BY <1>5, <1>9, <2>5, <3>1 DEF ChatInv, AnswersAddUp
  <2>6. \A j \in Answers : dialogue'[j].facts # NoFacts
    BY <1>5, <1>9, <2>1 DEF ChatInv, AnswersAddUp
  <2> HIDE DEF n
  <2> QED BY <2>1, <2>2, <2>4, <2>5, <2>6 DEF AnswersAddUp
<1>10. JobsAddUp'
  <2>1. \A u \in ChatTurns : pc'[u] \notin {"asked", "locked", "ready", "replying"} \cup Deriving
    BY <1>7, Phases DEF Deriving
  <2>2. \A u \in ChatTurns : pc'[u] \in {"new", "checked"} => pc[u] = pc'[u] /\ job'[u] = job[u]
    BY <1>2, <1>6
  <2> QED BY <2>1, <2>2 DEF ChatInv, JobsAddUp
<1>11. MarkedUnlessExcused'
  <2>1. Excused => Excused'
    BY <1>1, <1>2, <1>6, ExcusedStays
  <2>2. \A u \in ChatTurns : pc[u] \notin AgentPhase
    BY <1>1, <1>2, Phases
  <2>3. \A u \in ChatTurns : pc'[u] \notin Deriving
    BY <1>7, Phases
  <2> QED BY <1>1, <2>1, <2>2, <2>3 DEF ChatInv, MarkedUnlessExcused, Deriving
<1> QED BY <1>3, <1>4, <1>8, <1>9, <1>10, <1>11 DEF ChatInv, AnswersAddUp

\* What a turn derives from its message: one of three jobs
JobDerived(t, where, j, facts, decision, base) ==
    /\ where \in {"reading", "ready"}
    /\ Go(t, where)
    /\ job' = [job EXCEPT ![t] = j]
    /\ LatestFacts # NoFacts => base = LatestFacts
    /\ facts = UpdatedBy(base, job[t].word)
    /\ \/ /\ j = SplitJob(job[t], Context(extra))
          /\ where = "reading"
          /\ LatestFacts = NoFacts
       \/ /\ j = ReplyJob(job[t], Context(extra), facts, decision)
          /\ where = "reading"
          /\ AgencyFacts(job[t].word, facts, decision) # NoFacts
       \/ j = AgentJob(job[t], Context(extra), facts, decision)

LEMMA Derived ==
    ASSUME RowsOK, NEW t \in ChatTurns, Prepare(t)
    PROVE  \E where, j, facts, decision, base : JobDerived(t, where, j, facts, decision, base)
<1> DEFINE w == job[t].word
           ctx == Context(extra)
           latest == LatestFacts
           base == IF latest = NoFacts /\ HasRequirement(ContextFacts(ctx))
                   THEN ContextFacts(ctx) ELSE latest
           facts == UpdatedBy(base, w)
           decision == ResolveMode(w, facts, ctx)
           split == SplitApplies(w, latest, ctx, Cardinality(Questions), Cardinality(Answers))
           replies == AgencyReplyApplies(w, facts, decision)
<1>1. /\ split => job' = [job EXCEPT ![t] = SplitJob(@, ctx)] /\ Go(t, "reading")
      /\ ~split /\ replies =>
            job' = [job EXCEPT ![t] = ReplyJob(@, ctx, facts, decision)] /\ Go(t, "reading")
      /\ ~split /\ ~replies =>
            /\ job' = [job EXCEPT ![t] = AgentJob(@, ctx, facts, decision)]
            /\ \E where \in {"reading", "ready"} : Go(t, where)
  BY DEF Prepare
<1>2. t \in DOMAIN job
  BY DEF RowsOK
<1>3. latest # NoFacts => base = latest
  OBVIOUS
<1>4. (split => latest = NoFacts) /\ (replies => AgencyFacts(w, facts, decision) # NoFacts)
  BY DEF SplitApplies, AgencyReplyApplies
<1>5. \E where, j :
         /\ where \in {"reading", "ready"} /\ Go(t, where) /\ job' = [job EXCEPT ![t] = j]
         /\ \/ j = SplitJob(job[t], ctx) /\ where = "reading" /\ split
            \/ j = ReplyJob(job[t], ctx, facts, decision) /\ where = "reading" /\ replies
            \/ j = AgentJob(job[t], ctx, facts, decision)
  <2> HIDE DEF w, ctx, latest, base, facts, decision, split, replies
  <2>1. CASE split
    BY <1>1, <1>2, <2>1
  <2>2. CASE ~split /\ replies
    BY <1>1, <1>2, <2>2
  <2>3. CASE ~split /\ ~replies
    BY <1>1, <1>2, <2>3
  <2> QED BY <2>1, <2>2, <2>3
<1>6. facts = UpdatedBy(base, w)
  OBVIOUS
<1>7. PICK where, j :
         /\ where \in {"reading", "ready"} /\ Go(t, where) /\ job' = [job EXCEPT ![t] = j]
         /\ \/ j = SplitJob(job[t], ctx) /\ where = "reading" /\ split
            \/ j = ReplyJob(job[t], ctx, facts, decision) /\ where = "reading" /\ replies
            \/ j = AgentJob(job[t], ctx, facts, decision)
  BY <1>5
<1> HIDE DEF base, facts, decision, split, replies
<1>8. JobDerived(t, where, j, facts, decision, base)
  BY <1>3, <1>4, <1>6, <1>7 DEF JobDerived
<1> QED BY <1>8

\* Whatever it is, it knows what the answers knew, and seeds the agent with it.
LEMMA PrepareKeepsInv ==
    ASSUME ChatInv, DialogueInv, NEW t \in ChatTurns, Prepare(t)
    PROVE  ChatInv'
<1> DEFINE w == job[t].word
           ctx == Context(extra)
<1>0. PICK where, j, facts, decision, base : JobDerived(t, where, j, facts, decision, base)
  BY Derived DEF ChatInv
<1>1. /\ where \in {"reading", "ready"}
      /\ Go(t, where)
      /\ job' = [job EXCEPT ![t] = j]
      /\ LatestFacts # NoFacts => base = LatestFacts
      /\ facts = UpdatedBy(base, w)
      /\ \/ j = SplitJob(job[t], ctx) /\ where = "reading" /\ LatestFacts = NoFacts
         \/ /\ j = ReplyJob(job[t], ctx, facts, decision)
            /\ where = "reading" /\ AgencyFacts(w, facts, decision) # NoFacts
         \/ j = AgentJob(job[t], ctx, facts, decision)
  BY <1>0 DEF JobDerived
<1>2. /\ pc'[t] = where /\ \A u \in ChatTurns : u # t => pc'[u] = pc[u] /\ pc[u] \notin Live
      /\ pc[t] = "asked" /\ where \in Deriving /\ where \in {"reading", "ready"}
      /\ UNCHANGED <<seen, dialogue, extra, agent, saving>>
  BY <1>1, Alone, Phases DEF Prepare, Deriving
<1>3. Fresh' => Fresh
  BY <1>2, Phases DEF Fresh, NeverRan
<1>4. job[t].kind = "none" /\ ~job[t].seeds /\ IsJob(job[t])
  BY <1>2 DEF ChatInv, JobsAddUp, RowsOK
<1>5. /\ IsJob(j) /\ j.ctx = ctx /\ j.word = w
      /\ \/ j.kind \in {"split", "reply"} /\ ~j.seeds /\ where = "reading"
         \/ /\ j.kind = "agent" /\ j.decision = decision
            /\ j.seeds <=> SeedApplies(facts, ctx, decision)
  <2>1. CASE j = SplitJob(job[t], ctx) /\ where = "reading"
    BY <1>4, <2>1, JobFields
  <2>2. CASE j = ReplyJob(job[t], ctx, facts, decision) /\ where = "reading"
    BY <1>4, <2>2, JobFields
  <2>3. CASE j = AgentJob(job[t], ctx, facts, decision)
    BY <1>4, <2>3, AgentJobFields
  <2>4. \/ j = SplitJob(job[t], ctx) /\ where = "reading"
        \/ j = ReplyJob(job[t], ctx, facts, decision) /\ where = "reading"
        \/ j = AgentJob(job[t], ctx, facts, decision)
    BY <1>1
  <2> QED BY <2>1, <2>2, <2>3, <2>4, Zenon
<1>6. job'[t] = j /\ DOMAIN job' = ChatTurns /\ \A u \in ChatTurns : u # t => job'[u] = job[u]
  BY <1>1 DEF ChatInv, RowsOK
<1>7. RowsOK'
  BY <1>2, <1>5, <1>6 DEF ChatInv, RowsOK
<1>8. NothingIsMarked'
  <2>1. Fresh => ~ctx.init
    BY DEF Context, ChatInv, NothingIsMarked
  <2> QED BY <1>2, <1>3, <1>5, <1>6, <2>1, Phases DEF ChatInv, NothingIsMarked
<1>9. AnswersAddUp'
  BY <1>2, <1>3 DEF ChatInv, AnswersAddUp, Answers
<1>10. ASSUME Fresh, NEW k \in Requirements, ToldAndAnswered(k)
       PROVE  /\ LatestFacts # NoFacts /\ facts.req[k] # 0 /\ j.facts.req[k] # 0
  <2>1. LatestFacts # NoFacts /\ LatestFacts.req[k] # 0
    BY <1>10, LatestKnows DEF ChatInv, DialogueInv
  <2>2. base.req[k] # 0
    BY <1>1, <2>1
  <2>3. facts.req[k] # 0
    BY <1>1, <2>2, MergeKnows DEF UpdatedBy
  <2>4. AgencyFacts(w, facts, decision) # NoFacts => AgencyFacts(w, facts, decision).req[k] # 0
    BY <2>3, AgencyKnows
  <2>5. j.facts \in {AgencyFacts(w, facts, decision), facts}
        /\ (j.facts = facts \/ AgencyFacts(w, facts, decision) # NoFacts)
    BY <1>1, <1>4, <2>1, JobFields, AgentJobFields
  <2> QED BY <2>1, <2>3, <2>4, <2>5
<1>11. ASSUME j.kind # "agent"
       PROVE  /\ j.facts # NoFacts
              /\ \A k \in Requirements : w.req[k] # 0 => j.facts.req[k] # 0
  <2>1. CASE j = SplitJob(job[t], ctx)
    BY <1>4, <2>1, JobFields, FactsOfWord
  <2>2. CASE j = ReplyJob(job[t], ctx, facts, decision) /\ AgencyFacts(w, facts, decision) # NoFacts
    BY <1>4, <2>2, JobFields, AgencyKnows
  <2>3. CASE j = AgentJob(job[t], ctx, facts, decision)
    BY <1>4, <1>11, <2>3, AgentJobFields
  <2> QED BY <1>1, <2>1, <2>2, <2>3
<1>12. ASSUME Fresh, j.kind = "agent", j.decision.sure, NEW k \in Requirements, ToldAndAnswered(k)
       PROVE  j.seeds
  <2>1. facts # NoFacts
    BY <1>10, <1>12, MergeKnows
  <2>2. ~ctx.init
    BY <1>12 DEF Context, ChatInv, NothingIsMarked
  <2> QED BY <1>5, <1>12, <2>1, <2>2 DEF SeedApplies
<1>13. JobsAddUp'
  <2>1. \A k : ToldAndAnswered(k)' = ToldAndAnswered(k)
    BY <1>2 DEF ToldAndAnswered
  <2>2. ASSUME NEW u \in ChatTurns, u # t
        PROVE  pc'[u] = pc[u] /\ job'[u] = job[u] /\ pc[u] \notin {"asked"} \cup Deriving
    BY <1>2, <1>6, <2>2, Phases
  <2>3. dialogue'[Len(dialogue')].facts = WordFacts(job'[t].word)
    BY <1>2, <1>5, <1>6 DEF ChatInv, JobsAddUp
  <2>4. pc'[t] = "ready" => job'[t].kind = "agent"
    BY <1>2, <1>5, <1>6
  <2>5. ASSUME NEW k \in Requirements, Fresh'
        PROVE  /\ ToldAndAnswered(k) => job'[t].facts.req[k] # 0
               /\ job'[t].kind = "agent" /\ job'[t].decision.sure /\ ToldAndAnswered(k) => job'[t].seeds
               /\ job'[t].kind # "agent" => /\ job'[t].facts # NoFacts
                                            /\ job'[t].word.req[k] # 0 => job'[t].facts.req[k] # 0
    BY <1>3, <1>5, <1>6, <1>10, <1>11, <1>12, <2>5
  <2>6. pc'[t] \in {"reading", "ready"}
    BY <1>2
  <2>7. ASSUME NEW u \in ChatTurns, u # t, pc'[u] \in {"new", "checked", "locked"}
        PROVE  job'[u].kind = "none" /\ ~job'[u].seeds
    BY <2>2, <2>7 DEF ChatInv, JobsAddUp
  <2> HIDE DEF w, ctx
  <2> QED BY <2>1, <2>2, <2>3, <2>4, <2>5, <2>6, <2>7 DEF JobsAddUp, Deriving
<1>14. MarkedUnlessExcused'
  <2>1. Excused => Excused'
    BY <1>2, ExcusedStays
  <2>2. agent.stage = 0 \/ Excused \/ extra.init
    BY <1>2, Phases DEF ChatInv, MarkedUnlessExcused
  <2>3. j.seeds /\ ~j.decision.latest => ~extra.init
    BY <1>5 DEF SeedApplies, JustConfirmed, Context
  <2>4. \A u \in ChatTurns : u # t => pc'[u] \notin Deriving
    BY <1>2, Phases
  <2>5. pc'[t] # "writing"
    BY <1>2
  <2> QED BY <1>2, <1>6, <2>1, <2>2, <2>3, <2>4, <2>5 DEF MarkedUnlessExcused, Deriving
<1> QED BY <1>7, <1>8, <1>9, <1>13, <1>14 DEF ChatInv

-----------------------------------------------------------------------------
(* The row *)

LEMMA ReadForFactsKeepsInv ==
    ASSUME ChatInv, DialogueInv, NEW t \in ChatTurns, ReadForFacts(t)
    PROVE  ChatInv'
<1>1. /\ pc'[t] = "writing" /\ \A u \in ChatTurns : u # t => pc'[u] = pc[u] /\ pc[u] \notin Live
      /\ pc[t] = "reading" /\ {"reading", "writing"} \subseteq Deriving
      /\ UNCHANGED <<job, dialogue, extra, agent, saving>>
  BY Alone, Phases DEF ReadForFacts, Deriving
<1>2. Fresh' <=> Fresh
  BY <1>1, Phases DEF Fresh, NeverRan
<1>3. /\ seen'[t] = extra /\ DOMAIN seen' = DOMAIN seen
      /\ \A r \in ChatTurns \cup Saves : r # t => seen'[r] = seen[r]
      /\ \A s \in Saves : s # t
  BY SavesAssumption DEF ReadForFacts, ChatInv, RowsOK
<1>4. RowsOK'
  BY <1>1, <1>3 DEF ChatInv, RowsOK
<1>5. NothingIsMarked'
  BY <1>1, <1>2, <1>3, Phases DEF ChatInv, NothingIsMarked
<1>6. AnswersAddUp'
  BY <1>1, <1>2 DEF ChatInv, AnswersAddUp, Answers
<1>7. JobsAddUp'
  <2>1. \A k : ToldAndAnswered(k)' = ToldAndAnswered(k)
    BY <1>1 DEF ToldAndAnswered
  <2>2. /\ pc'[t] \notin {"new", "checked", "locked", "asked", "ready", "replying"}
        /\ \A u \in ChatTurns : u # t => pc'[u] = pc[u]
    BY <1>1
  <2> QED BY <1>1, <1>2, <2>1, <2>2 DEF ChatInv, JobsAddUp
<1>8. MarkedUnlessExcused'
  <2>1. Excused => Excused'
    BY <1>1, <1>3, ExcusedStays
  <2>2. agent.stage = 0 \/ Excused \/ extra.init
    BY <1>1, Phases DEF ChatInv, MarkedUnlessExcused
  <2>3. \A u \in ChatTurns : u # t => pc'[u] \notin Deriving
    BY <1>1, Phases
  <2>4. job[t].seeds /\ ~job[t].decision.latest => agent.stage = 0 \/ Excused
    BY <1>1 DEF ChatInv, MarkedUnlessExcused
  <2> QED BY <1>1, <1>3, <2>1, <2>2, <2>3, <2>4 DEF MarkedUnlessExcused, Deriving
<1> QED BY <1>4, <1>5, <1>6, <1>7, <1>8 DEF ChatInv

LEMMA WriteFactsKeepsInv ==
    ASSUME ChatInv, DialogueInv, NEW t \in ChatTurns, WriteFacts(t)
    PROVE  ChatInv'
<1>1. PICK where \in {"ready", "replying"} :
         Go(t, where) /\ where = IF job[t].kind = "agent" THEN "ready" ELSE "replying"
  BY DEF WriteFacts
<1>2. /\ pc'[t] = where /\ \A u \in ChatTurns : u # t => pc'[u] = pc[u] /\ pc[u] \notin Live
      /\ pc[t] = "writing" /\ where \in Deriving /\ "writing" \in Deriving
      /\ UNCHANGED <<job, dialogue, agent, saving>>
      /\ seen' = [seen EXCEPT ![t] = NoExtra]
  BY <1>1, Alone, Phases DEF WriteFacts, Deriving
<1>3. Fresh' <=> Fresh
  BY <1>2, Phases DEF Fresh, NeverRan
<1>4. /\ seen'[t] = NoExtra /\ DOMAIN seen' = DOMAIN seen
      /\ \A r \in ChatTurns \cup Saves : r # t => seen'[r] = seen[r]
      /\ \A s \in Saves : s # t
  BY <1>2, SavesAssumption DEF ChatInv, RowsOK
<1>5. extra'.init = seen[t].init /\ DOMAIN extra' = DOMAIN NoExtra
  <2>1. \A x, facts, needs : DOMAIN x = DOMAIN NoExtra =>
             /\ Persisted(x, facts, needs).init = x.init
             /\ DOMAIN Persisted(x, facts, needs) = DOMAIN NoExtra
    BY DEF Persisted, NoExtra
  <2>2. DOMAIN seen[t] = DOMAIN NoExtra
    BY DEF ChatInv, RowsOK
  <2>3. \E facts, needs : extra' = Persisted(seen[t], facts, needs)
    BY DEF WriteFacts
  <2> QED BY <2>1, <2>2, <2>3
<1>6. RowsOK'
  BY <1>2, <1>4, <1>5 DEF ChatInv, RowsOK
<1>7. NothingIsMarked'
  BY <1>2, <1>3, <1>4, <1>5, Phases DEF ChatInv, NothingIsMarked, NoExtra
<1>8. AnswersAddUp'
  BY <1>2, <1>3 DEF ChatInv, AnswersAddUp, Answers
<1>9. JobsAddUp'
  <2>1. \A k : ToldAndAnswered(k)' = ToldAndAnswered(k)
    BY <1>2 DEF ToldAndAnswered
  <2>2. /\ pc'[t] \notin {"new", "checked", "locked", "asked"}
        /\ pc'[t] = "ready" => job[t].kind = "agent"
        /\ pc'[t] = "replying" => job[t].kind # "agent"
        /\ \A u \in ChatTurns : u # t => pc'[u] = pc[u]
    BY <1>1, <1>2
  <2> QED BY <1>2, <1>3, <2>1, <2>2 DEF ChatInv, JobsAddUp
<1>10. MarkedUnlessExcused'
  <2>1. Excused => Excused'
    BY <1>2, <1>4, ExcusedStays
  <2>2. agent.stage = 0 \/ Excused \/ seen[t].init
    BY <1>2 DEF ChatInv, MarkedUnlessExcused
  <2>3. \A u \in ChatTurns : u # t => pc'[u] \notin Deriving
    BY <1>2, Phases
  <2>4. job[t].seeds /\ ~job[t].decision.latest => agent.stage = 0 \/ Excused
    BY <1>2 DEF ChatInv, MarkedUnlessExcused
  <2>5. pc'[t] # "writing" /\ "writing" \in Deriving
    BY <1>2
  <2> QED BY <1>2, <1>5, <2>1, <2>2, <2>3, <2>4, <2>5 DEF MarkedUnlessExcused
<1> QED BY <1>6, <1>7, <1>8, <1>9, <1>10 DEF ChatInv

\* The page saves an edited draft: what it takes away it is an excuse for.
LEMMA SaveKeepsInv ==
    ASSUME ChatInv, DialogueInv, NEW s \in Saves, SaveReads(s) \/ SaveWrites(s)
    PROVE  ChatInv'
<1>1. UNCHANGED <<pc, job, dialogue, agent>> /\ \A t \in ChatTurns : t # s
  BY SavesAssumption DEF SaveReads, SaveWrites
<1>2. (Fresh' <=> Fresh) /\ AnswersAddUp' /\ JobsAddUp'
  BY <1>1 DEF Fresh, NeverRan, ChatInv, AnswersAddUp, JobsAddUp, Answers, ToldAndAnswered
<1>3. CASE SaveReads(s)
  <2>1. /\ seen'[s] = extra /\ DOMAIN seen' = DOMAIN seen /\ DOMAIN saving' = Saves /\ extra' = extra
        /\ \A r \in ChatTurns \cup Saves : r # s => seen'[r] = seen[r]
        /\ \A r \in Saves : r # s => saving'[r] = saving[r]
        /\ saving[s] = "new"
    BY <1>3 DEF SaveReads, ChatInv, RowsOK
  <2>2. RowsOK'
    BY <1>1, <2>1 DEF ChatInv, RowsOK
  <2>3. NothingIsMarked'
    BY <1>1, <1>2, <2>1 DEF ChatInv, NothingIsMarked
  <2>4. MarkedUnlessExcused'
    <3>1. Excused => Excused'
      BY <1>1, <2>1, ExcusedStays
    <3>2. \A t \in ChatTurns : seen'[t] = seen[t]
      BY <1>1, <2>1
    <3> QED BY <1>1, <2>1, <3>1, <3>2 DEF ChatInv, MarkedUnlessExcused
  <2> QED BY <1>2, <2>2, <2>3, <2>4 DEF ChatInv
<1>4. CASE SaveWrites(s)
  <2>1. /\ extra'.init = seen[s].init /\ DOMAIN extra' = DOMAIN NoExtra
        /\ seen' = seen /\ DOMAIN saving' = Saves /\ saving'[s] = "saved"
        /\ \A r \in Saves : r # s => saving'[r] = saving[r]
    BY <1>4 DEF SaveWrites, ChatInv, RowsOK, NoExtra
  <2>2. RowsOK'
    BY <1>1, <2>1 DEF ChatInv, RowsOK
  <2>3. NothingIsMarked'
    BY <1>1, <1>2, <2>1 DEF ChatInv, NothingIsMarked
  <2>4. MarkedUnlessExcused'
    <3>1. Excused => Excused'
      BY <1>1, <2>1, ExcusedStays
    <3>2. Excused' \/ extra'.init
      BY <2>1 DEF Excused
    <3> QED BY <1>1, <2>1, <3>1, <3>2 DEF ChatInv, MarkedUnlessExcused
  <2> QED BY <1>2, <2>2, <2>3, <2>4 DEF ChatInv
<1> QED BY <1>3, <1>4

-----------------------------------------------------------------------------
(* The agent *)

\* What the agent is given keeps the shape of its checkpoint.
LEMMA GivenFits ==
    ASSUME RowsOK, NEW t \in ChatTurns
    PROVE  /\ DOMAIN GivenTo(t) = DOMAIN NoAgent
           /\ GivenTo(t).stage \in Nat
           /\ ~job[t].seeds => GivenTo(t).stage = agent.stage
           /\ GivenTo(t).stage < agent.stage => agent.stage # 0
           /\ job[t].seeds => GivenTo(t).req = job[t].facts.req
<1> DEFINE merged == Synced(agent, job[t].word, job[t].ctx)
<1>1. DOMAIN agent = {"req", "mode", "stage"} /\ DOMAIN NoAgent = {"req", "mode", "stage"}
  BY DEF RowsOK, NoAgent
<1>2. DOMAIN merged = DOMAIN NoAgent /\ merged.stage = agent.stage /\ agent.stage \in Nat
  BY <1>1 DEF Synced, RowsOK
<1>3. \A x, facts, mode : DOMAIN x = DOMAIN NoAgent =>
         /\ DOMAIN Seeded(x, facts, mode) = DOMAIN NoAgent
         /\ Seeded(x, facts, mode).req = facts.req
         /\ Seeded(x, facts, mode).stage \in {0, 1, x.stage}
  BY <1>1 DEF Seeded
<1>4. GivenTo(t) = IF job[t].seeds THEN Seeded(merged, job[t].facts, job[t].decision.mode)
                                   ELSE merged
  BY DEF GivenTo
<1> HIDE DEF merged
<1> QED BY <1>2, <1>3, <1>4

\* The tools move the plan on, one stage or none at a time.
LEMMA WorkGoesOn ==
    ASSUME RowsOK, NEW t \in ChatTurns, AgentWorks(t)
    PROVE  /\ DOMAIN agent' = DOMAIN NoAgent
           /\ agent'.stage \in Nat /\ ~(agent'.stage < agent.stage)
<1>1. DOMAIN agent = DOMAIN NoAgent /\ agent.stage \in Nat /\ "stage" \in DOMAIN agent
  BY DEF RowsOK, NoAgent
<1>2. ASSUME NEW req, agent' = [agent EXCEPT !.req = req]
      PROVE  DOMAIN agent' = DOMAIN agent /\ agent'.stage = agent.stage
  BY <1>2
<1>3. ASSUME NEW req, NEW mode, agent' = [agent EXCEPT !.req = req, !.stage = @ + 1, !.mode = mode]
      PROVE  DOMAIN agent' = DOMAIN agent /\ agent'.stage = agent.stage + 1
  BY <1>1, <1>3
<1>4. \/ \E req : agent' = [agent EXCEPT !.req = req]
      \/ \E req, mode : agent' = [agent EXCEPT !.req = req, !.stage = @ + 1, !.mode = mode]
  <2>1. CASE agent' = [agent EXCEPT !.req = Over(@, job[t].word.req)]
    BY <2>1
  <2>2. ASSUME NEW mode,
               agent' = [agent EXCEPT !.req = Over(@, job[t].word.req), !.stage = @ + 1,
                                      !.mode = IF @ = "none" THEN mode ELSE @]
        PROVE  \E req, m : agent' = [agent EXCEPT !.req = req, !.stage = @ + 1, !.mode = m]
    BY <2>2
  <2> QED BY <2>1, <2>2 DEF AgentWorks
<1>5. CASE \E req : agent' = [agent EXCEPT !.req = req]
  BY <1>1, <1>2, <1>5
<1>6. CASE \E req, mode : agent' = [agent EXCEPT !.req = req, !.stage = @ + 1, !.mode = mode]
  <2>1. DOMAIN agent' = DOMAIN agent /\ agent'.stage = agent.stage + 1
    BY <1>3, <1>6
  <2> QED BY <1>1, <2>1
<1> QED BY <1>4, <1>5, <1>6

\* A step within a turn of the agent
LEMMA AgentStepKeepsInv ==
    ASSUME ChatInv, DialogueInv, NEW t \in ChatTurns, AgentStep(t) \/ AgentWorks(t)
    PROVE  ChatInv'
<1> USE DEF ChatInv
<1>1. /\ {"ready", "running", "worked", "answering", "drafting", "drafted", "marking", "marked"}
           \subseteq Live
      /\ {"running", "worked", "answering", "drafting", "drafted", "marking", "marked"}
           \subseteq AgentPhase
  BY Phases DEF Live, Fast
<1>2. /\ \A how : Leave(t, how) =>
            /\ Go(t, how) /\ seen' = [seen EXCEPT ![t] = NoExtra]
            /\ DOMAIN job' = ChatTurns /\ \A u \in ChatTurns : u # t => job'[u] = job[u]
            /\ \A u \in ChatTurns : IsJob(job'[u])
      /\ seen' \in {seen, [seen EXCEPT ![t] = NoExtra], [seen EXCEPT ![t] = extra]} =>
            /\ DOMAIN seen' = ChatTurns \cup Saves
            /\ \A r \in ChatTurns \cup Saves : DOMAIN seen'[r] = DOMAIN NoExtra
  BY DEF Leave, RowsOK, IsJob
<1>3. CASE StartAgent(t)
  <2>1. RowsOK'
    BY <1>3, GivenFits DEF StartAgent, RowsOK
  <2> QED BY <1>1, <1>3, <2>1, AgentPhaseKeepsInv DEF StartAgent
<1>4. CASE AgentWorks(t)
  <2>1. DOMAIN agent' = DOMAIN NoAgent /\ agent'.stage \in Nat
    BY <1>4, WorkGoesOn DEF AgentWorks
  <2>2. /\ DOMAIN job' = ChatTurns /\ \A u \in ChatTurns : u # t => job'[u] = job[u]
        /\ \A u \in ChatTurns : IsJob(job'[u])
    BY <1>4, WorkGoesOn DEF AgentWorks, RowsOK, IsJob, NoJob
  <2>3. Go(t, "worked") /\ pc[t] = "running" /\ UNCHANGED <<seen, extra, saving>>
    BY <1>4 DEF AgentWorks
  <2>4. RowsOK'
    BY <2>1, <2>2, <2>3 DEF RowsOK
  <2> HIDE DEF ChatInv
  <2> QED BY <1>1, <2>2, <2>3, <2>4, AgentPhaseKeepsInv
<1>5. CASE AgentEnds(t) \/ ReadForDraft(t) \/ ReadForMark(t)
  <2>1. RowsOK'
    BY <1>2, <1>5 DEF AgentEnds, ReadForDraft, ReadForMark, RowsOK
  <2>2. \E where \in AgentPhase : Go(t, where) /\ pc[t] \in Live /\ job' = job
    BY <1>1, <1>5 DEF AgentEnds, ReadForDraft, ReadForMark
  <2> QED BY <2>1, <2>2, AgentPhaseKeepsInv
<1>6. CASE AgentStalls(t)
  <2>1. /\ DOMAIN job' = ChatTurns /\ \A u \in ChatTurns : u # t => job'[u] = job[u]
        /\ \A u \in ChatTurns : IsJob(job'[u])
    BY <1>6 DEF AgentStalls, RowsOK, IsJob, NoJob
  <2>2. RowsOK'
    BY <1>6, <2>1 DEF AgentStalls, RowsOK
  <2> QED BY <1>1, <1>6, <2>1, <2>2, AgentPhaseKeepsInv DEF AgentStalls
<1>7. CASE AgentFails(t) \/ SkipMark(t)
  <2>1. Leave(t, "unmarked") /\ UNCHANGED <<extra, agent, saving>> /\ pc[t] \in Live
    BY <1>1, <1>7 DEF AgentFails, SkipMark
  <2>2. RowsOK'
    BY <1>2, <2>1 DEF RowsOK
  <2> QED BY <1>2, <2>1, <2>2, AgentPhaseKeepsInv
<1>8. CASE SaveAnswer(t)
  <2>1. UNCHANGED <<extra, agent, saving>> /\ pc[t] \in Live
    BY <1>1, <1>8 DEF SaveAnswer
  <2>2. CASE Leave(t, "unmarked")
    <3>1. RowsOK'
      BY <1>2, <2>1, <2>2 DEF RowsOK
    <3> QED BY <1>2, <2>1, <2>2, <3>1, AgentPhaseKeepsInv
  <2>3. CASE UNCHANGED <<job, seen>> /\ \E where \in {"drafting", "marking"} : Go(t, where)
    <3>1. RowsOK'
      BY <2>1, <2>3 DEF RowsOK
    <3> QED BY <1>1, <2>1, <2>3, <3>1, AgentPhaseKeepsInv
  <2> QED BY <1>8, <2>2, <2>3 DEF SaveAnswer, AfterAnswer
<1>9. CASE WriteDraft(t)
  <2>1. pc[t] \in Live /\ UNCHANGED <<agent, saving>> /\ DOMAIN extra' = DOMAIN NoExtra
    BY <1>1, <1>9 DEF WriteDraft, RowsOK
  <2>2. CASE job[t].cut
    <3>1. Leave(t, "unmarked")
      BY <1>9, <2>2 DEF WriteDraft
    <3>2. RowsOK'
      BY <1>2, <2>1, <3>1 DEF RowsOK
    <3> QED BY <1>2, <2>1, <3>1, <3>2, AgentPhaseKeepsInv
  <2>3. CASE ~job[t].cut
    <3>1. Go(t, "marking") /\ seen' = [seen EXCEPT ![t] = NoExtra] /\ job' = job
      BY <1>9, <2>3 DEF WriteDraft
    <3>2. RowsOK'
      BY <1>2, <2>1, <3>1 DEF RowsOK
    <3> QED BY <1>1, <2>1, <3>1, <3>2, AgentPhaseKeepsInv
  <2> QED BY <2>2, <2>3
<1>10. CASE WriteMark(t)
  <2>1. Leave(t, "completed") /\ UNCHANGED <<agent, saving>> /\ pc[t] \in Live
    BY <1>1, <1>10 DEF WriteMark
  <2>2. extra'.init /\ DOMAIN extra' = DOMAIN NoExtra
    <3>1. \A x, progress, sure : DOMAIN x = DOMAIN NoExtra =>
               /\ Marked(x, progress, sure).init
               /\ DOMAIN Marked(x, progress, sure) = DOMAIN NoExtra
      BY DEF Marked, NoExtra
    <3>2. \E progress, sure : extra' = Marked(seen[t], progress, sure)
      BY <1>10 DEF WriteMark
    <3> QED BY <3>1, <3>2 DEF RowsOK
  <2>3. RowsOK'
    BY <1>2, <2>1, <2>2 DEF RowsOK
  <2> QED BY <1>2, <2>1, <2>2, <2>3, AgentPhaseKeepsInv
<1> QED BY <1>3, <1>4, <1>5, <1>6, <1>7, <1>8, <1>9, <1>10 DEF AgentStep

LEMMA CancelKeepsInv ==
    ASSUME ChatInv, DialogueInv, NEW t \in ChatTurns, Cancel(t)
    PROVE  ChatInv'
<1>1. CASE pc[t] \in Fast
  <2>1. Leave(t, "left") /\ UNCHANGED <<dialogue, extra, agent, saving>>
    BY <1>1 DEF Cancel
  <2>2. pc[t] \notin AgentPhase \cup {"unmarked", "completed"}
    BY <1>1, Phases
  <2> QED BY <2>1, <2>2, QuietKeepsInv DEF Leave
<1>2. CASE pc[t] \notin Fast
  <2>1. Leave(t, "unmarked") /\ UNCHANGED <<extra, agent, saving>> /\ pc[t] \in Live
    BY <1>2 DEF Cancel
  <2>2. RowsOK'
    BY <2>1 DEF Leave, ChatInv, RowsOK, IsJob
  <2>3. \A u \in ChatTurns : u # t => job'[u] = job[u]
    BY <2>1 DEF Leave, ChatInv, RowsOK
  <2> QED BY <2>1, <2>2, <2>3, AgentPhaseKeepsInv DEF Leave
<1> QED BY <1>1, <1>2

LEMMA FastStepKeepsInv ==
    ASSUME ChatInv, DialogueInv, NEW t \in ChatTurns, FastStep(t)
    PROVE  ChatInv'
<1>1. CASE Request(t) \/ Acquire(t)
  <2>1. PICK where \in {"refused", "checked", "busy", "locked"} : Go(t, where)
    BY <1>1 DEF Request, Acquire
  <2>2. /\ pc[t] \in {"new", "checked"} /\ job' = job /\ seen' = seen
        /\ UNCHANGED <<dialogue, extra, agent, saving>>
    BY <1>1 DEF Request, Acquire
  <2>3. pc[t] \notin AgentPhase \cup {"unmarked", "completed"}
    BY <2>2, Phases
  <2> QED BY <2>1, <2>2, <2>3, QuietKeepsInv
<1> QED BY <1>1, AskedKeepsInv, PrepareKeepsInv, ReadForFactsKeepsInv, WriteFactsKeepsInv,
           FastAnsweredKeepsInv DEF FastStep

-----------------------------------------------------------------------------
LEMMA ChatInvHolds == ChatSpec => [](ChatInv /\ DialogueInv)
<1>1. ChatInit => ChatInv
  <2> SUFFICES ASSUME ChatInit PROVE ChatInv
    OBVIOUS
  <2>1. /\ \A t \in ChatTurns : pc[t] = "new" /\ job[t] = NoJob
        /\ \A r \in ChatTurns \cup Saves : seen[r] = NoExtra
        /\ extra = NoExtra /\ agent = NoAgent
    BY DEF ChatInit
  <2>2. "new" \notin {"asked", "locked"} \cup Deriving /\ "new" # "writing"
    BY DEF Deriving
  <2>3. RowsOK
    BY DEF ChatInit, RowsOK, IsJob, NoAgent
  <2>4. NothingIsMarked
    BY <2>1, <2>2 DEF NothingIsMarked, NoExtra
  <2>5. AnswersAddUp
    <3>1. DOMAIN dialogue = {}
      BY DEF ChatInit
    <3> QED BY <3>1 DEF AnswersAddUp, Answers
  <2>6. JobsAddUp
    <3>1. NoJob.kind = "none" /\ ~NoJob.seeds
      BY DEF NoJob
    <3> QED BY <2>1, <2>2, <3>1 DEF JobsAddUp, Deriving
  <2>7. MarkedUnlessExcused
    <3>1. agent.stage = 0
      BY <2>1 DEF NoAgent
    <3> QED BY <2>1, <2>2, <3>1 DEF MarkedUnlessExcused
  <2> QED BY <2>3, <2>4, <2>5, <2>6, <2>7 DEF ChatInv
<1>2. ChatInv /\ DialogueInv /\ [ChatNext]_chatVars => ChatInv'
  <2> SUFFICES ASSUME ChatInv, DialogueInv, [ChatNext]_chatVars PROVE ChatInv'
    OBVIOUS
  <2>1. CASE UNCHANGED chatVars
    BY <2>1 DEF chatVars, ChatInv, RowsOK, NothingIsMarked, AnswersAddUp, JobsAddUp,
                MarkedUnlessExcused, Excused, Fresh, NeverRan, Answers, ToldAndAnswered
  <2>2. CASE ChatNext
    BY <2>2, FastStepKeepsInv, AgentStepKeepsInv, CancelKeepsInv, SaveKeepsInv DEF ChatNext
  <2> QED BY <2>1, <2>2
<1> QED BY <1>1, <1>2, DialogueInvStarts, DialogueInvStays, PTL DEF ChatSpec

\* The agent is only given something when its turn starts, and its plan only grows after.
LEMMA OnlyTheStartGives ==
    ASSUME ChatInv, DialogueInv, [ChatNext]_chatVars
    PROVE  /\ \A t \in ChatTurns : pc[t] = "ready" /\ pc'[t] = "running" => agent' = GivenTo(t)
           /\ \/ \E t \in ChatTurns : StartAgent(t)
              \/ ~(agent'.stage < agent.stage)
<1>1. CASE \E t \in ChatTurns : StartAgent(t)
  <2>1. PICK t \in ChatTurns : StartAgent(t)
    BY <1>1
  <2>2. ASSUME NEW u \in ChatTurns, pc[u] = "ready", pc'[u] = "running" PROVE u = t
    BY <2>1, <2>2, Alone DEF StartAgent
  <2> QED BY <1>1, <2>1, <2>2 DEF StartAgent
<1>2. CASE UNCHANGED agent /\ \A t \in ChatTurns : ~(pc[t] = "ready" /\ pc'[t] = "running")
  <2>1. agent.stage \in Nat
    BY DEF ChatInv, RowsOK
  <2> QED BY <1>2, <2>1
<1>3. CASE \E t \in ChatTurns : AgentWorks(t)
  <2>1. PICK t \in ChatTurns : AgentWorks(t)
    BY <1>3
  <2>2. ~(agent'.stage < agent.stage)
    BY <2>1, WorkGoesOn DEF ChatInv
  <2>3. Go(t, "worked")
    BY <2>1 DEF AgentWorks
  <2>4. \A u \in ChatTurns : pc'[u] # "running" \/ pc'[u] = pc[u]
    BY <2>3, Alone
  <2> QED BY <2>2, <2>4
<1>4. ASSUME NEW t \in ChatTurns,
             FastStep(t) \/ Cancel(t) \/ (AgentStep(t) /\ ~StartAgent(t))
      PROVE  UNCHANGED agent /\ \A u \in ChatTurns : ~(pc[u] = "ready" /\ pc'[u] = "running")
  <2>1. UNCHANGED agent /\ \E where : where # "running" /\ Go(t, where)
    <3>1. CASE FastStep(t)
      <4>1. CASE Prepare(t)
        BY <4>1, PrepareMoves DEF Prepare
      <4> QED BY <3>1, <4>1 DEF FastStep, Request, Acquire, SaveQuestion, ReadForFacts, WriteFacts,
                              SaveFastAnswer, Leave
    <3>2. CASE Cancel(t)
      BY <3>2 DEF Cancel, Leave
    <3>3. CASE AgentStep(t) /\ ~StartAgent(t)
      BY <3>3 DEF AgentStep, AgentEnds, AgentStalls, AgentFails, SaveAnswer, AfterAnswer,
                  ReadForDraft, WriteDraft, ReadForMark, WriteMark, SkipMark, Leave
    <3> QED BY <1>4, <3>1, <3>2, <3>3
  <2> QED BY <2>1, Alone
<1>5. CASE UNCHANGED chatVars \/ \E s \in Saves : SaveReads(s) \/ SaveWrites(s)
  <2>1. UNCHANGED <<agent, pc>>
    BY <1>5 DEF chatVars, SaveReads, SaveWrites
  <2> QED BY <1>2, <2>1
<1> QED BY <1>1, <1>2, <1>3, <1>4, <1>5 DEF ChatNext

(* What was told in any question that was answered reaches the agent when it first  *)
(* runs with a confirmed mode, though turns are cancelled, refused and cut off and  *)
(* drafts saved before it (api/v1/chat.py: the facts of the last answer, merged     *)
(* into each next one, and the seed of a thread that has not been marked).          *)
THEOREM TheAgentIsTold == ChatSpec => FirstRunKnowsTheFacts
<1>1. ChatInv /\ DialogueInv /\ [ChatNext]_chatVars =>
        \A t \in ChatTurns :
          pc[t] = "ready" /\ pc'[t] = "running" /\ job[t].decision.sure /\ NeverRan =>
              \A k \in Requirements : ToldAndAnswered(k) => agent'.req[k] # 0
  <2> SUFFICES ASSUME ChatInv, DialogueInv, [ChatNext]_chatVars, NEW t \in ChatTurns,
                      pc[t] = "ready", pc'[t] = "running", job[t].decision.sure, NeverRan,
                      NEW k \in Requirements, ToldAndAnswered(k)
               PROVE  agent'.req[k] # 0
    OBVIOUS
  <2>1. Fresh
    <3>1. "ready" \in Live /\ "ready" \notin AgentPhase
      BY Phases DEF Live, Fast
    <3>2. \A u \in ChatTurns : u # t => pc[u] \notin Live
      BY <3>1 DEF DialogueInv, LockIsHeld
    <3> QED BY <3>1, <3>2, Phases DEF Fresh
  <2>2. job[t].seeds /\ job[t].facts.req[k] # 0
    BY <2>1 DEF ChatInv, JobsAddUp, Deriving
  <2>3. agent' = GivenTo(t)
    BY OnlyTheStartGives
  <2> QED BY <2>2, <2>3, GivenFits DEF ChatInv
<1> QED BY <1>1, ChatInvHolds, PTL DEF FirstRunKnowsTheFacts, ChatSpec

(* A seed does not throw the plan back: it is given once, to a thread whose plan has  *)
(* not begun, unless the user has just chosen a mode or the marker was lost           *)
(* (api/v1/chat.py: agent_progress_initialized of the conversation row).              *)
THEOREM ThePlanIsSeededOnce == ChatSpec => ProgressIsSeededOnce
<1>1. ChatInv /\ DialogueInv /\ [ChatNext]_chatVars =>
        (agent'.stage < agent.stage =>
          \/ \E t \in ChatTurns : pc[t] = "ready" /\ job[t].decision.latest
          \/ \E u \in ChatTurns : pc[u] = "unmarked"
          \/ \E s \in Saves : saving[s] = "saved" /\ ~seen[s].init)
  <2> SUFFICES ASSUME ChatInv, DialogueInv, [ChatNext]_chatVars, agent'.stage < agent.stage
               PROVE  (\E t \in ChatTurns : pc[t] = "ready" /\ job[t].decision.latest) \/ Excused
    BY DEF Excused
  <2>1. PICK t \in ChatTurns : StartAgent(t)
    BY OnlyTheStartGives
  <2>2. agent' = GivenTo(t) /\ pc[t] = "ready"
    BY <2>1 DEF StartAgent
  <2>3. job[t].seeds /\ agent.stage # 0
    BY <2>2, GivenFits DEF ChatInv, RowsOK
  <2>4. job[t].decision.latest \/ Excused
    BY <2>2, <2>3 DEF ChatInv, MarkedUnlessExcused, Deriving
  <2> QED BY <2>2, <2>4
<1> QED BY <1>1, ChatInvHolds, PTL DEF ProgressIsSeededOnce, ChatSpec

-----------------------------------------------------------------------------
(* AgentTurn: the model calls of a user message about transport and lodging. *)

SelectsTransport == "select_transport_tool"
SelectsRoom      == "select_accommodation_tool"
QueriesTransport == "query_transport_options"
QueriesRooms     == "query_hotel_options"

(* A typed thread and stage, and candidates that come of a query *)
TurnTypeOK ==
    /\ turn \in {"over", "middleware", "model"}
    /\ thread \in Seq(SUBSET Sayings)
    /\ outcome \in [Selects -> {"none", "audit_required", "invalid_input", "applied"}]
    /\ stage \in DOMAIN StageTools /\ chosen = Earlier(stage)
    /\ turn = "model" => given = Given
    /\ candidates => QueriesRooms \in queried

\* The calls of the turn so far are the selection, its query, or both: it is refused at
\* most once, for a query that has not been made.
Underway(t, q) ==
    \/ called = {} /\ newest = "none" /\ outcome[t] = "none" /\ Spoken \subseteq SaidIn(Newest(1))
    \/ called = {q} /\ newest = q /\ outcome[t] = "none" /\ q \in queried
    \/ called = {t} /\ newest = t /\ outcome[t] = "audit_required" /\ q \notin queried /\ WantsAudit(q)
    \/ called = {t, q} /\ newest = q /\ outcome[t] = "audit_required" /\ q \in queried

\* The selection is called past the demand for its query, which is not made any more.
Settled(t, q) ==
    /\ outcome[t] \in {"applied", "invalid_input"} /\ ~NeedsAudit(q)
    /\ {"hedge", Noun[q]} \subseteq Spoken /\ "static" \notin Spoken => q \in queried

\* What the user asked for at its stage is on its way to be recorded, or settled.
Promised(s, ask, t, q) ==
    began = s /\ ask \in Spoken =>
        \/ turn # "over" /\ stage = s /\ Underway(t, q)
        \/ Settled(t, q)

(* The inductive invariant *)
TurnInv ==
    /\ TurnTypeOK
    /\ Promised("transport_planning", "take transport", SelectsTransport, QueriesTransport)
    /\ Promised("accommodation_planning", "take room", SelectsRoom, QueriesRooms)

-----------------------------------------------------------------------------
(* The thread *)

\* What the last message of the user says: what comes after it says nothing.
Final(s) == {i \in DOMAIN s : \A j \in DOMAIN s : i < j => s[j] = {}}
LastSaid(s) == UNION {s[i] : i \in Final(s)}

\* No message of the user after it: there is none that says anything.
LEMMA NoneAfterTheLast ==
    ASSUME NEW s \in Seq(SUBSET Sayings)
    PROVE  UNION {s[i] : i \in {i \in DOMAIN s :
                     Cardinality({j \in DOMAIN s : i < j /\ Human(s[j])}) < 1}} = LastSaid(s)
<1> DEFINE After(i) == {j \in DOMAIN s : i < j /\ Human(s[j])}
<1>1. DOMAIN s = 1..Len(s) /\ Len(s) \in Nat
  BY LenProperties
<1>2. ASSUME NEW i \in DOMAIN s
      PROVE  Cardinality(After(i)) < 1 <=> \A j \in DOMAIN s : i < j => s[j] = {}
  <2>1. IsFiniteSet(After(i))
    <3>1. IsFiniteSet(1..Len(s)) /\ After(i) \subseteq 1..Len(s)
      BY <1>1, FS_Interval
    <3> QED BY <3>1, FS_Subset
  <2>2. Cardinality(After(i)) \in Nat /\ (Cardinality(After(i)) = 0 <=> After(i) = {})
    BY <2>1, FS_CardinalityType, FS_EmptySet
  <2>3. Cardinality(After(i)) < 1 <=> After(i) = {}
    BY <2>2
  <2>4. After(i) = {} <=> \A j \in DOMAIN s : i < j => s[j] = {}
    BY DEF Human
  <2> QED BY <2>3, <2>4
<1> HIDE DEF After
<1>3. {i \in DOMAIN s : Cardinality(After(i)) < 1} = Final(s)
  BY <1>2 DEF Final
<1>4. UNION {s[i] : i \in {i \in DOMAIN s : Cardinality(After(i)) < 1}} = LastSaid(s)
  BY <1>3 DEF LastSaid
<1> QED BY <1>4 DEF After

\* The user says something.
LEMMA Heard ==
    ASSUME thread \in Seq(SUBSET Sayings), NEW w \in UserMessages, thread' = Append(thread, w)
    PROVE  thread' \in Seq(SUBSET Sayings) /\ Spoken' = w /\ w \subseteq SaidIn(Newest(1))'
<1> DEFINE n == Len(thread)
<1>1. w \in SUBSET Sayings /\ w # {}
  BY UserMessagesAssumption
<1>2. /\ thread' \in Seq(SUBSET Sayings) /\ n \in Nat
      /\ DOMAIN thread' = 1..(n + 1) /\ Len(thread') = n + 1 /\ thread'[n + 1] = w
  BY <1>1, AppendProperties, LenProperties
<1> HIDE DEF n
<1>3. Spoken' = LastSaid(thread')
  BY <1>2, NoneAfterTheLast DEF Spoken, Recent, SaidIn
<1>4. Final(thread') = {n + 1}
  BY <1>1, <1>2 DEF Final
<1>5. LastSaid(thread') = w
  BY <1>2, <1>4 DEF LastSaid
<1>6. n + 1 \in Newest(1)'
  BY <1>2 DEF Newest
<1>7. w \subseteq SaidIn(Newest(1))'
  BY <1>2, <1>6 DEF SaidIn
<1> QED BY <1>2, <1>3, <1>5, <1>7

\* The model calls a tool: its message and the result say nothing.
LEMMA Answered ==
    ASSUME thread \in Seq(SUBSET Sayings), thread' = thread \o <<{}, {}>>
    PROVE  /\ thread' \in Seq(SUBSET Sayings) /\ Spoken' = Spoken
           /\ SaidIn(Newest(7))' \subseteq SaidIn(Newest(7))
           /\ SaidIn(Newest(7)) \subseteq SaidIn(Newest(12))'
           /\ SaidIn(Newest(12))' \subseteq SaidIn(Newest(12))
<1> DEFINE n == Len(thread)
<1>1. /\ <<{}, {}>> \in Seq(SUBSET Sayings) /\ Len(<<{}, {}>>) = 2
      /\ \A i \in 1..2 : <<{}, {}>>[i] = {}
  OBVIOUS
<1>2. thread' \in Seq(SUBSET Sayings) /\ Len(thread') = n + 2
  BY <1>1, ConcatProperties
<1>3. n \in Nat /\ DOMAIN thread = 1..n /\ DOMAIN thread' = 1..(n + 2)
  BY <1>2, LenProperties
<1>4. \A i \in 1..n : thread'[i] = thread[i]
  BY <1>1, <1>3, ConcatProperties
<1>5. \A i \in DOMAIN thread' : i \notin 1..n => thread'[i] = {}
  BY <1>1, <1>3, ConcatProperties
<1>6. Spoken' = LastSaid(thread') /\ Spoken = LastSaid(thread)
  BY <1>2, NoneAfterTheLast DEF Spoken, Recent, SaidIn
<1> HIDE DEF n
<1>7. LastSaid(thread') = LastSaid(thread)
  <2>1. \A i \in 1..n : i \in Final(thread') <=> i \in Final(thread)
    BY <1>3, <1>4, <1>5 DEF Final
  <2>2. Final(thread) \subseteq 1..n /\ \A i \in Final(thread') : i \notin 1..n => thread'[i] = {}
    BY <1>3, <1>5 DEF Final
  <2>3. ASSUME NEW x PROVE x \in LastSaid(thread') <=> x \in LastSaid(thread)
    <3>1. x \in LastSaid(thread') <=> \E i \in Final(thread') : x \in thread'[i]
      BY DEF LastSaid
    <3>2. x \in LastSaid(thread) <=> \E i \in Final(thread) : x \in thread[i]
      BY DEF LastSaid
    <3> QED BY <1>4, <2>1, <2>2, <3>1, <3>2
  <2> QED BY <2>3
<1>8. ASSUME NEW k \in Nat PROVE SaidIn(Newest(k))' \subseteq SaidIn(Newest(k))
  BY <1>2, <1>3, <1>4, <1>5 DEF SaidIn, Newest, n
<1>9. SaidIn(Newest(7)) \subseteq SaidIn(Newest(12))'
  BY <1>2, <1>3, <1>4 DEF SaidIn, Newest, n
<1> QED BY <1>2, <1>6, <1>7, <1>8, <1>9

-----------------------------------------------------------------------------
(* What the model is given *)

\* The tool that must be called is among those that are offered.
LEMMA RuledIs ==
    ASSUME NEW tools, NEW t
    PROVE  /\ Ruled(tools, t).offer = tools
           /\ Ruled(tools, t).force \in {t, "none"}
           /\ t \in tools => Ruled(tools, t).force = t
BY DEF Ruled

\* What a rule forces is forced, unless the turn has called it already.
LEMMA RuleIsForced ==
    ASSUME NEW tools, NEW t \in tools, t # "none", Rules = Ruled(tools, t),
           t \notin called \/ RetryAfterRecovery(t)
    PROVE  Given.force = t
<1>1. Rules.offer = tools /\ Rules.force = t
  BY DEF Ruled
<1>2. Given = Ruled(tools, t)
  BY <1>1 DEF Given
<1> QED BY <1>2 DEF Ruled

\* A rule for the selection that is underway, or for its query
LEMMA UnderwayIsForced ==
    ASSUME NEW t \in Selects, NEW q \in Queries, Underway(t, q), NEW tools,
           \/ Rules = Ruled(tools, q) /\ q \in tools /\ q \notin called /\ newest # q
           \/ Rules = Ruled(tools, t) /\ t \in tools /\ newest # t
    PROVE  Given.force \in {t, q} \ {newest}
<1>1. t # "none" /\ q # "none"
  BY DEF Selects, Queries
<1>2. CASE Rules = Ruled(tools, q) /\ q \in tools /\ q \notin called /\ newest # q
  BY <1>1, <1>2, RuleIsForced
<1>3. CASE Rules = Ruled(tools, t) /\ t \in tools /\ newest # t
  <2>1. t \notin called \/ RetryAfterRecovery(t)
    BY <1>3 DEF RetryAfterRecovery, Underway, Refused, Selects, Queries
  <2> QED BY <1>1, <1>3, <2>1, RuleIsForced
<1> QED BY <1>2, <1>3

\* The tools of the stage; queries of another one may join them.
LEMMA OffersFit == Given.offer \subseteq StageTools[stage] \cup Queries \cup FreeTools
<1>1. Available \subseteq StageTools[stage] \cup Queries
  BY DEF Available, CrossStep
<1>2. TransportRules.offer \subseteq All
  BY RuledIs DEF TransportRules, All
<1>3. AccommodationRules.offer \subseteq All
  <2> DEFINE query == "query_hotel_options"
             select == "select_accommodation_tool"
             waits == newest = "select_transport_tool" /\ "hotel" \notin Spoken
             left == All \ (IF waits THEN {query, select} ELSE {})
  <2>1. AccommodationRules \in {Ruled(left \ {select}, query), Ruled(left, "none"),
                               Ruled(left \ {query}, "none"), Ruled(left, query),
                               Ruled(left \ {query}, select)}
    BY DEF AccommodationRules
  <2>2. left \subseteq All
    OBVIOUS
  <2> HIDE DEF left, query, select
  <2> QED BY <2>1, <2>2, RuledIs
<1>4. Rules.offer \subseteq All
  BY <1>2, <1>3, RuledIs DEF Rules
<1>5. Given.offer = Rules.offer
  BY RuledIs DEF Given
<1> QED BY <1>1, <1>4, <1>5 DEF All

\* Which tools of the stage are there to be called, as long as the selection is underway
LEMMA ToolsOfTheStage ==
    ASSUME outcome \in [Selects -> {"none", "audit_required", "invalid_input", "applied"}]
    PROVE  /\ stage = "transport_planning" /\ ~Applied(SelectsTransport) =>
                /\ SelectsTransport \in Available
                /\ QueriesTransport \notin called /\ WantsAudit(QueriesTransport) =>
                      QueriesTransport \in Available
           /\ stage = "accommodation_planning" /\ ~Applied(SelectsRoom) =>
                /\ SelectsRoom \in Available
                /\ QueriesRooms \notin called /\ WantsAudit(QueriesRooms) =>
                      QueriesRooms \in Available
           /\ \A q \in Queries : q \in called => q \notin Available
<1> USE DEF SelectsTransport, SelectsRoom, QueriesTransport, QueriesRooms
<1>1. /\ "transport_planning" # "accommodation_planning"
      /\ StageTools["transport_planning"] = {SelectsTransport, QueriesTransport}
      /\ StageTools["accommodation_planning"] = {SelectsRoom, QueriesRooms}
  BY DEF StageTools
<1>2. \A q \in Queries : q \in Undated => ~WantsAudit(q)
  BY DEF Undated
<1>3. Undated \subseteq Queries /\ {SelectsTransport, SelectsRoom} \intersect Queries = {}
  BY DEF Undated, Queries
<1>4. AttemptOnce \intersect {SelectsTransport, SelectsRoom} = {} /\ Queries \subseteq AttemptOnce
  BY DEF AttemptOnce, Queries
<1>5. /\ ~Applied(SelectsTransport) =>
            Completed \intersect {SelectsTransport, QueriesTransport} = {}
      /\ ~Applied(SelectsRoom) => Completed \intersect {SelectsRoom, QueriesRooms} = {}
  BY <1>1 DEF Completed
<1>6. QueriesTransport \in Queries /\ QueriesRooms \in Queries
  BY DEF Queries
<1> QED BY <1>1, <1>2, <1>3, <1>4, <1>5, <1>6 DEF Available

\* The first rule that applies to a transport that is asked for makes the model call the
\* selection or its query, and never what it has just called.
LEMMA TransportIsForced ==
    ASSUME TurnTypeOK, stage = "transport_planning", "take transport" \in Spoken,
           Underway(SelectsTransport, QueriesTransport)
    PROVE  Given.force \in {SelectsTransport, QueriesTransport} \ {newest}
<1> USE DEF SelectsTransport, QueriesTransport
<1> DEFINE select == SelectsTransport
           query == QueriesTransport
<1>1. /\ outcome[select] \in {"none", "audit_required"}
      /\ select \in Available /\ (query \notin called /\ WantsAudit(query) => query \in Available)
      /\ (query \in called => query \notin Available)
  BY ToolsOfTheStage DEF TurnTypeOK, Underway, Applied, Queries
<1>2. stage \notin chosen /\ RequestsTransport(Spoken) /\ AllowsTransport
  BY DEF TurnTypeOK, Earlier, RequestsTransport, AllowsTransport
<1>3. Rules = TransportRules
  BY DEF Rules
<1>4. select \in All /\ (query \in Available => query \in All)
  BY <1>1 DEF All
<1>5. \/ Rules \in {Ruled(All, query), Ruled({query}, query)} /\ query \in Available /\ newest # query
      \/ Rules \in {Ruled(All \ {query}, select), Ruled({select}, select)} /\ newest # select
  BY <1>1, <1>2, <1>3 DEF TransportRules, Refused, Underway
<1> HIDE DEF SelectsTransport, QueriesTransport
<1>6. select \in Selects /\ query \in Queries /\ select # query
  BY DEF SelectsTransport, QueriesTransport, Selects, Queries
<1>7. query \in Available => query \in All /\ query \in {query} /\ query \notin called
  BY <1>1, <1>4
<1>8. select \in All \ {query} /\ select \in {select}
  BY <1>4, <1>6
<1> QED BY <1>5, <1>6, <1>7, <1>8, UnderwayIsForced

\* So do the rules of the lodging.
LEMMA RoomIsForced ==
    ASSUME TurnTypeOK, stage = "accommodation_planning", "take room" \in Spoken,
           Underway(SelectsRoom, QueriesRooms)
    PROVE  Given.force \in {SelectsRoom, QueriesRooms} \ {newest}
<1> USE DEF SelectsRoom, QueriesRooms
<1> DEFINE select == SelectsRoom
           query == QueriesRooms
<1>1. /\ outcome[select] \in {"none", "audit_required"}
      /\ select \in Available /\ (query \notin called /\ WantsAudit(query) => query \in Available)
      /\ (query \in called => query \notin Available)
  BY ToolsOfTheStage DEF TurnTypeOK, Underway, Applied, Queries
<1>2. stage \notin chosen /\ Rules = AccommodationRules
  BY DEF TurnTypeOK, Earlier, Rules
<1>3. select \in All /\ (query \in Available => query \in All) /\ newest # SelectsTransport
  BY <1>1 DEF All, Underway, SelectsTransport
<1>4. \/ Rules \in {Ruled(All \ {select}, query), Ruled(All, query)}
         /\ query \in Available /\ newest # query
      \/ Rules = Ruled(All \ {query}, select) /\ newest # select
  <2> DEFINE left == All \ {}
  <2>1. left = All
    OBVIOUS
  <2>2. \/ Rules \in {Ruled(left \ {select}, query), Ruled(left, query)}
           /\ query \in Available /\ newest # query
        \/ Rules = Ruled(left \ {query}, select) /\ newest # select
    BY <1>1, <1>2, <1>3 DEF AccommodationRules, Refused, Underway, SelectsTransport
  <2> HIDE DEF left
  <2> QED BY <2>1, <2>2
<1> HIDE DEF SelectsRoom, QueriesRooms
<1>5. select \in Selects /\ query \in Queries /\ select # query
  BY DEF SelectsRoom, QueriesRooms, Selects, Queries
<1>6. query \in Available => query \in All \ {select} /\ query \in All /\ query \notin called
  BY <1>1, <1>3, <1>5
<1>7. select \in All \ {query}
  BY <1>3, <1>5
<1> QED BY <1>4, <1>5, <1>6, <1>7, UnderwayIsForced

-----------------------------------------------------------------------------
(* The turn *)

\* What the middleware looks at is what it looked at, if neither the thread nor the state moves.
LEMMA NothingIsSaid ==
    ASSUME UNCHANGED <<thread, called, newest, outcome, stage, chosen, candidates, queried, dated>>
    PROVE  /\ Given' = Given /\ Spoken' = Spoken /\ SaidIn(Newest(1))' = SaidIn(Newest(1))
           /\ \A q : NeedsAudit(q)' = NeedsAudit(q) /\ WantsAudit(q)' = WantsAudit(q)
           /\ \A t, q : Underway(t, q)' = Underway(t, q)
<1>1. /\ Text' = Text /\ \A n : Recent(n)' = Recent(n)
      /\ \A n : SaidIn(Newest(n))' = SaidIn(Newest(n))
  BY DEF Text, Recent, SaidIn, Newest
<1>2. /\ Spoken' = Spoken /\ AllowsTransport' = AllowsTransport
      /\ \A q : WantsAudit(q)' = WantsAudit(q)
  <2>1. Spoken' = Spoken /\ Recent(4)' = Recent(4)
    BY <1>1 DEF Spoken
  <2>2. AllowsTransport' = AllowsTransport
    BY <2>1 DEF AllowsTransport, RequestsTransport
  <2>3. ASSUME NEW q PROVE WantsAudit(q)' = WantsAudit(q)
    <3>1. SaidIn(Newest(12))' = SaidIn(Newest(12))
      BY <1>1
    <3> QED BY <3>1 DEF WantsAudit
  <2> QED BY <2>1, <2>2, <2>3
<1>3. \A q : NeedsAudit(q)' = NeedsAudit(q)
  BY <1>1, <1>2 DEF NeedsAudit
<1>4. /\ Undated' = Undated /\ Audits' = Audits
      /\ CrossStep' = CrossStep /\ Intent' = Intent
  BY <1>1, <1>2 DEF Undated, Audits, CrossStep, Intent
<1>5. Preferred' = Preferred /\ Completed' = Completed /\ Available' = Available /\ All' = All
  BY <1>4 DEF Preferred, Completed, Applied, Available, All
<1>6. TransportRules' = TransportRules
  BY <1>1, <1>2, <1>4, <1>5 DEF TransportRules, Refused, RequestsTransport
<1>7. AccommodationRules' = AccommodationRules
  BY <1>1, <1>2, <1>4, <1>5 DEF AccommodationRules, Refused
<1>8. Rules' = Rules /\ AskedFor' = AskedFor /\ \A t : RetryAfterRecovery(t)' = RetryAfterRecovery(t)
  BY <1>1, <1>2, <1>5, <1>6, <1>7 DEF Rules, AskedFor, RetryAfterRecovery, Refused
<1>9. Given' = Given
  BY <1>8 DEF Given
<1>10. \A t, q : Underway(t, q)' = Underway(t, q)
  BY <1>1, <1>2 DEF Underway
<1> QED BY <1>1, <1>2, <1>3, <1>9, <1>10

\* A demand for a query does not come up while the model calls tools.
LEMMA DemandsDoNotComeUp ==
    ASSUME TurnTypeOK, NEW x, Calls(x), NEW q \in Queries, NeedsAudit(q)'
    PROVE  NeedsAudit(q)
<1>1. Spoken' = Spoken /\ SaidIn(Newest(7))' \subseteq SaidIn(Newest(7))
  BY Answered DEF TurnTypeOK, Calls
<1>2. q \notin queried /\ (q = "query_hotel_options" => ~candidates)
  BY DEF NeedsAudit, Calls, TurnTypeOK, QueriesRooms
<1> QED BY <1>1, <1>2 DEF NeedsAudit

\* One of the selections, with its query: every call leads on to the choice being recorded.
LEMMA CallKeepsPromise ==
    ASSUME TurnTypeOK, NEW x, Calls(x), NEW s, NEW ask, NEW t \in Selects, NEW q \in Queries,
           Promised(s, ask, t, q),
           stage = s /\ ask \in Spoken /\ Underway(t, q) => Given.force \in {t, q} \ {newest},
           outcome' \in [Selects -> {"none", "audit_required", "invalid_input", "applied"}],
           x = t => \/ outcome'[t] = "audit_required" /\ NeedsAudit(q) /\ stage' = stage
                    \/ outcome'[t] \in {"applied", "invalid_input"} /\ ~NeedsAudit(q),
           x # t => outcome'[t] = outcome[t],
           x = q => stage' = stage
    PROVE  Promised(s, ask, t, q)'
<1> SUFFICES ASSUME began' = s, ask \in Spoken'
             PROVE  \/ turn' # "over" /\ stage' = s /\ Underway(t, q)'
                    \/ Settled(t, q)'
  BY DEF Promised
<1>1. /\ Spoken' = Spoken /\ SaidIn(Newest(7)) \subseteq SaidIn(Newest(12))'
  BY Answered DEF TurnTypeOK, Calls
<1>2. /\ turn = "model" /\ given = Given /\ began' = began /\ turn' = "middleware"
      /\ called' = called \cup {x} /\ newest' = x /\ queried' = queried \cup ({x} \cap Queries)
      /\ given.force # "none" => x = given.force
  BY DEF Calls, TurnTypeOK
<1>3. t # q /\ t # "none" /\ q # "none" /\ t \notin Queries
  BY DEF Selects, Queries
<1>4. ~NeedsAudit(q) => ~NeedsAudit(q)'
  BY DemandsDoNotComeUp
<1>5. CASE Settled(t, q)
  <2>1. outcome'[t] \in {"applied", "invalid_input"}
    BY <1>5 DEF Settled
  <2> QED BY <1>1, <1>2, <1>4, <1>5, <2>1 DEF Settled
<1>6. CASE stage = s /\ Underway(t, q)
  <2>1. x \in {t, q} \ {newest}
    BY <1>1, <1>2, <1>3, <1>6
  <2>2. CASE x = q
    BY <1>2, <1>3, <1>6, <2>1, <2>2 DEF Underway
  <2>3. CASE x = t /\ NeedsAudit(q)
    <3>1. q \notin queried' /\ WantsAudit(q)'
      BY <1>1, <1>2, <1>3, <2>3 DEF NeedsAudit, WantsAudit
    <3>2. called' = {t} /\ newest' = t /\ outcome'[t] = "audit_required" /\ stage' = s
      BY <1>2, <1>6, <2>1, <2>3 DEF Underway, NeedsAudit
    <3> QED BY <1>2, <3>1, <3>2 DEF Underway
  <2>4. CASE x = t /\ ~NeedsAudit(q)
    <3>1. {"hedge", Noun[q]} \subseteq Spoken /\ "static" \notin Spoken => q \in queried
      <4>1. CASE q \in queried
        BY <4>1
      <4>2. CASE Spoken \subseteq SaidIn(Newest(1))
        <5>1. SaidIn(Newest(1)) \subseteq SaidIn(Newest(7))
          <6>1. DOMAIN thread \subseteq Nat /\ Len(thread) \in Nat
            BY LenProperties DEF TurnTypeOK
          <6>2. Newest(1) \subseteq Newest(7)
            BY <6>1 DEF Newest
          <6> QED BY <6>2 DEF SaidIn
        <5> QED BY <2>4, <4>2, <5>1 DEF NeedsAudit, TurnTypeOK, QueriesRooms
      <4> QED BY <1>6, <2>1, <2>4, <4>1, <4>2 DEF Underway
    <3> QED BY <1>1, <1>2, <1>4, <2>4, <3>1 DEF Settled
  <2> QED BY <2>1, <2>2, <2>3, <2>4
<1> QED BY <1>1, <1>2, <1>5, <1>6 DEF Promised

\* A call leaves the state of the thread typed, wherever it leads.
LEMMA CallKeepsTypes ==
    ASSUME TurnTypeOK, NEW x, Calls(x),
           outcome' \in [Selects -> {"none", "audit_required", "invalid_input", "applied"}],
           stage' \in DOMAIN StageTools, chosen' = Earlier(stage'),
           candidates' => candidates \/ x = QueriesRooms
    PROVE  TurnTypeOK'
<1>1. thread' \in Seq(SUBSET Sayings)
  BY Answered DEF TurnTypeOK, Calls
<1>2. turn' = "middleware" /\ queried' = queried \cup ({x} \cap Queries)
  BY DEF Calls
<1>3. candidates' => QueriesRooms \in queried'
  BY <1>2 DEF TurnTypeOK, QueriesRooms, Queries
<1> QED BY <1>1, <1>2, <1>3 DEF TurnTypeOK

\* Both promises are kept by a call that is no selection.
LEMMA OtherCallKeepsInv ==
    ASSUME TurnInv, NEW x, Calls(x), x \notin Selects, outcome' = outcome,
           x \in Queries => stage' = stage, TurnTypeOK'
    PROVE  TurnInv'
<1>1. /\ SelectsTransport \in Selects /\ SelectsRoom \in Selects
      /\ QueriesTransport \in Queries /\ QueriesRooms \in Queries
  BY DEF SelectsTransport, SelectsRoom, QueriesTransport, QueriesRooms, Selects, Queries
<1>2. TurnTypeOK /\ outcome' \in [Selects -> {"none", "audit_required", "invalid_input", "applied"}]
  BY DEF TurnInv, TurnTypeOK
<1>3. Promised("transport_planning", "take transport", SelectsTransport, QueriesTransport)'
  BY <1>1, <1>2, TransportIsForced, CallKeepsPromise DEF TurnInv
<1>4. Promised("accommodation_planning", "take room", SelectsRoom, QueriesRooms)'
  BY <1>1, <1>2, RoomIsForced, CallKeepsPromise DEF TurnInv
<1> QED BY <1>3, <1>4 DEF TurnInv

\* A selection at its stage either records the choice or says what is missing.
LEMMA SelectKeepsInv ==
    ASSUME TurnInv, NEW t, NEW q, NEW next, Select(t, q, next),
           \/ t = SelectsTransport /\ q = QueriesTransport /\ next = "accommodation_planning"
           \/ t = SelectsRoom /\ q = QueriesRooms /\ next = "food_planning"
    PROVE  TurnInv'
<1>1. /\ SelectsTransport \in Selects /\ SelectsRoom \in Selects /\ SelectsTransport # SelectsRoom
      /\ QueriesTransport \in Queries /\ QueriesRooms \in Queries
      /\ Selects \cap Queries = {} /\ t \in Selects
  BY DEF SelectsTransport, SelectsRoom, QueriesTransport, QueriesRooms, Selects, Queries
<1>2. TurnTypeOK /\ Calls(t) /\ candidates' = candidates
  BY DEF TurnInv, Select
<1>3. PICK o \in {"audit_required", "invalid_input", "applied"} :
         /\ outcome' = [outcome EXCEPT ![t] = o]
         /\ o = "audit_required" <=> NeedsAudit(q)
         /\ IF o = "applied" THEN chosen' = chosen \union {stage} /\ stage' = next
                             ELSE UNCHANGED <<chosen, stage>>
  BY DEF Select
<1>4. /\ outcome' \in [Selects -> {"none", "audit_required", "invalid_input", "applied"}]
      /\ outcome'[t] = o /\ \A r \in Selects : r # t => outcome'[r] = outcome[r]
  BY <1>1, <1>2, <1>3 DEF TurnTypeOK
<1>5. TurnTypeOK'
  <2>1. t \in StageTools[stage]
    BY <1>1, <1>2, OffersFit DEF Calls, TurnTypeOK, Selects, Queries, FreeTools
  <2>2. \/ t = SelectsTransport /\ stage = "transport_planning"
        \/ t = SelectsRoom /\ stage = "accommodation_planning"
    BY <2>1, <1>2 DEF TurnTypeOK, StageTools, SelectsTransport, SelectsRoom
  <2>3. stage' \in DOMAIN StageTools /\ chosen' = Earlier(stage')
    BY <1>1, <1>2, <1>3, <2>2 DEF TurnTypeOK, StageTools, Earlier
  <2> QED BY <1>2, <1>4, <2>3, CallKeepsTypes
<1>6. ASSUME NEW s, NEW ask, NEW u \in Selects, NEW r \in Queries, Promised(s, ask, u, r),
             u = t => r = q,
             stage = s /\ ask \in Spoken /\ Underway(u, r) => Given.force \in {u, r} \ {newest}
      PROVE  Promised(s, ask, u, r)'
  <2>1. t = u => \/ outcome'[u] = "audit_required" /\ NeedsAudit(r) /\ stage' = stage
                 \/ outcome'[u] \in {"applied", "invalid_input"} /\ ~NeedsAudit(r)
    BY <1>3, <1>4, <1>6
  <2>2. (t # u => outcome'[u] = outcome[u]) /\ (t = r => stage' = stage)
    BY <1>1, <1>4
  <2> QED BY <1>2, <1>4, <1>6, <2>1, <2>2, CallKeepsPromise
<1>7. Promised("transport_planning", "take transport", SelectsTransport, QueriesTransport)'
  BY <1>1, <1>2, <1>6, TransportIsForced DEF TurnInv
<1>8. Promised("accommodation_planning", "take room", SelectsRoom, QueriesRooms)'
  BY <1>1, <1>2, <1>6, RoomIsForced DEF TurnInv
<1> QED BY <1>5, <1>7, <1>8 DEF TurnInv

\* Every step keeps the invariant of the turn.
LEMMA TurnStep == TurnInv /\ [TurnNext]_turnVars => TurnInv'
<1> SUFFICES ASSUME TurnInv, [TurnNext]_turnVars PROVE TurnInv'
  OBVIOUS
<1>0. TurnTypeOK
  BY DEF TurnInv
<1>1. ASSUME NEW w \in UserMessages, Hear(w) PROVE TurnInv'
  <2>1. thread' \in Seq(SUBSET Sayings) /\ Spoken' = w /\ w \subseteq SaidIn(Newest(1))'
    BY <1>0, <1>1, Heard DEF Hear, TurnTypeOK
  <2>2. TurnTypeOK'
    BY <1>0, <1>1, <2>1 DEF Hear, TurnTypeOK
  <2>3. \A t \in Selects : \A q : Underway(t, q)'
    BY <1>1, <2>1 DEF Hear, Underway
  <2>4. turn' = "middleware" /\ stage' = began'
    BY <1>1 DEF Hear
  <2>5. SelectsTransport \in Selects /\ SelectsRoom \in Selects
    BY DEF SelectsTransport, SelectsRoom, Selects
  <2> QED BY <2>2, <2>3, <2>4, <2>5 DEF TurnInv, Promised
<1>2. ASSUME Ask \/ UNCHANGED turnVars PROVE TurnInv'
  <2>1. /\ UNCHANGED <<thread, called, newest, outcome, stage, chosen, candidates, queried, dated, began>>
        /\ \/ turn' = turn /\ given' = given
           \/ turn = "middleware" /\ turn' = "model" /\ given' = Given
    BY <1>2 DEF Ask, turnVars
  <2>2. TurnTypeOK'
    BY <1>0, <2>1, NothingIsSaid DEF TurnTypeOK
  <2>3. \A t, q : Settled(t, q)' = Settled(t, q)
    BY <2>1, NothingIsSaid DEF Settled
  <2>4. \A s, ask, t, q : Promised(s, ask, t, q) => Promised(s, ask, t, q)'
    BY <2>1, <2>3, NothingIsSaid DEF Promised
  <2> QED BY <2>2, <2>4 DEF TurnInv
<1>3. ASSUME Reply PROVE TurnInv'
  <2>1. /\ UNCHANGED <<thread, called, newest, outcome, stage, chosen, candidates, queried, dated, began>>
        /\ turn' = "over" /\ Given.force = "none"
    BY <1>0, <1>3 DEF Reply, TurnTypeOK
  <2>2. TurnTypeOK'
    BY <1>0, <2>1, NothingIsSaid DEF TurnTypeOK
  <2>3. /\ Spoken' = Spoken /\ \A t, q : Settled(t, q)' = Settled(t, q)
    BY <2>1, NothingIsSaid DEF Settled
  <2>4. SelectsTransport # "none" /\ QueriesTransport # "none"
        /\ SelectsRoom # "none" /\ QueriesRooms # "none"
    BY DEF SelectsTransport, QueriesTransport, SelectsRoom, QueriesRooms
  <2>5. Promised("transport_planning", "take transport", SelectsTransport, QueriesTransport)'
    BY <1>0, <2>1, <2>3, <2>4, TransportIsForced DEF TurnInv, Promised
  <2>6. Promised("accommodation_planning", "take room", SelectsRoom, QueriesRooms)'
    BY <1>0, <2>1, <2>3, <2>4, RoomIsForced DEF TurnInv, Promised
  <2> QED BY <2>2, <2>5, <2>6 DEF TurnInv
<1>4. CASE QueryTransport \/ QueryHotel \/ UseOther
  <2>1. PICK x \in Queries \cup {"other"} :
           /\ Calls(x) /\ UNCHANGED <<outcome, stage, chosen>>
           /\ candidates' => candidates \/ x = QueriesRooms
    BY <1>4 DEF QueryTransport, QueryHotel, UseOther, Queries, QueriesRooms
  <2>2. x \notin Selects /\ TurnTypeOK'
    BY <1>0, <2>1, CallKeepsTypes DEF TurnTypeOK, Selects, Queries
  <2> QED BY <2>1, <2>2, OtherCallKeepsInv
<1>5. CASE SelectDestination
  <2>1. /\ Calls("select_destination_tool") /\ UNCHANGED <<outcome, candidates>>
        /\ chosen' = chosen \union {stage} /\ stage' = "transport_planning"
    BY <1>5 DEF SelectDestination
  <2>2. "select_destination_tool" \in StageTools[stage]
    BY <1>0, <2>1, OffersFit DEF Calls, TurnTypeOK, Queries, FreeTools
  <2>3. stage = "destination_recommendation"
    BY <1>0, <2>2 DEF TurnTypeOK, StageTools
  <2>4. stage' \in DOMAIN StageTools /\ chosen' = Earlier(stage')
    BY <1>0, <2>1, <2>3 DEF TurnTypeOK, StageTools, Earlier
  <2>5. TurnTypeOK' /\ "select_destination_tool" \notin Selects \cup Queries
    BY <1>0, <2>1, <2>4, CallKeepsTypes DEF TurnTypeOK, Selects, Queries
  <2> QED BY <2>1, <2>5, OtherCallKeepsInv
<1>6. ASSUME NEW s \in Earlier(stage), GoBack(s) PROVE TurnInv'
  <2>1. /\ Calls("go_back") /\ outcome' = outcome /\ stage' = s /\ chosen' = Earlier(s) /\ ~candidates'
    BY <1>6 DEF GoBack
  <2>2. s \in DOMAIN StageTools
    BY <1>0 DEF Earlier, StageTools, TurnTypeOK
  <2>3. TurnTypeOK' /\ "go_back" \notin Selects \cup Queries
    BY <1>0, <2>1, <2>2, CallKeepsTypes DEF TurnTypeOK, Selects, Queries
  <2> QED BY <2>1, <2>3, OtherCallKeepsInv
<1>7. CASE \/ Select("select_transport_tool", "query_transport_options", "accommodation_planning")
           \/ Select("select_accommodation_tool", "query_hotel_options", "food_planning")
  BY <1>7, SelectKeepsInv DEF SelectsTransport, SelectsRoom, QueriesTransport, QueriesRooms
<1> QED BY <1>1, <1>2, <1>3, <1>4, <1>5, <1>6, <1>7 DEF TurnNext

\* No message has been heard.
LEMMA TurnInitInv == TurnInit => TurnInv
<1> SUFFICES ASSUME TurnInit PROVE TurnInv
  OBVIOUS
<1>1. Spoken = {}
  BY DEF TurnInit, Spoken, Recent, SaidIn
<1>2. TurnTypeOK
  BY DEF TurnInit, TurnTypeOK, StageTools, Earlier
<1> QED BY <1>1, <1>2 DEF TurnInv, Promised

(* However the user words it, whatever the tools answer, and however long the      *)
(* thread: a turn in which the transport or the lodging is asked to be recorded    *)
(* ends with the tool having been called past its demand for a query               *)
(* (StepConfigMiddleware.awrap_model_call, core/middleware.py).                     *)
THEOREM AskedIsRecorded == TurnSpec => []WhatIsAskedIsRecorded
<1>1. TurnInv => WhatIsAskedIsRecorded
  BY DEF TurnInv, Promised, Settled, WhatIsAskedIsRecorded, Settles, Applied,
         SelectsTransport, SelectsRoom, QueriesTransport, QueriesRooms
<1> QED BY <1>1, TurnInitInv, TurnStep, PTL DEF TurnSpec
============================================================================
