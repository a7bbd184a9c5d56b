---- MODULE ChatTurn ----
(***************************************************************************)
(* The turns of one conversation (src/app/api/v1/chat.py): the daily quota, *)
(* the conversation lock, the messages, the conversation row with its one  *)
(* JSON column, the agent's checkpoint, and the edited journey drafts that *)
(* the page saves beside the turns.                                        *)
(*                                                                         *)
(* The lock is taken as `ConversationMutex` promises it and with a wait of *)
(* 0: `LocalSessionLock` and `SessionLock` say when the promise is kept.   *)
(* The row is written by reading the column, changing it and writing all   *)
(* of it back, with an await in between and no lock: `seen` is what a      *)
(* writer has read.                                                        *)
(***************************************************************************)
EXTENDS FastPath, FiniteSets, Sequences

CONSTANTS
    MaxChatTurns, \* requests of /chat/stream/{conversation_id} (bound)
    Saves,        \* requests of PATCH /chat/journey/{conversation_id}
    NoTurn,
    Words,        \* what a message may say
    DailyLimit,   \* settings.chat_turn_quota_daily_limit
    Lookback,     \* answers searched for facts: 5 in the code
    LastStage,    \* how far the agent's plan may come (bound)
    MaxTroubles   \* turns that end early and drafts that are saved, together (bound)

\* A message that asks for a mode tells something of the trip.
ASSUME WordsAssumption ==
    \A w \in Words : AsksForMode(w) => HasRequirement(WordFacts(w))
ASSUME BoundsAssumption ==
    {DailyLimit, Lookback, MaxChatTurns, LastStage} \subseteq Nat \ {0} /\ MaxTroubles \in Nat
ASSUME NoTurnAssumption == NoTurn \notin 1..MaxChatTurns

ChatTurns == 1..MaxChatTurns  \* numbered as they come in
ASSUME SavesAssumption == Saves \cap ChatTurns = {}

VARIABLES
    pc,       \* where a turn is
    job,      \* what a turn has derived from its message and the rows
    seen,     \* the column as a writer has read it
    owner,    \* the turn that holds the conversation lock
    dialogue, \* the messages in the order they were saved
    extra,    \* conversation.extra_info
    agent,    \* the checkpoint of the agent's thread
    saving    \* where a save is

chatVars == <<pc, job, seen, owner, dialogue, extra, agent, saving>>

Silence == [req |-> NoFacts.req, signal |-> "none", neutral |-> FALSE]

\* `made`: a journey draft came out of the turn; `cut`: its stream stopped early.
NoJob == [word |-> Silence,
          kind |-> "none", facts |-> NoFacts, ctx |-> Context(NoExtra),
          decision |-> Undecided, seeds |-> FALSE, made |-> FALSE, cut |-> FALSE]

ChatInit ==
    /\ pc = [t \in ChatTurns |-> "new"]
    /\ job = [t \in ChatTurns |-> NoJob]
    /\ seen = [r \in ChatTurns \cup Saves |-> NoExtra]
    /\ owner = NoTurn
    /\ dialogue = <<>>
    /\ extra = NoExtra
    /\ agent = NoAgent
    /\ saving = [s \in Saves |-> "new"]

Questions == {i \in DOMAIN dialogue : dialogue[i].role = "user"}
Answers == {i \in DOMAIN dialogue : dialogue[i].role = "assistant"}

Message(t, role, facts) == [role |-> role, turn |-> t, facts |-> facts]
Go(t, where) == pc' = [pc EXCEPT ![t] = where]

\* The generator returns: its locals are gone and the lock is given back.
Leave(t, how) ==
    /\ Go(t, how)
    /\ owner' = NoTurn
    /\ job' = [job EXCEPT ![t] = NoJob]
    /\ seen' = [seen EXCEPT ![t] = NoExtra]

\* "unmarked": the agent has run, the marker was not written.
Ended == {"refused", "busy", "answered", "left", "completed", "unmarked"}
Trouble == {t \in ChatTurns : pc[t] \in {"unmarked", "left"} \/ job[t].cut}
           \cup {s \in Saves : saving[s] # "new"}
MoreTrouble == Cardinality(Trouble) < MaxTroubles

Fast == {"locked", "asked", "reading", "writing", "ready", "replying"}
Live == Fast \cup {"running", "worked", "answering", "drafting", "drafted", "marking", "marked"}

----
(***************************************************************************)
(* The request.                                                            *)
(***************************************************************************)

\* The quota counts today's questions before the lock is asked for.
Request(t) ==
    /\ pc[t] = "new"
    /\ \A u \in 1..(t - 2) : pc[u] \in Ended
    /\ t > 1 => pc[t - 1] # "new"
    /\ Go(t, IF Cardinality(Questions) >= DailyLimit THEN "refused" ELSE "checked")
    /\ UNCHANGED <<job, seen, owner, dialogue, extra, agent, saving>>

(* Mutant: a turn starts whether or not another one runs. *)
AcquireAnyway(t) ==
    /\ pc[t] = "checked"
    /\ Go(t, "locked") /\ owner' = t
    /\ UNCHANGED <<job, seen, dialogue, extra, agent, saving>>

Acquire(t) ==
    /\ pc[t] = "checked"
    /\ IF owner = NoTurn THEN Go(t, "locked") /\ owner' = t
                         ELSE Go(t, "busy") /\ UNCHANGED owner
    /\ UNCHANGED <<job, seen, dialogue, extra, agent, saving>>

SaveQuestion(t) ==
    /\ pc[t] = "locked"
    /\ \E w \in Words :
          /\ job' = [job EXCEPT ![t].word = w]
          /\ dialogue' = Append(dialogue, Message(t, "user", WordFacts(w)))
    /\ Go(t, "asked")
    /\ UNCHANGED <<seen, owner, extra, agent, saving>>

\* The facts of the latest of the last answers that has any.
LatestFacts ==
    LET last == {i \in Answers : Cardinality({j \in Answers : i < j}) < Lookback}
        told == {i \in last : dialogue[i].facts # NoFacts}
    IN  IF told = {} THEN NoFacts
        ELSE dialogue[CHOOSE i \in told : \A j \in told : j <= i].facts

SplitJob(j, ctx) ==
    [j EXCEPT !.kind = "split", !.ctx = ctx, !.facts = WordFacts(j.word)]

ReplyJob(j, ctx, facts, decision) ==
    [j EXCEPT !.kind = "reply", !.ctx = ctx, !.decision = decision,
              !.facts = AgencyFacts(j.word, facts, decision)]

\* The facts that a turn of the agent persists and may seed the agent with.
AgentJob(j, ctx, facts, decision) ==
    LET agency == AgencyFacts(j.word, facts, decision)
    IN  [j EXCEPT !.kind = "agent", !.ctx = ctx, !.decision = decision,
                  !.seeds = SeedApplies(facts, ctx, decision),
                  !.facts = IF agency # NoFacts THEN agency ELSE facts]

Prepare(t) ==
    /\ pc[t] = "asked"
    /\ LET w == job[t].word
           ctx == Context(extra)
           latest == LatestFacts
           base == IF latest = NoFacts /\ HasRequirement(ContextFacts(ctx))
                   THEN ContextFacts(ctx) ELSE latest
           facts == UpdatedBy(base, w)
           decision == ResolveMode(w, facts, ctx)
       IN  CASE SplitApplies(w, latest, ctx, Cardinality(Questions), Cardinality(Answers)) ->
                  job' = [job EXCEPT ![t] = SplitJob(@, ctx)] /\ Go(t, "reading")
             [] ~SplitApplies(w, latest, ctx, Cardinality(Questions), Cardinality(Answers))
                /\ AgencyReplyApplies(w, facts, decision) ->
                  job' = [job EXCEPT ![t] = ReplyJob(@, ctx, facts, decision)] /\ Go(t, "reading")
             [] OTHER ->
                  /\ job' = [job EXCEPT ![t] = AgentJob(@, ctx, facts, decision)]
                  /\ Go(t, IF Updates(w) THEN "reading" ELSE "ready")
    /\ UNCHANGED <<seen, owner, dialogue, extra, agent, saving>>

----
(***************************************************************************)
(* The fast facts on the conversation row, and the fast answers.           *)
(***************************************************************************)
ReadForFacts(t) ==
    /\ pc[t] = "reading"
    /\ seen' = [seen EXCEPT ![t] = extra]
    /\ Go(t, "writing")
    /\ UNCHANGED <<job, owner, dialogue, extra, agent, saving>>

FactsToPersist(j) ==
    IF j.kind = "agent" /\ j.decision.sure /\ j.decision.mode \in Confirmable
    THEN Merge(j.facts, Chosen(j.decision.mode)) ELSE j.facts

WriteFacts(t) ==
    /\ pc[t] = "writing"
    /\ LET j == job[t]
           needs == IF j.kind = "agent" THEN j.decision.needs ELSE j.kind = "split"
       IN  extra' = Persisted(seen[t], FactsToPersist(j), needs)
    /\ Go(t, IF job[t].kind = "agent" THEN "ready" ELSE "replying")
    /\ seen' = [seen EXCEPT ![t] = NoExtra]
    /\ UNCHANGED <<job, owner, dialogue, agent, saving>>

SaveFastAnswer(t) ==
    /\ pc[t] = "replying"
    /\ dialogue' = Append(dialogue, Message(t, "assistant", job[t].facts))
    /\ Leave(t, "answered")
    /\ UNCHANGED <<extra, agent, saving>>

----
(***************************************************************************)
(* The agent.                                                              *)
(***************************************************************************)
\* The facts of the message are merged into the thread, and the seed goes in
\* with the message.  That the merge may fail, and is then skipped, is left out.
GivenTo(t) ==
    LET j == job[t]
        merged == Synced(agent, j.word, j.ctx)
    IN  IF j.seeds THEN Seeded(merged, j.facts, j.decision.mode) ELSE merged

StartAgent(t) ==
    /\ pc[t] = "ready"
    /\ agent' = GivenTo(t)
    /\ Go(t, "running")
    /\ UNCHANGED <<job, seen, owner, dialogue, extra, saving>>

\* The model and its tools: they record what was said, choose a mode, move the
\* plan on, draw a draft.  Nobody else looks at the thread before the turn ends.
AgentWorks(t) ==
    /\ pc[t] = "running"
    /\ \/ agent' = [agent EXCEPT !.req = Over(@, job[t].word.req)] /\ UNCHANGED job
       \/ /\ agent.stage < LastStage
          /\ \E mode \in Confirmable :
                agent' = [agent EXCEPT !.req = Over(@, job[t].word.req),
                                       !.stage = @ + 1,
                                       !.mode = IF @ = "none" THEN mode ELSE @]
          /\ \E made \in BOOLEAN : job' = [job EXCEPT ![t].made = made]
    /\ Go(t, "worked")
    /\ UNCHANGED <<seen, owner, dialogue, extra, saving>>

AgentEnds(t) ==
    /\ pc[t] \in {"running", "worked"}
    /\ Go(t, "answering")
    /\ UNCHANGED <<job, seen, owner, dialogue, extra, agent, saving>>

\* No event for 90 seconds, or the model's stream breaks off: an answer all the same.
AgentStalls(t) ==
    /\ pc[t] \in {"running", "worked"}
    /\ MoreTrouble
    /\ job' = [job EXCEPT ![t].cut = TRUE]
    /\ Go(t, "answering")
    /\ UNCHANGED <<seen, owner, dialogue, extra, agent, saving>>

AgentFails(t) ==
    /\ pc[t] \in {"running", "worked"}
    /\ MoreTrouble
    /\ Leave(t, "unmarked")
    /\ UNCHANGED <<dialogue, extra, agent, saving>>

AfterAnswer(t) ==
    IF job[t].cut /\ ~job[t].made
    THEN Leave(t, "unmarked")
    ELSE /\ Go(t, IF job[t].made THEN "drafting" ELSE "marking")
         /\ UNCHANGED <<job, seen, owner>>

\* An answer without text is not saved; a stalled turn and a draft have a text.
SaveAnswer(t) ==
    /\ pc[t] = "answering"
    /\ \/ dialogue' = Append(dialogue, Message(t, "assistant", NoFacts))
       \/ ~job[t].cut /\ ~job[t].made /\ UNCHANGED dialogue
    /\ AfterAnswer(t)
    /\ UNCHANGED <<extra, agent, saving>>

ReadForDraft(t) ==
    /\ pc[t] = "drafting"
    /\ seen' = [seen EXCEPT ![t] = extra]
    /\ Go(t, "drafted")
    /\ UNCHANGED <<job, owner, dialogue, extra, agent, saving>>

WriteDraft(t) ==
    /\ pc[t] = "drafted"
    /\ extra' = [seen[t] EXCEPT !.draft = "agent"]
    /\ IF job[t].cut
       THEN Leave(t, "unmarked")
       ELSE /\ Go(t, "marking")
            /\ seen' = [seen EXCEPT ![t] = NoExtra]
            /\ UNCHANGED <<job, owner>>
    /\ UNCHANGED <<dialogue, agent, saving>>

ReadForMark(t) ==
    /\ pc[t] = "marking"
    /\ seen' = [seen EXCEPT ![t] = extra]
    /\ Go(t, "marked")
    /\ UNCHANGED <<job, owner, dialogue, extra, agent, saving>>

\* What a turn knows of the progress before a tool of the agent tells it.
OwnProgress(j) ==
    LET mode == IF j.facts.mode = "none" /\ j.decision.sure THEN j.decision.mode
                                                            ELSE j.facts.mode
    IN  CASE j.seeds -> Progress(j.facts, j.decision.mode)
          [] ~j.seeds /\ Updates(j.word) -> Progress(j.facts, mode)
          [] OTHER -> [mode |-> "none", flow |-> "none"]

\* The marker that the thread owns the progress; an error only skips it.
WriteMark(t) ==
    /\ pc[t] = "marked"
    /\ \E progress \in {OwnProgress(job[t]), [mode |-> agent.mode, flow |-> agent.mode]} :
          extra' = Marked(seen[t], progress, job[t].decision.sure)
    /\ Leave(t, "completed")
    /\ UNCHANGED <<dialogue, agent, saving>>

SkipMark(t) ==
    /\ pc[t] \in {"marking", "marked"}
    /\ MoreTrouble
    /\ Leave(t, "unmarked")
    /\ UNCHANGED <<dialogue, extra, agent, saving>>

\* The client goes away and the generator is cancelled wherever it waits; an
\* error outside the agent does the same to the state.
Cancel(t) ==
    /\ pc[t] \in Live
    /\ MoreTrouble
    /\ Leave(t, IF pc[t] \in Fast THEN "left" ELSE "unmarked")
    /\ UNCHANGED <<dialogue, extra, agent, saving>>

----
(***************************************************************************)
(* The page saves an edited draft, with or without a turn under way.       *)
(***************************************************************************)
SaveReads(s) ==
    /\ saving[s] = "new"
    /\ MoreTrouble
    /\ Answers # {}
    /\ seen' = [seen EXCEPT ![s] = extra]
    /\ saving' = [saving EXCEPT ![s] = "read"]
    /\ UNCHANGED <<pc, job, owner, dialogue, extra, agent>>

SaveWrites(s) ==
    /\ saving[s] = "read"
    /\ extra' = [seen[s] EXCEPT !.draft = "user"]
    /\ saving' = [saving EXCEPT ![s] = "saved"]
    /\ UNCHANGED <<pc, job, seen, owner, dialogue, agent>>

----
FastStep(t) ==
    \/ Request(t) \/ Acquire(t) \/ SaveQuestion(t) \/ Prepare(t)
    \/ ReadForFacts(t) \/ WriteFacts(t) \/ SaveFastAnswer(t)

AgentStep(t) ==
    \/ StartAgent(t) \/ AgentEnds(t) \/ AgentStalls(t) \/ AgentFails(t)
    \/ SaveAnswer(t) \/ ReadForDraft(t) \/ WriteDraft(t)
    \/ ReadForMark(t) \/ WriteMark(t) \/ SkipMark(t)

ChatNext ==
    \/ \E t \in ChatTurns : FastStep(t) \/ AgentStep(t) \/ AgentWorks(t) \/ Cancel(t)
    \/ \E s \in Saves : SaveReads(s) \/ SaveWrites(s)

ChatSpec == ChatInit /\ [][ChatNext]_chatVars

----
(* In the order they were saved, each answer directly follows the question of *)
(* its own turn: chat.py saves both under the conversation lock, and a turn   *)
(* that is refused, busy or left behind puts nothing between them.            *)
AnswersFollowTheirQuestions ==
    \A i \in DOMAIN dialogue :
        dialogue[i].role = "assistant" =>
            /\ i > 1
            /\ dialogue[i - 1].role = "user"
            /\ dialogue[i - 1].turn = dialogue[i].turn

(* What was told in a question that got an answer is known to the agent when  *)
(* it runs for the first time with a confirmed mode.                          *)
ToldAndAnswered(k) ==
    \E i \in DOMAIN dialogue :
        /\ i < Len(dialogue)
        /\ dialogue[i + 1].role = "assistant"
        /\ dialogue[i].facts.req[k] # 0

NeverRan == \A u \in ChatTurns : pc[u] \notin {"unmarked", "completed"}

FirstRunKnowsTheFacts ==
    [][\A t \in ChatTurns :
          pc[t] = "ready" /\ pc'[t] = "running" /\ job[t].decision.sure /\ NeverRan =>
              \A k \in Requirements : ToldAndAnswered(k) => agent'.req[k] # 0]_chatVars

(* The plan is thrown back only where the user has just chosen a mode, or     *)
(* where a turn of the agent ended without its marker, or a saved draft has   *)
(* taken the marker away.                                                     *)
ProgressIsSeededOnce ==
    [][agent'.stage < agent.stage =>
          \/ \E t \in ChatTurns : pc[t] = "ready" /\ job[t].decision.latest
          \/ \E u \in ChatTurns : pc[u] = "unmarked"
          \/ \E s \in Saves : saving[s] = "saved" /\ ~seen[s].init]_chatVars

(* The turn that confirms the mode brings what the fast path has noted when it *)
(* put the question: docs/架构与流程/planning-guardrails.md:49 asks for it.    *)
Noted(k) ==
    Len(dialogue) > 1 /\ dialogue[2].role = "assistant" /\ dialogue[2].facts.req[k] # 0

ConfirmedModeBringsTheFacts ==
    [][\A t \in ChatTurns :
          /\ pc[t] = "ready" /\ pc'[t] = "running"
          /\ job[t].decision.sure /\ job[t].decision.latest
          => \A k \in Requirements : Noted(k) => agent'.req[k] # 0]_chatVars
====
