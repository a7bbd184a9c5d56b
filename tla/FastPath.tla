---- MODULE FastPath ----
(***************************************************************************)
(* The fast path of a chat turn (src/app/api/v1/chat.py): what one message *)
(* says of the trip, how the planning mode follows from it, and what the    *)
(* turn then writes to the conversation row or seeds the agent with.  No    *)
(* state: `ChatTurn` keeps the rows.                                        *)
(*                                                                         *)
(* Facts are what `extract_fast_split_facts` and the records built from it *)
(* hold: a value per requirement (0 where it is missing), the mode, the     *)
(* workflow, whether the mode is confirmed, and of the first text they come *)
(* from ("" if none is kept) whether it named a mode.                       *)
(***************************************************************************)
EXTENDS Integers

\* "trip" stands for destination, days, people and budget, told together.
Requirements == {"trip", "date"}

NoFacts == [req  |-> [k \in Requirements |-> 0],
            mode |-> "none", flow |-> "none", sure |-> FALSE, raw |-> ""]

Confirmable == {"agency", "free"}

Over(f, g) == [k \in Requirements |-> IF g[k] # 0 THEN g[k] ELSE f[k]]

\* A mode or a workflow that is told replaces an earlier one.
Told(old, new) == IF new # "none" THEN new ELSE old

Merge(f, g) == [req  |-> Over(f.req, g.req),
                mode |-> Told(f.mode, g.mode),
                flow |-> Told(f.flow, g.flow),
                sure |-> f.sure \/ g.sure,
                raw  |-> IF f.raw # "" THEN f.raw ELSE g.raw]

HasRequirement(f) == \E k \in Requirements : f.req[k] # 0
Missing(f) == \E k \in Requirements : f.req[k] = 0

Chosen(mode) == [NoFacts EXCEPT !.mode = mode, !.flow = mode, !.sure = TRUE]

(***************************************************************************)
(* What a message says: requirements; a signal for a mode ("leaning" where *)
(* agency words come with a claim to plan oneself); a neutral "the         *)
(* requirements are right, go on".                                         *)
(***************************************************************************)
WordFacts(w) == [NoFacts EXCEPT !.req = w.req,
                                !.raw = IF w.signal = "none" THEN "open" ELSE "mode"]

\* A message updates the facts when it tells something of the trip.
Updates(w) == HasRequirement(WordFacts(w))
UpdatedBy(facts, w) == IF Updates(w) THEN Merge(facts, WordFacts(w)) ELSE facts

\* A trip without a word about the mode asks for the mode.
AsksForMode(w) == w.signal = "leaning" \/ (w.signal = "none" /\ w.req["trip"] # 0)

Undecided == [mode |-> "none", sure |-> FALSE, needs |-> FALSE, latest |-> FALSE]

StateMode(facts, ctx) ==
    LET sure == ctx.sure \/ facts.sure
        flow == Told(ctx.flow, facts.flow)
        mode == IF facts.mode \in Confirmable THEN facts.mode ELSE ctx.mode
    IN  CASE flow = "agency" -> "agency"
          [] flow = "free" /\ sure -> "free"
          [] OTHER -> IF mode \in Confirmable THEN mode ELSE "none"

PendingDefaultsToFree(w, facts, ctx) == w.neutral /\ ctx.needs /\ facts.raw # "mode"

ResolveMode(w, facts, ctx) ==
    LET sure == ctx.sure \/ facts.sure
    IN  CASE w.signal \in Confirmable ->
               [mode |-> w.signal, sure |-> TRUE, needs |-> FALSE, latest |-> TRUE]
          [] w.signal = "leaning" ->
               [mode |-> "agency", sure |-> FALSE, needs |-> TRUE, latest |-> TRUE]
          [] w.signal = "none" /\ PendingDefaultsToFree(w, facts, ctx) ->
               [mode |-> "free", sure |-> TRUE, needs |-> FALSE, latest |-> TRUE]
          [] w.signal = "none" /\ ~PendingDefaultsToFree(w, facts, ctx) /\ AsksForMode(w) ->
               [Undecided EXCEPT !.needs = TRUE, !.latest = TRUE]
          [] OTHER ->
               IF StateMode(facts, ctx) = "none" THEN Undecided
               ELSE [mode |-> StateMode(facts, ctx), sure |-> sure,
                     needs |-> ~sure, latest |-> FALSE]

(***************************************************************************)
(* The conversation row: `extra_info` with the fields the turns use.       *)
(***************************************************************************)
NoExtra == [mode |-> "none", flow |-> "none", sure |-> FALSE, init |-> FALSE,
            split |-> NoFacts, needs |-> FALSE, draft |-> "none"]

\* What a turn reads of it: the facts of the split, under the row's own keys.
\* The text they come from is not kept there.
Context(extra) ==
    [req   |-> extra.split.req,
     mode  |-> Told(extra.split.mode, extra.mode),
     flow  |-> Told(extra.split.flow, extra.flow),
     sure  |-> extra.split.sure \/ extra.sure,
     init  |-> extra.init,
     needs |-> extra.needs]

ContextFacts(ctx) == [req |-> ctx.req, mode |-> ctx.mode, flow |-> ctx.flow,
                      sure |-> ctx.sure, raw |-> ""]

Persisted(extra, facts, needs) ==
    [extra EXCEPT !.split = [facts EXCEPT !.raw = ""], !.needs = needs,
                  !.mode = IF needs THEN "pending" ELSE Told(@, facts.mode),
                  !.flow = Told(@, facts.flow),
                  !.sure = @ \/ facts.sure]

\* The agent owns the progress from now on.
(* Mutant: the marker is forgotten. *)
MarkedWithoutInit(extra, progress, sure) ==
    [extra EXCEPT !.sure = @ \/ sure,
                  !.needs = @ /\ ~sure,
                  !.mode = Told(@, progress.mode),
                  !.flow = Told(@, progress.flow)]

Marked(extra, progress, sure) ==
    [extra EXCEPT !.init = TRUE,
                  !.sure = @ \/ sure,
                  !.needs = @ /\ ~sure,
                  !.mode = Told(@, progress.mode),
                  !.flow = Told(@, progress.flow)]

\* The mode and the workflow of a turn's progress snapshot.
Progress(facts, mode) ==
    [mode |-> IF mode = "none" THEN "pending" ELSE mode,
     flow |-> IF facts.flow = "none" /\ mode \in Confirmable THEN mode ELSE facts.flow]

(***************************************************************************)
(* The branches of a turn.                                                 *)
(***************************************************************************)
SplitApplies(w, facts, ctx, questions, answers) ==
    /\ ~ctx.sure
    /\ facts = NoFacts
    /\ AsksForMode(w)
    /\ questions \in 1..2
    /\ answers = 0 \/ (answers = 1 /\ questions = 1)

JustConfirmed(facts, decision) ==
    /\ facts # NoFacts
    /\ facts.mode # "agency"
    /\ decision.sure /\ decision.latest /\ decision.mode = "agency"

AgencyFacts(w, facts, decision) ==
    IF facts # NoFacts /\ (facts.mode = "agency" \/ JustConfirmed(facts, decision))
    THEN Merge(Merge(facts, WordFacts(w)), Chosen("agency"))
    ELSE NoFacts

AgencyReplyApplies(w, facts, decision) ==
    /\ AgencyFacts(w, facts, decision) # NoFacts
    /\ Missing(AgencyFacts(w, facts, decision))
    /\ JustConfirmed(facts, decision) \/ (facts.mode = "agency" /\ Updates(w))

(* Mutant: only the turn that chooses the agency seeds. *)
SeedOnConfirmation(facts, ctx, decision) ==
    facts # NoFacts /\ decision.sure /\ JustConfirmed(facts, decision)

SeedApplies(facts, ctx, decision) ==
    /\ facts # NoFacts
    /\ decision.sure
    /\ JustConfirmed(facts, decision) \/ ~ctx.init

(***************************************************************************)
(* The agent's checkpoint: requirement, mode and how far the plan has come *)
(* (0 requirement, 1 product match, 2 and more beyond).                    *)
(***************************************************************************)
NoAgent == [req |-> NoFacts.req, mode |-> "none", stage |-> 0]

Synced(agent, w, ctx) == IF ctx.init THEN [agent EXCEPT !.req = Over(@, w.req)] ELSE agent

\* A nested dictionary has no reducer: the seed's requirement replaces the agent's.
Seeded(agent, facts, mode) ==
    [agent EXCEPT !.req = facts.req,
                  !.mode = mode,
                  !.stage = CASE mode = "agency" -> IF Missing(facts) THEN 0 ELSE 1
                              [] OTHER -> @]
====
