# ZhiXing travel planner: TLA+ models, checks and proofs

ZhiXing is a workbench for travel agencies: a chat agent (FastAPI, LangGraph)
that plans trips, and a transactional back office for branches, customers,
quotes, orders and their cancellation. The agent's texts are not something to
model. What is worth modelling is what has to stay right while several people,
requests and processes act at once: the lock that keeps a conversation to one
turn at a time, the turns themselves and the plan they write, the rules that
keep an order, its review, its cancellation and the customer together, the
desk's row locks, and the small services every turn passes through.

Paths are relative to the repository's root.

## Inventory

| Part | State it keeps | Operations | Meets | What is hard |
|---|---|---|---|---|
| **Conversation lock** `app/core/session_lock.py` | per process: an asyncio lock and a snapshot per conversation, a guard, a Redis cooldown; shared: a Redis key with a TTL | acquire, auto-renew, release, expire, degrade | called by `app/api/v1/chat.py` around every turn | task interleavings, expiry against renewal, lost answers, crashes, two tables after a degradation |
| **Chat turns** `app/api/v1/chat.py`, `app/core/intent.py` | messages, the conversation's JSON column, what the checkpoint says of the mode | a turn: quota, lock, messages, split, fast answer, seed, agent, answer | lock, workflow | a turn ends anywhere, drafts are saved meanwhile |
| **Workflow** `app/tools/state_transition.py`, `app/core/middleware.py`, `app/agents/handoffs/step_config.py` | the travel state of a conversation | one tool per planning step, two workflows, rollbacks, drafts | chat seeds it, the middleware gates it | rollback, a changed requirement, a change of the mode |
| **Quotes and orders** `app/agency/transaction_service.py` | quote, order, order events, idempotency records | create, issue, accept a quote; create, submit an order | locks the customer row first | state read before the lock, retries, expiry of a quote |
| **Order review** `app/agency/order_review_service.py` | review bound to an order's revision | approve, reject | order, customer | late decisions, stuck reviews |
| **Cancellation** `app/agency/cancellation_service.py` | case, results, reconciliations | request, review, record a result, reconcile, resume | order, payment and fulfillment ledgers | long protocols of several people, exposure that changes meanwhile |
| **Settlement** `app/agency/customer_transaction_settlement.py` | none | settle a customer's quotes and orders | run by deactivation and withdrawn consent | meets orders in any state |
| **Customer lifecycle, claim, consent** `app/agency/customer_lifecycle_service.py`, `customer_claim_service.py` | customer, invitation, consent record, advisor assignment | register, invite, claim, consent, activate, deactivate, assign | settlement | single use, expiry, coming back |
| **Branches, grants, transfer** `app/agency/branch_administration.py`, `branch_authorization.py`, `customer_branch_transfer.py` | branch, role grants | grant, revoke, close, transfer a customer | every authorised command | lock order, closing under work in progress |
| **Database guards** `app/models/*_guards_frozen.py` | none | triggers on the tables above | all services | a second statement of the same rules |
| **Approval governance** `app/core/approval.py` | approvals and their events, in the database or in memory | mark, approve, reject, expire | tool guard | no row lock, fallback store |
| **Rate limit** `app/core/rate_limit.py` | a counter per client and window | increment | middleware | INCR and EXPIRE apart, fallback |
| **Tool execution guard** `app/tools/execution_guard.py` | loop guard per turn, audit log | begin, finish, fail a call | agent state | parallel tools, pruning |
| **MCP clients** `app/mcp_core/client.py` | clients, cached tools, status | load, session, close | tools | concurrent loads and failures |
| **Long-term memory** `app/core/store.py`, `app/tools/memory_tools.py` | two documents per user in the store | read, change and write a document whole | tools of all the user's conversations | updates of two conversations cross, a failed read looks like an empty profile |
| **Execution gate** `app/agency/transaction_policy.py` | none | answers whether external actions are allowed | | nothing to interleave |
| **RAG, reports, maps, evaluation, scripts** | | text and data transformation | | not modelled |

The hazards, each at its line with the properties that would catch it, are in
`PROJECT.json`.

## Modules

| Module | Models |
|---|---|
| `ConversationMutex` | the abstract promise of the lock: turns start and stop, one per conversation |
| `LocalSessionLock` | `LocalSessionLockManager` and its lease, one asyncio task step at a time |
| `SessionLock` | the facade of several processes over one Redis, call by call |
| `TravelState` | the travel state of a conversation and its types |
| `StepTools` | which tools a model call is offered: step tables, gates, forced tools |
| `Workflow`, `WorkflowProgress` | the tools, the seed and the merges of the chat; a user who lets the plan finish |
| `FastPath`, `ChatTurn` | what a turn concludes from a message and the row; the turns of a conversation, await by await |
| `AgencyStore`, `AgencyOrders`, `Cancellation`, `Agency` | orders, review, ledgers, cases and settlement, one action per command |
| `AgencyGuards` | the triggers on orders, ledgers, reviews, cases and results, as a specification of their own |
| `DeskTables`, `Desk` | the desk's tables and every command on them as one atomic step |
| `DeskLocks` | the same commands as transactions that read and lock row by row |
| `DeskGuards` | the triggers on branches, customers, invitations and assignments |
| `Approvals`, `RateLimit`, `ToolGuard`, `McpClients` | one small service each |
| `UserMemory` | the two documents and the tools that update them |
| `AgentTurn` | the model calls of a message about transport and lodging: tools offered and forced, selections refused until a query |
| `LocalSessionLockProofs`, `SessionLockProofs`, `AgencyProofs`, `WorkflowProofs`, `DeskProofs`, `DeskLocksProofs`, `ChatProofs`, `ServicesProofs` | theorems and proofs |
| `MC*` | instances for TLC |

How they compose: `SessionLock` takes from `LocalSessionLock` the fact that
with a wait of 0 nobody queues, and both implement `ConversationMutex`;
`ChatTurn` takes the lock for its turns as that mutex promises it. `Workflow` runs inside one
turn, so its actions never overlap. `Agency` and `DeskLocks` look at the back
office from two sides: the first at one order with everything that may happen to
it, the second at whole branches with the order reduced to its status. Each
implements the triggers of the database on its own tables, and `DeskLocks`
implements `Desk`, its own commands made atomic.

### The conversation lock

`LocalSessionLock` takes a step of one task between two suspension points as a
step of the model. The manager's guard and each conversation's lock are
asyncio locks: a free lock with an empty queue is taken without suspending, a
woken waiter stays first in the queue until it runs. `pc` says where a turn is
suspended; `active`, `ttl` are the manager's snapshots; `renewing`, `renewIn`
the renewal task, started by the caller with no suspension after the lease.
`Cancel` is a `CancelledError` at a suspension point: the task leaves its
queues, and keeps whatever the code has no handler for.

`SessionLock` composes the processes. With the default wait of 0 the local
manager never suspends (`NobodyQueues`, proved below), so its operations are
single steps here. A Redis call is sent in one step and answered in another;
it may fail having been applied or not. `Disconnect` is the client going away
during a call, `Crash` the process dying with its tables and not its keys.

Time is a `Tick`. `PromptLoop` says that no tick passes while a task is ready,
a call pending or a renewal due: the code's renewal interval of 30 s against a
TTL of 300 s, calls that time out after 0.5 s and a loop that is not blocked
for minutes justify it where it is TRUE; where it is FALSE, ticks pass anywhere.

Left out: `RedisSessionLockManager._active` (diagnostics only); GET and PTTL of
a busy key are one call; an owner token, a fresh uuid in the code, is the turn
itself, which is why a turn whose old token is stored somewhere does not start
again; a Redis command that timed out is applied at once or never; the polling
loop of the Redis manager for a positive wait.

### Chat turns

`ChatTurn` follows `generate_sse_stream` from one `await` to the next. A turn
asks for the lock, saves its question, decides from the message, the row's
`extra_info` and the two newest messages (`FastPath`) whether to answer itself
or to run the agent, possibly seeds the agent's thread, runs it, saves the
answer, and marks the thread as initialized. `extra` is the row; `seen[t]` is
what a turn has read of it and will write back whole; `agent` is the part of
the checkpoint that the chat writes. `Saves` are requests of the page that
store an edited draft in the same column without the lock.

A message is what the code's extractors make of it: a value per requirement, a
signal for a mode, and whether it is a bare "fine, go on". `"trip"` stands for
destination, days, people and budget told together, `"date"` for what the agency
needs besides. At most two requests are under way at once, `MaxTroubles` bounds
early ends and draft saves, and the agent works once per turn and writes a
draft only when it progresses. A failed merge into the checkpoint and a failed
write of the fast facts, both swallowed by the code, are left out.

### The travel workflow

`Workflow` has one action per tool that changes the plan, the mode or the step
(`state_transition.py`), guarded by what the middleware offers to some words of
the user (`StepTools!Usable`), and the two writes of the chat around them. A
model call uses one tool (`parallel_tool_calls=False`). A plan is one entry per
planning step: what matters is whether a product is there, and for itinerary
and budget the destination and the days they were made for. `trips` is a history
variable: it tells whether the plan is known to mix two trips, because a rollback kept
the old map draft or a requirement was replaced under a finished itinerary.

Words are what the heuristics read in them (`Texts`); any words may come at any
time. Query tools, evidence audits and prompts change no modelled field.

### The agency

Every command is one database transaction that locks the customer's row first
(`_get_transaction_customer`, `_get_customer_binding`, `_get_customer`), then
re-reads what it decides on, so the commands on one customer's rows are
serialised and each is one action. Its guard is the conjunction of the checks
in the code, its effect everything the transaction writes to the modelled
columns.

- An order is named by its quote (`create_order` makes at most one). Its
  `revision` is the version column: every update advances it (`Moved`).
- `exposure` is what `payment_status`, `fulfillment_status` and
  `external_action_enabled` of the order show, `ledger` what its payment and
  fulfillment rows show, both as the set of actions that
  `_derive_required_actions` reads from them.
- Triggers of `0007` freeze the ledgers (`Frozen`); outside the freeze
  `ledger_write` puts any contents there: no service of the repository writes
  them yet, the tests and the coming execution services do.
- `OldOrders` may be rows older than the order trigger of `0004`: statuses no
  present service sets, and exposed columns.
- `Roles` gives each person all the roles they ever hold, so that a change of
  role between two steps is covered; advisors and agency-wide administrators
  count as managers.

`AgencyGuards` is written from the triggers alone: for each table, which rows
may appear and which may replace which, given the other tables. `Agency` implements it
(`ImplementsGuards`), which is how a service and a trigger that state the same
rule differently would show.

Left out here: idempotent replays and `expected_revision` (a command with a
stale revision is refused and changes nothing), amounts and currencies, event
rows, `blocked` customers (no service sets the status). The consent statuses are
granted or not; one case per order is kept, the latest, the earlier ones having
been rejected.

### The desk

`DeskTables` keeps customers (branch, status, account), invitations (status, branch,
target, expiry), consents, advisors, grants, branches, one piece of work per customer (a quote or an order,
perhaps with a case) and the idempotency records. `Desk` runs each command as
one step. `DeskLocks` runs the same commands as the services do: a
transaction (`Txns`) begins with a command and a key, looks rows up without a lock,
locks them one by one in the code's order, re-checks, writes everything at its
commit and releases; it may be refused, lose its answer and be retried with
the same key, or crash. Isolation is READ COMMITTED: a read sees the
last commit, a locked read is made again after the wait. A lock is granted to
whoever asks when it is free (no queue); `WaitsFor` is the graph of who waits
for whom.

The refinement `DeskLocks => Desk` maps a transaction to its command at the
commit. One read is not covered by any lock: the time at which an invitation
expires. `InvitationsSeen` maps an invitation that expired after the
transaction had looked at the clock to one that has not expired yet.

An invitation keeps the branch it was issued in (`customer_claim_service.py:175`),
as its customer may be in another one by the time it is used. A claim reads
this branch first and compares it with the customer it then locks
(`Preview`, `BoundCustomer`; lines 342-363), a revoke asks for it
(`OwnInvitation`; 289), a closure counts by it (`NoPendingInvitation`,
`branch_administration.py:609-617`), the triggers compare it (`DeskGuards`), and
transfers do not change it: that it is the customer's branch while the invitation
is pending is part of `WorkIsAtHome`, checked and proved. Its mutant is a transfer that
does not count pending invitations.

An order, its ledgers, its review and its case are one row of `work`, locked after
the customer, and the locks that triggers take are left out: `NoCircularWait`
speaks of customers, branches, grants, members, users, invitations, keys and that
row, not of the order among the rows of one order.

`DeskGuards` states the triggers of `0004`, `0005`, `0007` and `0008` on these
tables. A trigger reads `clock_timestamp()` later than its service did, so a
claim in the last moment may still be refused by the database; that refusal is
a rollback, which the model has anyway. Consent records, events, revisions and
timestamps other than the expiry are left out.

### The small services

- `Approvals`: requests read an approval and decide or expire it without a row
  lock or version; a decision and a listing take their time before they read, a
  `get` afterwards, and that time is all that orders the events. One failed
  statement moves the process to its memory store; a restart empties that.
- `RateLimit`: INCR and EXPIRE of one window, cut off by the timeout, and the
  local counters of two processes after a fallback.
- `ToolGuard`: the guard of a turn in the agent state and in process memory,
  parallel calls that start from the same state, pruning of old turns.
- `McpClients`: loads with retries, sessions, forced loads, cancellation, and
  `close` on one server's client, cached tools and status.
- `UserMemory`: the profile and the travel history of one user, read and written
  whole by the memory tools of two conversations; reads and writes fail, and a
  write that is cut off may have been applied. What the tools refuse (words about
  this trip only) is what `classify_memory_candidate` refuses; the average price
  is kept as the set of prices that went into it.
- `AgentTurn`: what `StepConfigMiddleware.awrap_model_call` does between the model
  calls of one user message at the destination, transport and lodging stages of
  the free workflow. `Available` are the tools it offers, `TransportRules` and
  `AccommodationRules` its chains of conditions in their order, `Given` what it leaves and the tool
  it forces; each tool is an action, and a selection is refused as
  `audit_required` until the thread holds the query that hedged words call for.
  Messages are the set of keyword lists they match (`Sayings`). Assumed: the mode
  is confirmed as free planning, the model supports and obeys `tool_choice`
  (without it the middleware only asks, and nothing is promised), calls one tool
  at a time as the request demands, and calls one more tool unforced in a
  turn; no summary cuts the thread; words about reports, routes, prices or
  progress, which open tools of their own, are left out, and so is the
  narrowing of the list to a tool that is forced anyway.

## Runs

| Run | Shows | Instance |
|---|---|---|
| `Mutex` | with a wait of 0, in one process and over two processes and Redis, with a crash, disconnects and failing acquires and releases: `ImplementsMutex`, `RedisImplementsMutex` (the same of `SessionLock`); `LockHasOwner`: flag and snapshot agree | 3 turns (two on one process: an owner, a rival, a bystander), 2 conversations, 2 faults, 1 crash, TTL 3, renewal 2: TTL and interval differ by one tick, the least the code allows |
| `LocalWaiting` | `LiveLeaseEndsWithItsTurn`, `AbandonedLeaseExpires`, with waiting, disconnects and a slow loop, under fairness | 3 turns on 1 conversation: owner, waiter, newcomer |
| `LocalGuardStuck` | violation of `AcquireAnswers` | the same, without disconnects |
| `RedisFaulty` | `RunningTurnKeepsItsKey`, `OrphanKeyExpires` with any call failing, degradation, a crash and late renewals, under fairness | 3 turns, 1 fault, 1 crash, TTL 2 |
| `RedisDegraded` | violation of `ProcessRunsOneTurn` | 1 fault |
| `AgencyCase` | `OrderFollowsCase`, `StatusIsProgress`, `CompletedIsVerified`, `NoSecondSuccess`, `ReviewDecidable`, `InactiveIsSettled`, `EndedOrdersStay`, `ReviewDiesWithRelationship`, `ImplementsGuards` | 1 order, perhaps an old one, 5 people (a customer who is an approver, a clerk who records and audits), 3 results: a failure, its repair and the other action |
| `Workflow` | `DerivedNeedsPremises`, `StepsHaveWhatTheyRequire`, `OneTrip`, `PlanFinishes` | 2 destinations, trips of 1 or 2 days: an old and a new trip that differ in each |
| `WorkflowRollback` | violation of `OldTripStaysOutOfReports` | the same |
| `Desk` | `WorkIsAtHome`, `ClosedIsEmpty`, `ApprovalsHaveAnApprover`, `AdvisorsHoldTheirRole`, `OneCustomerPerAccount`, `HappensOnce`, `NoCircularWait`, `ImplementsDesk`, `ImplementsGuards` | 2 branches, 2 customers, 2 transactions, 22 commands in five days' scripts |
| `Services` | the chat turns and the small services, explored one at a time: `AnswersFollowTheirQuestions`, `FirstRunKnowsTheFacts`, `ProgressIsSeededOnce`; `WhatIsAskedIsRecorded`; `HistoryExplainsRow`, `DecidedUnlessOverlapping`, `ProductionKeepsMarks`; `RunsOncePerTurn`; `LimitPerWindow`; `HealthTellsTheCache`; `MemoryKeepsItsWord` | 3 turns of a conversation and 1 trouble; 2 messages; 1 approval, 2 operators, 2 requests; see `Services.cfg` for the others |
| `ApprovalsOverlap` | violation of `StatusIsLastEvent` | 1 approval, 2 requests |
| `ChatNoted` | violation of `ConfirmedModeBringsTheFacts` | 3 turns, no trouble |

`Desk` has five starting points (`MCDesk`), each a day with the commands that
meet on it: a branch that is closed under its customers, an order under review,
the same order to be cancelled, two prospects invited under one account, and
customers that move between branches. Any two of a day's commands overlap, in
any order, again and again; two transactions are the least that can block each
other, and the commands of different days share no row they both lock. The
transactions are interchangeable (`SYMMETRY`), no property names one.

Bounds by name: `MaxFaults`, `MaxCrashes` (Redis calls that fail, processes
that die), `MaxRecords` (results of one case), `MaxChatTurns`, `MaxTroubles`,
`Lookback` (2 in `Services`, 5 in the code: how many recent messages the fast
path looks at), `LastStage` (how far a plan goes), `DailyLimit` (the quota,
which is off by default and never refuses with three turns), `MaxClock` (how
often approval requests take the time: each of two that overlap once); `TTL`,
`RenewInterval`, `Cooldown` in ticks. `MCServices` and `MCMutex` put parts beside each
other that share no step; a variable says which of them a behaviour explores. Revisions need no bound: a case sends its
order round only through a result, and results are bounded.

`CHECK_DEADLOCK FALSE` in `Workflow` and `WorkflowRollback` (a conversation
whose report is written may stop; when a call raises, nothing is offered), in
`Services`, `ApprovalsOverlap` and `ChatNoted` (bounded requests come to an end).

Fairness. For the lock (`FairSpec` in `LocalWaiting`, `LocalGuardStuck`,
`RedisFaulty`): the event loop runs every task that is ready, a `wait_for`
deadline passes, a Redis call is answered or fails (each has a 0.5 s timeout),
a turn ends (its model and tool calls have timeouts) and time goes on. No
client is assumed to come, or to leave. For the workflow (`PlanFinishes`): from
some point on the user is settled and says what the next step asks for, and
the model uses the tool it is offered, which the prompts ask of it and
`tool_choice` forces in part of the calls. Nothing is assumed of a user who
changes their mind for ever.

### What the violations show

1. **A positive wait can stop the process's lock manager** (`LocalGuardStuck`).
   A turn waits in `wait_for(lock.acquire())`; the owner releases; before the
   waiter runs, a newcomer sees the lock free, and awaits `lock.acquire()` with
   the guard in hand, behind the waiter; the waiter gets the lock and awaits
   the guard. The default `SESSION_LOCK_ACQUIRE_WAIT_SECONDS=0` never gets there.
2. **Degradation does not serialise the process** (`RedisDegraded`), which
   `docs/架构与流程/session-consistency.md:65` says it does: the local table does
   not know the process's own Redis leases.
3. **The old trip's draft gets into the new trip's report**
   (`WorkflowRollback`), which `docs/架构与流程/state-schema-contract.md:107` wants
   excluded: no rollback clears `journey_plan`, and the itinerary takes its days
   from it whatever destination has been chosen since.
4. **The mode is confirmed a turn later than asked** (`ChatNoted`): the
   facts noted by the fast path stay outside the agent's thread, though
   `docs/架构与流程/planning-guardrails.md:49` says the confirmation injects them,
   because the turn in between has marked the thread as initialized.
5. **An approval's status contradicts its history** (`ApprovalsOverlap`),
   though `docs/治理与可观测/approval-governance.md:174` calls the status derived
   and the events what is to be trusted. Events are listed by `created_at`, the time a
   decision took before it read the row; of two that overlap, the earlier time may
   be committed last. What does hold is `HistoryExplainsRow`: the row is what one of its
   events says, found by `decided_at`.

### Observations without a run

Things the models show or that reading for them turned up, which contradict no
sentence of the repository clearly enough for a violation, or lie outside a
model.

- *Lock.* One failed renewal ends the renewal (`session_lock.py:169-175`), so a
  TTL of several intervals does not absorb the jitter it is recommended for
  (`session-consistency.md:136`). With a positive wait and a disconnect between
  the grant of the lock and the lease, the flag stays set without a snapshot,
  which nothing expires; `LockHasOwner` is checked and proved for a wait of 0.
- *Agency.* Settlement looks at the order's columns only: an order whose
  ledgers show a payment is cancelled outright while a case awaits approval, and
  no new case can be filed, as `agency-transaction-domain.md:124` suggests. An old draft
  whose columns show exposure can be submitted and then neither approved nor
  rejected (`ReviewDecidable` is stated for orders without such columns).
- *Desk.* A grant cannot be created in an inactive branch nor the branch
  reactivated, while roles other than the approver's may be revoked with a case
  pending: such a branch can never be closed. An invitation holds the
  row of the user it invites, and each command's event needs the row of its own
  actor: two managers who invite each other, or one who invites somebody at work
  on the same customer, wait for each other's rows. `NoCircularWait` excepts
  exactly that (`InvitesActorOf`), and the documented lock orders
  (`agency-transaction-domain.md:89,122`) do not cover invitations.
- *Approvals.* Two overlapping decisions are both answered with success though
  `approval-governance.md:108` lets only a pending approval be decided, and a
  listing may expire an approval granted meanwhile (`DecidedUnlessOverlapping`
  excuses both; violation 5 shows what becomes of the history).
  Tool-marked requests live in memory even in production. Readiness never
  recovers from one database error until a restart.
- *Tools.* Query tools for trains, flights and driving and the MCP tools call
  the guard without their runtime, so without a turn, and are not deduplicated
  though they are on its list; RAG tools leave no trace in the state. A turn that is
  pruned from the memory (`execution_guard.py:131`) runs a call again that is under
  way or leaves no trace: `RunsOncePerTurn` starts to count anew there.
- *Rate limit.* Local buckets are never removed; a lost EXPIRE leaves the
  window's key for ever (`rate_limit.py:85`: memory, of which `LimitPerWindow` says nothing),
  and a late INCR may restart the counter of an expired window.
- *MCP.* A retry that sleeps leaves "healthy" over an empty cache, and for good
  when that load is cancelled. A load that fails pops the client another load or an open
  session is using (`client.py:611`); who uses which client is not modelled, and
  `HealthTellsTheCache` speaks of cached tools and status alone.
- *Workflow.* `record_requirement`, opened by words at any step, keeps every
  product downstream, and in the agency's workflow a changed wish never reaches
  the plan. A regenerated itinerary keeps the old budget. `confirmed_facts`,
  `journey_plan` and the selected restaurants survive every rollback. Confirming the
  agency before a requirement and then asking for the report ends in a
  `ValueError`. When the requirement has outgrown the itinerary, the request for a
  report offers nothing until the budget is asked for again. While a mode awaits
  confirmation all tools are cleared, and an explicit request for progress
  opens one again (`middleware.py:3140-3160`).
- *Chat.* An idle timeout, a disconnect or a failed marker leaves the thread
  unmarked, and the next confirmed turn seeds it again, replacing the
  requirement. An agency user who changes a fact after the start is asked for
  the date by the fast reply. A draft saved by the page is overwritten by a
  running turn's own draft, and any write of the row may restore an older one.
  `created_at` is the start of a transaction, so a question may be dated before
  the previous answer. A deleted conversation can still be written to. The quota
  is checked before it is counted.
- *Chat row.* `conversation.extra_info` is read, changed and written whole at
  several places of a turn (`chat.py:970-1012`, `1627-1667`, `2698-2784`) with
  awaits in between: what another request wrote meanwhile is lost.
- *Memory.* A read that fails answers with an empty profile
  (`store.py:155-157`), which the update then saves: one failed read erases the
  memory. Overlapping updates of two conversations lose facts in the same way. `MemoryKeepsItsWord`
  excuses a document from then on.
- *Browser client.* `switchConversation` and `loadApprovals` apply an answer
  that comes late to whatever is shown by then; `sendMessage` tests `isLoading`
  before its awaits, so a double click sends twice.
- *Lodging before transport.* `middleware.py:2899-2916` withholds the hotel query
  from a message that asks to verify hotels while no transport is recorded, but
  the intent of the same message puts it back (`2946-2953`): with words that
  only the intent knows ("客栈", "安静") the query is even forced at the transport
  stage. That the lodging waits for a message of its own after the transport was
  recorded (`_post_transport_accommodation_instruction`) holds while that
  tool's result is the newest message: any tool called in between ends it.
- *Hedged lodging.* `_runtime_recent_human_text` looks at eight messages, the
  model's and the tools' included. A message that asks for transport and lodging
  and is hedged has left that window after four calls, and the lodging is then
  recorded without a query; `WhatIsAskedIsRecorded` therefore speaks of turns
  that begin at the stage. `_runtime_has_tool_result` looks at the whole
  thread, so that a query for a destination given up counts for the next one.

## Proofs

`tlapm` checks the proof modules. The theorems hold for every value of the
constants that the modules' named assumptions allow.

**`LocalSessionLockProofs`** assumes `~Wait` and `PromptLoop`, but for its last
theorem. `ImplementsMutex`
is not inductive: that no second turn gets the lock depends on the owner's
lease not expiring, which depends on its renewal. `IInv` adds
- `NobodyQueues`: no task is ever suspended on the guard, because nothing
  awaits inside it when the lock is free with nobody queued;
- `LockIsLeased`: a set lock has a snapshot, and only a set lock has one;
- `TurnsOwnLeases`: a running turn owns the snapshot of its conversation, its
  renewal sleeps, and the snapshot has `TTL - RenewInterval` ticks more than
  the renewal has left, so the renewal is due before the lease ends.

One lemma per action shows that it keeps `IInv`; `StepsThatHappen` leaves the
suspended variants out. `LockHasOwner` follows, and `OneTurnPerConversation`
maps every step to a `Start`, a `Stop` or a stutter of `ConversationMutex`.

`LiveLeaseEndsWithItsTurn` is proved without these assumptions, so for waiting
turns that may be cancelled at any suspension, too. Its invariant `LeaseInv` says
that a snapshot lies under a lock that is set, and that a turn which was granted
the lock and still waits for the guard keeps it set, without a snapshot, and
alone. Every step of a turn has one of four effects on flag and snapshot
(`LeaseStep`), and none takes a live lease but that of the turn's own release.

**`SessionLockProofs`** proves for the Redis lock, over all processes,
- `ImplementsMutex`, where it is `Dependable`: no facade falls back to its local table,
  renewals succeed and the loop is prompt. All other calls may fail, applied or
  not, and processes may crash. The invariant is the local lock's:
  a running turn owns the key of its conversation, with `TTL - RenewInterval` ticks
  more than its renewal has left. Where one of the three is missing, two
  processes can run a conversation at once: that is what the documentation
  says of a degradation, and what a TTL means;
- `RunningTurnKeepsItsKey` in every case, from type correctness alone: what
  removes a key compares its owner first, and a turn releases only when it has ended.

**`AgencyProofs`** proves `TypeOK`, then for each case `CaseInv`, which is
- `FollowsCase`, what `OrderFollowsCase` says of that case;
- `BoundToOrder`: a case waiting for its review names a revision its order has
  had and, while that is still the order's revision, the order is in a status
  in which a request may be made. Approval compares the revisions, so this is
  what tells the order's status at that moment;
- `VouchedFor`: the reviewer of an approved or completed case is neither its
  author nor the buyer, a reconciled result was reconciled by somebody other
  than its recorder, and a completed case has nothing left to do.

`CaseSteps` and `OrderSteps` reduce every action to what it may do to one case
and one order, so that each theorem has one step per kind of step. From the
invariant follow `CompletedIsVerified` and `EndedOrdersStay`;
`InactiveIsSettled` and `ReviewDiesWithRelationship` have arguments of their
own over the customer's status.

Two further invariants cover what approvers see. `ResultsInv` relates the list
of a case's results to its status: results are of the actions the case needs, a
success comes before another result of its action only if it was contradicted,
and what `_progress` derives from the list is the status, `manual_intervention`
counting as pending. `StatusIsProgress` and `NoSecondSuccess` are parts of it,
but neither is inductive: that a new result keeps the status true depends on
where the earlier successes stand in the list. `ReviewBound` says that an order
under review has a pending review of its very revision, an approver beside the
buyer, and no open case; `ReviewDecidable` follows, and the two facts about the
case and the revision are what keeps the review from being orphaned.

`ImplementsGuards` (`TriggersAcceptServices`) rests on both: that a write of a
service passes the triggers of its table follows for cases, results and reviews
from `CaseInv` and `ReviewBound`, for orders and ledgers from two facts about
customers and quotes: an active customer has consented, and a quote that does not exist
has not expired.

**`WorkflowProofs`** proves `TypeOK` and then two invariants. `StepInv`
joins `DerivedNeedsPremises` and `StepsHaveWhatTheyRequire`, neither of which
is inductive alone: a tool keeps the premises because its step has what it
requires, and a step has that because products keep their premises through
every rollback. `TripInv` is `OneTrip` with what the state says of the draft.

**`DeskProofs`** proves `Desk`'s types and `DeskInv`, the conjunction of the
five properties of its tables with `WorkNeedsACustomer` (open work belongs to an active
customer): closing a branch is safe because nobody's work can be there without
its customer, and a transfer because work and assignments move or end with the
customer. Its second half proves that `Desk` implements `DeskGuards`
(`TriggersAcceptCommands`), over the invariant `Bindings`: an account is bound
only through a claimed invitation, and an unclaimed customer is a mere prospect.

**`DeskLocksProofs`** proves `HappensOnce` for any number of transactions. Its
invariant `KeyInv` says that a transaction past the step of its Idempotency-Key
holds the key's row until it ends and that its request has not taken effect
(`KeysAreHeld`), that conflicting locks exclude each other (`LocksExclude`),
and that the commands whose steps depend on the customer's account hold the
customer (`CustomersAreHeld`): without the last, the step list could change
under a transaction, and with it the place of the key.

Its second part proves that `DeskLocks` implements `Desk`
(`TransactionsAreCommands`) and `DeskGuards` (`TriggersAcceptTransactions`), and
from there that the five properties hold in every state between two steps of
transactions. The argument is that of strict two-phase locking, for locks
that stand for more than their row: a customer's row is locked for everything
that belongs to the customer, a branch's row for its status, its grants and, locked for
update, all its customers.
- `Protected(held)` lists what nobody else may change while these locks are
  held; `Covered(mine)` that a commit holds what it needs against everybody else.
  There is one lemma per command for the second, and as locks exclude each other,
  a covered commit leaves all other transactions protected.
- `Found` is the invariant about a transaction under way: each step it has
  passed would pass again, now. Whatever is protected keeps it so.
- Two reads are made without a lock that protects them: the clock, which lets
  an invitation expire, and the search for approvers, which goes by the branch of
  the work while the branch that is held is the customer's. `Found` excepts that one step of a list, and
  says with `Remains` what is left of it. For the clock this is why the
  refinement maps invitations by `InvitationsSeen`; for the approvers it is
  that work is in its customer's branch (`WorkIsAtHome`): the two are one. So the
  refinement and the properties of the desk are proved together, in one
  invariant (`RefInv`): neither stands without the other.

At the commit all steps would pass again, hence the guard of the command in
`Desk` holds and its writes are the command's.

Its third part proves `NoCircularWait` for circles of any length
(`CircularWaitsInviteAnActor`). There is no order of all rows to appeal to: a
revoked grant is locked before the actor's membership, a granted one after it, and an
invitation locks its target's other invitations, whosever they are. Instead,
- `Wants` says which command asks for which row at which of its steps, in which
  mode; `EveryStepAsks` that the step lists do no more than this;
- `Had` is what has been asked for and got by a command that went on: nobody holds
  the shared membership of an approver or advisor but a few commands of the staff, and
  nobody the invitation of another customer. `HoldInv` says that a transaction
  holds no lock but those it `Had`; it is inductive because the
  customer, whose row tells the branch and the account, is locked first and stays
  as he is until the transaction ends (from `RefInv`).
- A circle without the excepted invitation is `Tangled`. Kind by kind, a row is
  excluded as one that somebody in it waits for. Customers, keys and work rows: two commands
  on one customer conflict in their first lock already, so one of
  them holds nothing. The actor's user row (`NobodyCommits`): held against him
  only by an invitation of himself. The actor's own membership (`NobodyWantsMember`), then
  an approver (`NobodyWantsApprover`) and the rows of somebody who gets or
  loses a role or a customer (`NobodyWantsPeople`): who holds these has
  nothing left to wait for but what is excluded already. Then invitations and
  users. What remains are branches; they are held against each other only by transfers that wait
  for their upper branch (`AllMove`), and whoever waits for a transfer wants its
  lower branch and so has a lesser upper one: nobody waits for the transfer whose
  upper branch is the least (`NothingIsTangled`).

That proof found an error of the model, which was corrected: who manages was a step
that any member passed, so that an approver could manage and grant a role to
another approver who did the same. A user has one role in an agency, and
`require_agency_wide` lets only owners and admins on (`branch_authorization.py:98-118`),
whose rows a grant of a role never locks (`branch_administration.py:312-319`): now
`Manager` asks for that. The grants of approvers and advisors are the ones modelled.

**`ChatProofs`** proves `AnswersFollowTheirQuestions` for any number of turns:
a turn between its question and its answer is the one that holds the lock
(`LockIsHeld`), and then the last saved message is its question
(`QuestionIsLast`). On it stands a second invariant, `ChatInv`, for the two
action properties about the seed of the agent:
- `AnswersAddUp`, `JobsAddUp` (for `FirstRunKnowsTheFacts`): as long as no turn
  of the agent has run, each answer is one of the fast path, has facts, and these
  hold all that was told before it; so the last answer that has facts is the last
  answer, whatever `Lookback` is, and a turn that derives its facts from it knows
  everything. It must also seed the agent, which is why no row or copy of a
  row may carry the marker yet (`NothingIsMarked`).
- `MarkedUnlessExcused` (for `ProgressIsSeededOnce`): a plan that has moved on is
  behind the marker, in the row and in the copy of whoever is about to write
  the row, or there is an excuse. The second half is what the unlocked
  read-change-write of the column makes necessary.

Its third part is about `AgentTurn`. `WhatIsAskedIsRecorded` follows from
`TurnInv`, which tells for each of the two selections how far the turn has come: its calls
so far are the selection, its query, or both (`Underway`), or the selection has
been called past its demand (`Settled`). The steps are the forced ones
(`TransportIsForced`, `RoomIsForced`): what the middleware allows in each of
these situations is one tool, and it is the next one.

**`ServicesProofs`** has one inductive invariant per service.
- Approvals (`ApprovalsInv`): a request about to write without a lock holds
  copies that were pending, and a row without events is pending. The UPDATE of such
  a request sets every column but, at times, who decided, so the row is what its
  event says. This carries `HistoryExplainsRow`, `ProductionKeepsMarks` and
  `DecidedUnlessOverlapping`.
- MCP clients (`McpInv`): a load under way has made an attempt, which tells a
  load that may still fail from one that never began; with it
  `HealthTellsTheCache` is inductive.
- Rate limit (`RateInv`): requests counted in one window have been told
  different counts up to the counter, which stays while its window lasts, so
  at most `Limit` of them are admitted (an injection into `1..Limit`); a bucket
  counts at least those its process admitted.
- Tool guard (`ToolInv`): what ran is known to the memory or to the state, and
  what the memory knows of a recording key, the state knows or will know when
  the step ends. The second is what pruning the memory relies on.
- Memory (`MemoryInv`): what has been promised is in the store and in every copy
  that some session is about to write over it, unless updates overlapped.

What the theorems assume are the named assumptions of the modules, which TLC
evaluates in the runs: sets of constants are disjoint and bounds are naturals
(`DeskConstants`, `BranchIds`, `ApprovalsAssumption`, `McpAssumption`,
`RateAssumption`, `BoundsAssumption`, `SavesAssumption`), or an instance is one the code can
start from (`AgencyAssumption`, `ScenariosAssumption`: the agency is at rest,
work is with its customer, requests have what their schema demands and the id of a
new customer belongs to one request). `IdleAssumption` says that the model value
for no transaction is not the record of one. Nothing is assumed finite but what a
cardinality is taken of.

Only model-checked:
- liveness (`AbandonedLeaseExpires`, `AcquireAnswers`, `OrphanKeyExpires`,
  `PlanFinishes`), which is out of the prover's reach as is `ENABLED`.

Every invariant that a passing run checks is a theorem for all values of the
constants.
The type invariants of `Agency`, `Workflow` and `Desk` are proved and not run.

## Not modelled

- *Texts*: prompts, reports, RAG, the extraction of facts from sentences; the
  models take what the extractors return.
- *Pure functions*: pricing, product and risk rules, the execution gate, the
  acceptance gate and the scripts that collect evidence: no state, nothing that
  interleaves; the repository's unit tests cover their inputs.
- *Libraries*: the checkpointer and the store, third-party code behind one call
  each.
- *Migrations* as such: a trigger is modelled for the rule it enforces, its
  installation is not.

## Plan

What comes next, in this order:

1. The browser client: conversations that are switched while answers stream.
2. The stream filters, whose state survives from chunk to chunk
   (`chat.py:266`).
3. Pure rules as functions against reference definitions: pricing, products,
   budget.
