# afkbot in TLA+: who works on what, once

afkbot runs AI agents that work on tasks, answer chats and react to timers and
webhooks.  Its own logic, as opposed to the language model, the tools and the
transports, is mostly about *who works on what, once*: durable rows in SQLite
(or another SQL database) are claimed, leased, refreshed, finalized and swept by
several coroutines and processes, while people and the agents themselves edit
the same rows.  This directory models that logic: Task Flow, the cron and
webhook automations, the turns of a chat session, the polled channels, the
automation graph and the subagents.

All source paths are relative to `src/`.  `PROJECT.json` names, for each
definition, the lines it models, and for each hazard the line where it bites and
the properties that are about it.

Contents:
1. Inventory of the system
2. The models
3. Plan: what is done, what is left
4. Runs: what is checked, on which instances
5. Fairness
6. What is proved
7. Disagreements between the code and its documents
8. Abstractions, and what is not modelled


## 1. Inventory

### 1.1 Task Flow

*State.*  The tables `task`, `task_dependency` and `task_run`
(`afkbot/models/`).  A task has a status (`plan`, `todo`, `claimed`, `running`,
`blocked`, `review`, `completed`, `failed`, `cancelled`), an owner and possibly
a reviewer (people or employees), a schedule (`ready_at`), a reason while
blocked, and six claim columns: token, executor, the status it was claimed
from, lease, and the latest run.  A dependency says that a task waits until
another has a given status.  A run records one attempt to execute.

*Operations.*
- `TaskFlowService` (`services/task_flow/service.py`): create, update (status,
  owner, reviewer, review policy), block, approve, request changes, add and
  remove a dependency, delegate, delete a task or a whole flow.  Each runs in one
  transaction.
- `TaskFlowRuntimeService` (`runtime_service.py`): sweep expired claims; guard
  the PLAN lane; claim the next task; mark it started; run the agent turn while
  `run_with_lease_refresh` (`lease_runtime.py`) extends the lease; classify and
  persist the outcome; reconcile dependents; release for retry; persist a
  failure.  Each is a transaction of its own.
- `TaskFlowRuntimeDaemon` (`runtime_daemon.py`): a number of worker loops that
  sweep, claim and execute; `stop()` cancels them.
- `TaskFlowRepository` (`repositories/task_flow_repo.py`): the SQL statements;
  claim, refresh, finalize and release carry the token in their WHERE clause.

*Interaction.*  Only through the database.  Workers of one daemon, daemons of
several processes, people (API, CLI) and agents (tools) share the tables; a
worker keeps a snapshot (`ClaimedTaskExecution`) of what it claimed.

*What is hard.*  Between the claim and the outcome lie a whole agent turn and
four transactions; the lease can run out, the sweep can hand the task to
somebody else, people can move, reassign or delete it, the worker can be
cancelled or die, the employee can be disabled.  An employee may execute one
task at a time, and with reviewers the executor is not the owner.  Completing a
task and waking its dependents are separate transactions.

*What makes it correct.*  A task and an employee have at most one claim; claim
columns and runs agree; a stale worker changes nothing; a live lease is not
swept; claims and runs end; dependents wake, not early and not never; edges
form no cycle; agents cannot complete what must be reviewed nor occupy the PLAN
lane.

### 1.2 Automations

*Cron* (`services/automations/cron_execution.py`,
`repositories/automation_repo_claims.py`).  Rows `automation_trigger_cron` with
`next_run_at`, a claim token and `claimed_until`.  Every daemon ticks: it reads
the due rows once, then claims, runs and completes one after the other, each
under a refreshed lease.  *Hard:* one tick uses its starting time for all its
rows, however long the runs take; two daemons tick; operators pause, delete and
reschedule a row while it runs; a lease may run out under a live run.
*Correct:* a time that was executed is never due again; an automation runs once
at a time; who lost the claim advances nothing; a due time is executed in the
end.

*Webhook* (`webhook_execution.py`, `runtime_daemon.py`,
`runtime_daemon_http.py`).  The HTTP ingress validates a request, puts its event
into a bounded queue in memory and answers; worker loops claim the event on the
row of the automation (event in progress, token, lease), skip it if it is in the
table of processed events, run it and record it.  *Hard:* duplicates and
redelivery, an event that arrives while another is in progress, a full queue,
stop with a non-empty queue, restart, rotation of the token.  *Correct:* an
event is completed at most once, an automation handles one at a time, an
accepted event comes to an end.

*Interaction.*  Both run a chat turn, or the automation graph.

### 1.3 Turns of a chat session

`services/session_orchestration`, `services/agent_loop/api_runtime_*.py`,
`repositories/chat_session_turn_queue_repo.py` and `chat_turn_idempotency_repo.py`.
State: one marker for each waiting or running turn of a session, with a
heartbeat; claims and results by client message id.  Every caller (chat, API,
automations, Task Flow, subagents) polls the tables.  *Hard:* admission to the
queue is two reads and a write; a marker or claim whose heartbeat is late is
removed under a live turn; a crash leaves rows behind; the result is stored
after the turn has acted.  *Correct:* one turn of a session at a time, in the
order of arrival; a message with an id is executed once and answered alike to
all; everybody gets an end.

### 1.4 Polled channels

`services/channels`: the Telegram and the PartyFlow adapter, the coalescer, the
table of pending messages and the journal of claimed event keys.  An adapter
polls a remote service from an offset, stores what it takes, buffers the messages
of a conversation, and flushes each group into one agent turn and one reply.
*Hard:* three positions (what the remote service forgets, what is saved, what is
in memory) move at different moments; flushes of one conversation, the debounce,
retries and `stop()` interleave at every await; a crash or an error may come
between any two of them.  *Correct:* no message is lost, none is processed
twice without need, every message is answered or kept for the next start.

### 1.5 Automation graph

`services/automations/graph`: validation of a flow, a run row and node rows, a
queue of ready nodes, resolution of edges, the flag of unsafe side effects, the
fallback to a prompt.  *Hard:* joins, skipped branches, a failure after nodes
that acted.  *Correct:* a node runs after all that is before it and at most
once; the safe fallback does not repeat acts; a run gets a verdict.

### 1.6 Subagents

`services/subagents`, `repositories/subagent_task_repo.py`.  A row with a status,
a worker (process or coroutine), a child turn that the worker polls and stops;
callers wait, read, cancel or give up, from the launching service or another
one.  *Hard:* completion against cancellation against the time limit against the
overdue check of a reader; a worker killed without a word.  *Correct:* what a
caller was told stays true; the turn does not outlive its task; every task ends.

### 1.7 Components left aside

The agent loop is sequential within a turn; the models above see a turn as a
success, a failure or one of a few outcomes.  Sessions of the database and their
locks (`db/`) are the reason why a transaction is one atomic step.  LLM
providers, browser and MCP runtimes are I/O.  The Telethon user channel pushes
events into a bounded queue and uses the coalescer of 1.4 behind it.  Routing,
chat sessions, policy, credentials, memory, tools, skills, apps and diffs are
calls made within one request.  Plugins, profiles, health, setup, upgrade,
configuration, API, UI authentication and the CLI load, configure or adapt.
`PROJECT.json` names the sources of each.


## 2. The models

```
TaskStore             tables, statements on rows, scheduling, dependencies, clock
  TaskFlowService     operations of people and agents    (EXTENDS TaskStore)
  TaskFlowRuntime     sweep, claims, workers             (EXTENDS TaskStore)
    TaskFlow          both, Next, fairness, properties   (EXTENDS both)
ClaimSlots            what claims promise; TaskFlow implements it

CronAutomations       cron loops, operators, the clock
WebhookAutomations    ingress, queue, workers, operators, the daemon's life
LeasedResource        what a lease promises; both implement it

SessionTurns          idempotency claims and the queue of one session

IngressCoalescer      pending table, batches, flushes, retries
  ChannelPolling      the polling loops, the remote service, the process

AutomationGraph       validation, executor, verdict and fallback
GraphDataflow         what a run promises; AutomationGraph implements it

Subagents             rows, workers, child turns, callers

MC<module>            instances for TLC
<module>_proofs       theorems (two modules for TaskFlow)
```

Definitions marked `Broken:` are faulty variants of the definition they precede
(a dropped column, a forgotten guard).  No specification uses them.  They
document which slip each property guards against, and every property was seen to
fail with its variant.  Variables marked `history` record what happened for the
properties and guard nothing.

### 2.1 Task Flow

| Variable | Code |
|---|---|
| `task[t]` | the row of `t` in table `task`; `absent` before it is created, `deleted` after |
| `deps` | rows of `task_dependency`: `task` waits until `dep` has status `on` |
| `run[r]`, `issued` | rows of `task_run` and how many there are |
| `enabled` | employees whose descriptor says `active` |
| `worker[w]` | where the coroutine `w` is in `_execute_claimed_task`, its `ClaimedTaskExecution` and the outcome to be persisted |
| `crashes` | bound on cancellations, crashes and internal errors |

**TaskStore.**  `ClearClaim`, `UpdateRow`, `ClaimRow`, `ReleaseRow` and
`FinalizeRow` are the UPDATE statements of the repository; `HoldsClaim` is their
common WHERE clause.  `Runnable`, `Candidates` and `Shortlist` are the claim
query with its LIMIT 1; `IndexesHold` stands for the two partial unique indexes
that a claim may violate.  `Readiness`, `ReadinessAfterChange` and
`ReconcileDependents` are the three reconciliation helpers of the service.
`Reaches` is the graph search of `_ensure_no_dependency_cycle`, stated without
recursion.

**TaskFlowService.**  One action per operation with all checks and the
reconciliation that ends it.

**TaskFlowRuntime.**  A worker goes through

```
idle -SelectTask-> selected -ClaimTask-> claimed
claimed -MarkStarted-> started -BuildTarget-> executing
executing -TurnEnds-> outcome -Finalize-> settling -Settle-> idle
executing -LeaseLost-> failing -Finalize-> settlingInHandler -Settle-> idle
```

one arrow for each transaction (or for the code between two of them), with
`FinalizeLost` where the claim was lost, `Release` after a cancellation or a
start that came too late, `SettleMissing` where the finished task has been
deleted.  `TryRaises`, `Cancelled` and `Dies` strike between any two steps that
the code's `try` block covers or does not cover, respectively.
`SweepExpiredClaims`, `RefreshLease` and the clock interleave freely.

The attempt to claim is a SELECT and then an UPDATE that repeats the conditions of
the SELECT, though not the status the row was selected with.  On SQLite the SELECT
takes no lock, so `SelectTask` and what follows it are separate steps: `ClaimTask`,
`ClaimMissed` (the row is not claimable any more), `ClaimConflict` (a unique index),
`ClaimRejected` (the executor was disabled).  When the guard of the PLAN lane has a
task to block (`Guarded`), it writes first, the gate is held to the commit, and an
idle worker goes through the attempt in one step.  On PostgreSQL the SELECT locks the
row, so nothing happens to it between the two steps.

**ClaimSlots.**  The abstract promise: a task is held by at most one claim, an
employee executes at most one, tokens are used once, a claim is never handed
over.  Two actions: acquire one slot, release some.  The refinement maps a row
to its token and executor.

### 2.2 Cron automations

| Variable | Code |
|---|---|
| `now` | the wall clock, in minutes |
| `cron[a]` | the row of `automation` and its row of `automation_trigger_cron` |
| `tick[k]` | a cron loop: where it is in `tick_cron`, `now_utc`, the due rows it read and has left |
| `done`, `late` | history: times whose execution was completed; leases that ran out under a live tick |
| `faults`, `edits` | bounds |

`StartTick` reads at most `Limit` due rows.  For each, `Claim` or `Skip` (claimed
by another, or not due any more) are the outcomes of the claim statement with
its WHERE clause; then `RunEnds` and `Complete` (which computes the next time
from the schedule the tick *read*), or `CompleteConflict`; `RunFails` and
`Release`; `LeaseLost` when a refresh finds another token.  `Cancelled` and
`Dies` end a daemon at any place.  Operators `Create`, `SetStatus` (pause,
resume, delete) and `Reschedule`, which clear or keep the claim as the code does.

### 2.3 Webhook automations

| Variable | Code |
|---|---|
| `hook[h]` | the row of `automation` and its row of `automation_trigger_webhook` |
| `processed` | `automation_webhook_processed_event` |
| `request[r]` | an HTTP request and what became of its event |
| `queue`, `worker[w]`, `daemon` | `RuntimeDaemon._queue`, its worker loops, `_shutting_down` and the process |
| `clock` | leases that have run out, for the comparison with `received_at` |
| `runs`, `late` | history |

A request is validated, and `Accept`ed or `Reject`ed (a full queue, a stop);
validation and acceptance are separate steps, since the ingress awaits between
them.  A worker takes it, looks the automation up, and claims or deduplicates (the
claim does not compare the webhook token again, so a rotation after the lookup comes
too late); marks the start; runs; completes (the processed event and the released row
in one transaction) or releases.  When the claim or a release raises, the worker loop
logs it and goes on (`LoopCatches`).

`BeginShutdown` and `CancelWorkers` are the two halves of `stop()`.  A cancelled
worker releases what it had claimed and ends, unless the release finds the claim
gone or raises: the error that comes out takes the place of the cancellation, the
loop swallows it, and the worker goes on.  A release that is itself cancelled leaves
the claim to its lease.  At its timeout `stop()` cancels once more (`StopTimesOut`)
and waits for whoever is left.  `Crash` and `Restart` are the rest of the process's
life: what was in the queue is gone.

**LeasedResource.**  A resource is taken when it is free or its lease ran out,
and kept until it is given up or its lease runs out.  Rows of both kinds
implement it, token and expiry being the lease.

### 2.4 Turns of a session

| Variable | Code |
|---|---|
| `turn[r]` | a call of `run_chat_turn`: its place, its key, whether its turn succeeded, its answer, whether its turn goes on without it |
| `ids`, `status`, `stale` | `chat_session_turn_queue`: order of ids, status, old heartbeats |
| `claim`, `stored` | `chat_turn_idempotency_claim`, `chat_turn_idempotency` |
| `started`, `late`, `split` | history: turns begun; rows that aged under a live owner; rows taken upon a read no longer true |

```
looking -> claiming -> entering -> queueing -> peeked -> first -> running
looking/claiming -> waiting <-> checking -> looking            (somebody else's claim)
running -> leaving -> storing -> unclaiming -> answered | failed
```

Reads and writes of one poll are separate steps because a SQLite session takes
the write gate at its first write only: `PeekRunning` and `PeekFirst` are the two
reads of `try_mark_running`, `MarkRunning` its update.  A poll that sweeps
(`SweepPoll`) starts with a DELETE, so on SQLite it is one step; on PostgreSQL, which
has no gate, it is `Sweep` (the DELETE alone) followed by the steps of a poll.
`Raises` strikes wherever the code may raise or be cancelled, `LeaveLocked` is a
release that keeps failing, `Dies` the end of a process.

A caller with a progress sink runs its turn in a task of its own and polls the events
of the turn beside it.  When such a poll or the sink raises, the caller leaves the
slot without cancelling or awaiting that task (`ProgressRaises`): the turn is an
*orphan* until it ends (`OrphanEnds`).

### 2.5 Polled channels

| Variable | Code |
|---|---|
| `rows`, `saved` | `channel_ingress_pending` in order; the offset or cursor file |
| `cursor`, `unacked`, `acked` | the adapter's offset in memory and Telegram's list of updates not yet acknowledged |
| `buffer[c]` | the coalescer's batch of conversation `c` |
| `flushers`, `retry` | asyncio tasks in a flush with the batches they have left; the scheduled retry of a conversation |
| `poll`, `service` | the polling coroutine on its page; the service's life |
| `claims` | `channel_ingress_event` (PartyFlow) |
| `sent`, `forgotten` | the remote service: what exists, what it still returns |
| `replies`, `turns`, `settled`, `parked`, `interrupted`, `restarted` | history |

**IngressCoalescer** has the buffer, the flush (turn, delivery, acknowledgement,
release of the rows, one step for each await), failures and their retry, and
`restore_pending`.  **ChannelPolling** adds `Fetch`, the way of a message from its
page to the buffer (`TakeUpdate` for Telegram; `ClaimEvent` and `StoreEvent`, two
transactions, for PartyFlow), the end of a page, and the process: `Start`
(restores and flushes first), `StartPolling`, `Stop`, `Stopped`, `Crash`.  An event
that PartyFlow's adapter cannot read, or whose row cannot be stored, ends the poll:
its claim is given back (`GiveClaimBack`) and the cursor stays where the page began.
The configuration of the endpoint (transport, batching, the limits of a batch in
messages and in characters) is chosen initially, and so is what each message is: for
the agent, dropped by the access policy, or not readable.

### 2.6 Automation graph

| Variable | Code |
|---|---|
| `flow`, `mode` | the active flow and `graph_fallback_mode` |
| `run`, `fallback`, `rows` | `automation_run` and `automation_node_run` |
| `place`, `state`, `out`, `ready`, `frames`, `counter`, `unsafe` | `execute_triggered_automation` and the locals of `execute`: `PendingNodeState`s, outputs, the deque, the recursion of `_resolve_edge` as a stack, the execution counter, `unsafe_side_effects` |
| `acted`, `resumed` | the world outside: nodes that changed something, the agent that got the fallback prompt |

`Bootstrap` writes the rows of an accepted flow; `TakeNode` pops the deque;
`NodeSucceeds`, `NodeFails` and `NodeRaises` are what its adapter may do;
`EdgeResolved`, `TargetReady` and `TargetSkipped` are one call of `_resolve_edge`;
then the verdict, by way of the fallback.  `Peeled` is the validation's search
for cycles.

**GraphDataflow** knows neither queue nor counters nor stack: a node is due when
everything before it is settled, runs if something was delivered to it, is
skipped otherwise, and never begins twice; a run succeeds only when every node
is settled.

### 2.7 Subagents

| Variable | Code |
|---|---|
| `row`, `begun`, `late` | `subagent_task`: status, `started_at`, and whether limit and grace have passed |
| `mode`, `worker`, `handle` | launch mode; the execution of a task; the processes or coroutines the launcher can stop |
| `turn` | the child turn, in its own session |
| `caller` | a call of `wait`, `cancel` or `session.job.run` and what it will answer |
| `told`, `lost` | history: answers given; tasks whose worker went away without a word |

A worker goes `accepted -> spawned -> claimed -> watching`, then to `completing`,
`failing`, `expiring` or `cancelling`, each a write that only touches a running
row, and is `gone`; `stopping` is the grace it gives the turn after it saw the
row end.  A reader marks an overdue row (`Loaded`) and deletes rows past their
retention.  `Cancel` is three steps: look, stop the worker, write.

Any call of the database may raise.  `StepRaises` is that in the worker: outside its
`try` block, its handlers among that, the worker is gone without a word; inside, the
error is written as the failure of the task.  `WaitRaises` and `CancelRaises`
are the calls of a caller that raise: a plain caller gets the error, but
`session.job.run` answers `failed` for a `wait()`, and for a `cancel()` whose error it
swallows the `timeout` it was about to give.  Such answers are recorded as `unchecked`.


## 3. Plan: what is done, what is left

Done, in this order: Task Flow; cron and webhook automations with the abstract
lease; the turns of a session; polled channels; the automation graph; subagents.
Left, in the order of what it would add:

1. **Escalation to a manager** (`_record_manager_escalation_if_needed` in
   `services/task_flow/service.py`).  A blocked AI-owned task gets a runnable task
   of its employee's manager, unless one is open; such a blocker may not be
   resolved or rescheduled by its owner.  Promise: one open escalation for each
   blocked task, owned by an active manager.
2. **Pruning of run history**, which deletes closed rows of `task_run` that other
   rows may name.
3. **Composition**: Task Flow, automations and subagents over `SessionTurns`, each
   waiting for the slot of its session while its own lease is refreshed.
4. **Telethon**: its bounded queue in front of `IngressCoalescer`.

A theorem that would come next: the channels implement a queue which hands out
each message until it is acknowledged, with the positions of `NoMessageLost` as the
refinement mapping.


## 4. Runs

| Run (cfg) | Instance | Shows |
|---|---|---|
| `claims` (Claims) | Task Flow: 2 tasks, 2 employees, 2 workers, 2 claims, 1 disruption; tasks in the PLAN lane or not, created for anybody, reassigned, deleted; employees disabled (1.9 million states) | `TypeOK`, `ClaimIsBacked`, `LiveClaimRespected`, `StaleWorkerHarmless`, `PlanLaneStaysHuman` |
| `review` (Review) | as above, with reviewers, review policy, approval, change requests, delegation (2.0 million states) | `SnapshotsMatch`, `ReviewedBeforeDone`, refinement `ClaimsAreSlots` |
| `plans` (Plans) | Task Flow: 3 tasks created, delegated, deleted alone or as a flow, edges added and removed in every order; 1 worker, 2 claims | `NoLostWakeup`, `DependenciesAcyclic` |
| `wakeups` (Wakeups) | Task Flow: 3 tasks, 1 worker, 2 claims, 1 disruption; tasks created, completed by people, deleted | `NoEarlyClaim`, `DependentsWakeUndisturbed`, `RunsClose`, `ClaimsEnd` |
| `cron` (CronClaims) | 2 automations, 2 daemons, 2 schedules, minutes 0 to 2, up to two rows for each tick, one automation that may fail whenever it runs, 1 fault, 2 edits | `CompletedTimesPast`, `NeverTwiceAtOnce`, `LostClaimHarmless`, refinement `ClaimsAreLeases`, `DueTimesRun` |
| `webhook` (WebhookEvents) | 1 automation, 2 events in 3 requests, 2 workers, queue of 1, 1 expiry, 1 fault, 2 edits or stops (1.0 million states) | `CompletedOnce`, `OneEventAtATime`, `LostClaimHarmless`, `ClaimsAreLeases`, `AcceptedDecided` |
| `turns` (Turns) | 3 requests, none to all of them with the same id, 1 fault (188 thousand states) | `OverlapExplained`, `ReplayExplained`, `AnswersAgree`, `StartsInOrder`, `RequestsEnd` |
| `channels` (Channels) | Telegram and PartyFlow, without batching and with batches of at most 2 messages; PartyFlow also with batches of at most 1 message, or of 2 that are too long together; 3 messages of 2 conversations, one not for the agent or not readable, 2 faults (519 thousand states) | `TypeOK`, `NoMessageLost`, `NoNeedlessRepeat`, `AnsweredOrParked` |
| `graph` (Graph) | 6 shapes of 4 nodes, two of them cyclic, 16 choices of kinds, 4 fallback modes | `FallbackOnlyIfSafe`, refinement `RunsTheDataflow`, `RunGetsVerdict`, and `PeelingFindsCycles` on all relations of 3 nodes |
| `subagents` (Subagents) | 1 task, both launch modes, a caller of the launching service and one of another, 1 crash, shutdown or call that raises (381 thousand states) | `TypeOK`, `AnswersHold`, `NoOrphanTurn`, `TasksEnd` |
| `crash_before_wake`, `two_writers` | the smallest instance that shows it | the disagreements 1 and 2 of section 7 |

Type invariants of the modules whose type correctness is proved are not checked
again, except in `claims`, `channels` and `subagents`.

*Why these bounds.*
- *Task Flow.*  Everything about a claim concerns at most two claims on one task
  (a stale and a current one) or two tasks of one employee, hence two of each and
  two claims.  A second disruption would strike another worker that is, to the
  first, just a worker that stopped.  A cycle that is not a self-loop or a pair
  needs three tasks; so does a chain of wake-ups and a dependent with two
  prerequisites.  `t3` has a higher priority than the others so that the
  shortlist is sometimes forced and sometimes free.  In `wakeups` one worker is
  enough to lose a claim: the sweep is an action of its own and needs no second
  worker, and the same worker may come back to the task.
- *Cron.*  A row read by one tick and claimed by another needs two daemons; a row
  that waits behind another, and one that fails before another, need two
  automations and a limit of two.  Two
  minutes are enough for a time to pass while a tick that started before it is
  still busy, and two edits to pause and resume or to reschedule twice.
- *Webhook.*  Two requests with the same event and one with another meet in every
  order at two workers; a queue of one is full at the second.  Operations of operators
  and stops share the bound of edits: creation and one of pause, deletion, rotation or
  stop.  Failures, crashes and late refreshes share the other one.
- *Turns.*  Of three requests one is running, one waits and one comes late; more
  requests repeat the part of the last one.  One fault is enough for an orphan to run
  beside each of the others.
- *Channels.*  Two messages of one conversation and one of another distinguish
  order within a conversation from order across, and with the one that cannot be read
  in the middle, one is before it and one behind it.  The two messages of a
  conversation fit into one batch, or exceed its limit in messages, or stay within
  that one and exceed the limit in characters; whenever they fit, a batch of two may be
  compared with pieces of it.  Two faults are a failure and another one during its
  retry.
- *Graph.*  The shapes have a join of exclusive branches, a branch skipped over
  two nodes, two entries with parallel edges, and a shortcut to a node that a
  longer path reaches too.
- *Subagents.*  Tasks share the launcher and the retention only, so one task is
  enough, and two callers because the answer to one races the other's.  `MaxCrashes` bounds
  killed processes, shutdowns and calls that raise together: one of them strikes at
  any place.

Symmetry of workers and employees is used in safety runs only; these constants
occur in no ordered or chosen expression.

*Restrictions that a property needs.*  `DependentsWakeUndisturbed` and `RunsClose`
are about behaviours, or parts of them, without disruptions (see section 7 and the
notes of the hazards).  `NoLostWakeup` and `DependentsWakeUndisturbed` are checked
without turns that end as `dependency_wait` and without edges on statuses other
than `completed`.  `NoEarlyClaim` does not hold once completed prerequisites are
reopened: promoting a task is final in the code, and the run never reopens.
`claims` moves no task into the PLAN lane after its creation, which
would multiply its states; the theorem `PlanLaneKept` has no such restriction.
`ReviewedBeforeDone` leaves the review policy of a task alone: the worker decides
from its snapshot.  `DueTimesRun` is about automations that do not fail for ever
themselves, and only while those that do are fewer than a tick takes: with a
limit of one the run finds the other automation starved (section 7, 6).
`AnsweredOrParked` leaves out what PartyFlow returns behind an event that cannot be
read (section 7, 15), and `AnswersHold` what `session.job.run` says after a call that
raised (section 7, 13).

Deadlock is checked for Task Flow and the channels, which never stop.  In the
other runs the modelled part may really come to an end: all requests answered, the
run of the graph done, the bounds of clock, edits and faults reached.


## 5. Fairness

*Task Flow* (`wakeups`, `crash_before_wake`).
- `WF(Progress(w))`: a worker that is not disrupted goes on.  A turn ends: its
  iterations and provider calls are bounded by the agent loop and its timeouts.
  The other steps are straight-line code between two transactions.
- `WF(SweepExpiredClaims)`: workers poll for ever and between two tasks run the
  maintenance, at intervals (`_maybe_run_maintenance`).  That a worker ever claims is
  not assumed.
- `WF` of `LeaseExpires(t)` while no worker holds the claim of `t`: a lease that
  nobody refreshes runs out.  Nothing is assumed of a lease that somebody may
  refresh.

*Cron.*  Each loop starts its next tick and goes on with its rows (a run has a
timeout); the clock moves; a lease without a live holder runs out.

*Webhook.*  The ingress answers, worker loops go on, a stop cancels the workers in the
end, and the daemon is started again once all of them have ended; that they end, or
that a stop times out, is not assumed.  Leases need not run out.

*Turns.*  A caller goes on and acts upon a read that admitted it.  Its polls come
again and again, and sometimes with the sweep: that a poll which sweeps finds the
table in a state that admits it may be infrequent, so this is strong fairness, or
the deadline of a wait whose marker was swept away.  This is the SQLite build; on
PostgreSQL, where deletion and reads of a sweeping poll are separate steps, safety is
checked and that every request ends is not.  A marker or a claim that nobody
refreshes becomes stale.  That an orphan turn ends is not assumed.

*Channels.*  The event loop runs the poll and the background tasks that can run,
and the supervisor starts a daemon that went down.  Errors, stops and crashes need
not happen, and neither must a user write.

*Graph.*  The executor goes on; adapters have timeouts.

*Subagents.*  The executor goes on, callers poll, time passes.  Nothing is assumed
of the turn, and the time limit only within `TasksEnd`: `NoOrphanTurn` so rests on
the poll of the row alone.

Nothing is assumed of people and operators, of employee descriptors, of `ready_at`
and of faults.


## 6. What is proved

All theorems hold for every number of tasks, workers, requests and so on, and
every choice of the other constants that satisfies the named assumptions of the
module (`StoreAssumption`, `ServiceAssumption`, `RuntimeAssumption` for Task Flow;
`CronAssumption`, `WebhookAssumption`, `SessionAssumption`, `GraphAssumption`,
`SubagentAssumption`; `MessagesAssumption`, `EndpointsAssumption` and `BoundsAssumption`
for the channels).  These say that the constants have their types, that null
values are no members of what they stand for, for Task Flow that there is a task
and no edge waits for `todo` or `blocked`, and for the graph that a flow has
finitely many edges.

| Theorem | Module | Statement |
|---|---|---|
| `TypeCorrect` | TaskFlow_proofs and the `_proofs` modules of cron, webhook, turns, channels, graph and subagents | `Spec => []TypeOK` |
| `ClaimsBacked`, `SnapshotsFit` | TaskFlowClaims_proofs | `[]ClaimIsBacked`, `[]SnapshotsMatch` |
| `ClaimsImplementSlots` | TaskFlowClaims_proofs | `Spec => ClaimsAreSlots` |
| `LiveClaimsRespected`, `StaleWorkersHarmless`, `PlanLaneKept` | TaskFlowClaims_proofs | `LiveClaimRespected`, `StaleWorkerHarmless`, `PlanLaneStaysHuman` |
| `ReviewsPrecedeCompletion` | TaskFlowClaims_proofs | `"policy" \notin Operations` implies `Spec => ReviewedBeforeDone` |
| `DependenciesStayAcyclic` | TaskFlow_proofs | `[]DependenciesAcyclic` |
| `WakeupsKept` | TaskFlow_proofs | `[](crashes = 0 => NoLostWakeup)`, under two assumptions (see below) |
| `CompletedStayPast`, `OneAtATime`, `LostClaimsChangeNothing` | CronAutomations_proofs | `[]CompletedTimesPast`, `[]NeverTwiceAtOnce`, `LostClaimHarmless` |
| `EventCompletedOnce`, `OneAtATime`, `LostClaimsChangeNothing` | WebhookAutomations_proofs | `[]CompletedOnce`, `[]OneEventAtATime`, `LostClaimHarmless` |
| `ClaimsImplementLeases` | CronAutomations_proofs, WebhookAutomations_proofs | `Spec => ClaimsAreLeases` |
| `OverlapsHaveACause`, `ReplaysHaveACause`, `OneAnswer`, `InOrder` | SessionTurns_proofs | `[]OverlapExplained`, `[]ReplayExplained`, `[]AnswersAgree`, `StartsInOrder` |
| `FallbackSafe` | AutomationGraph_proofs | `[]FallbackOnlyIfSafe` |
| `ValidationFindsCycles` | AutomationGraph_proofs | `ValidateEdges` accepts a flow exactly if no set of its nodes is cyclic |
| `ExecutorRunsTheDataflow` | AutomationGraph_proofs | `Spec => RunsTheDataflow` |
| `AnswersStayTrue` | Subagents_proofs | `[]AnswersHold` |
| `NoMessageIsLost`, `RepeatsHaveNeed` | ChannelPolling_proofs | `[]NoMessageLost`, `[]NoNeedlessRepeat` |

**Claims of Task Flow.**  Neither `ClaimIsBacked` nor `SnapshotsMatch` is
inductive.  A worker that gave up rewrites the run it was given, so one must know
that this run is not the run of somebody's claim: `SnapshotsMatch` says that the
run belongs to the worker's task and to no other worker.  A new claim takes a run
number that nobody knows yet: `TokensIssued` says that runs beyond `issued` do not
exist and that workers without a claim, idle or with a row selected, hold no token.
The invariant is

`ClaimInv == TypeOK /\ ClaimIsBacked /\ SnapshotsMatch /\ TokensIssued`.

The proof separates the one step that makes a claim (`ClaimTask`) from all
others.  Of the others it shows once and for all that they are *quiet*
(`QuietStep`): every row keeps its claim or has none, no run of a claim is
closed or moved, every worker keeps its snapshot or becomes idle.  Quiet steps
preserve `ClaimInv` (`QuietStepClaims`), so each of the twenty operations only
needs a lemma that it is quiet.

**What no step may do to a claim.**  `StepEffect` says what a step may be for one
row: nothing to its claim, the effect of the worker whose token the row has
(`WorkerEffect`), a new claim, a sweep, or an operation of the service.
`LiveClaimsRespected` and `StaleWorkersHarmless` follow with `ClaimInv`: every
UPDATE of a worker carries its token, and a sweep takes expired rows only.  The
invariant for what workers decide is `OutcomesFit`: a worker is about to persist
one of four statuses, and `completed` only where its copy of the policy asks for
no review.  So no outcome leads into the PLAN lane (`PlanLaneKept`), and with
`PolicyCopied` (the copy agrees with the row as long as the claim lasts) none
completes what asks for review.  `PolicyCopied` is false once the policy of a
claimed task may be edited, which is why `ReviewsPrecedeCompletion` excludes that
operation.

**Slots.**  A quiet step releases the slots whose claims it ends, and `ClaimTask`
acquires one.  That the executor is free when it does follows from the unique
index on executors, and from `ClaimIsBacked`: tokens are only on active tasks,
which are the ones the index covers.

**Cycles.**  `add_dependency` searches for a path back, but `create_task` and
`delegate_task` do not: they rely on a new task having no edges.  So the
invariant adds `EdgesExist` (edges join existing tasks), which needs that
deletion removes edges in both directions and that nothing else makes a row go
away (`KeepsRows`).  The graph lemmas work with closed sets: `d` does not reach
`t` exactly when a set closed under "depends on" holds `d` and not `t`.

**Wake-ups.**  `NoLostWakeup` says that a task blocked by its dependencies has one
that is not satisfied, or that a worker is about to reconcile it.  `StaysAwake`
carries it over a step that completes nothing: such a step keeps the reason or
gives the task a dependency that is open.  The step that completes a task by a
worker leaves the worker in `settling`, which is what the second alternative
names; every other one reconciles all dependents itself.  Three hypotheses are
needed, each for a behaviour of the code: edges wait for `completed` only (others
are never reconciled, section 7, 3); no turn and no person says `dependency_wait`
of a task that waits for nothing; nobody was cancelled or killed between
completion and reconciliation (`crashes = 0`, section 7, 1).

**Automations.**  In both modules the key is who owns a row: `OwnInv` says that a
busy tick, or worker, has its token and a live lease on its row, unless the lease
ran out under it.  Cron adds `DoneInv`: completed times lie before the next one, and
before the start of the tick that holds the row, so that the next time it computes
lies behind them, whatever schedule it had read.  Webhook adds `OnceInv`: an event is
counted once when it is in the table of processed events and never otherwise, and
the event in progress is not in that table; `Travel` follows a request through queue
and workers.  That a step on the tables is a step of the abstract lease is one lemma
for each operation, collected in `TableStep`.

**Turns.**  Every step is a stutter of `turn` or one move of one request from a
known place to a known place (`StepMoves`); one lemma for each table says what a
step may do to it.  On top of that (`Types`: `TypeOK`, `Keyed`, `EntersOnce`) the
invariants are `Markers` (a turn that runs under its caller has a running marker, and
a live one no old marker, unless a heartbeat was late), which with the guards of the
two ways to start gives `OverlapExplained`: of two turns without one of the three
causes neither is an orphan, so both had markers, and the second to start read one of
them; `Line` (before a request that was read as first,
nobody is queued), for the order; `Answers` (an answer is the stored result); and
`Claims` and `Replays` (who executes with a key owns its claim, unless a heartbeat
was late; two executions of a key have a cause on record).

**Graph.**  `Told`: a node that acted is running, or its act was reported and the
flag is set, or it belongs to the two kinds of failure that report nothing; `Quiet`:
nothing runs when the fallback is considered.

`ExecutorRunsTheDataflow` relates the executor's bookkeeping to the edges.  Its
invariant `GraphInv` says: the counters of a node count exactly the edges from
finalized nodes that the executor has handled, those still on the stack of
`_resolve_edge` and `_finalize` calls excluded (`Counted`); a node is queued,
running or skipped only when no edge into it is open (`Settles`, `Arrived`,
`Queued`); and a node that is still pending has an open edge into it
(`Remembered`).  The last part is what makes an empty queue the end of the run.
Were a node still pending then, a node before it would be pending too, and so on;
in an accepted flow this ends, by induction over the rounds of `_validate_dag`.

`ValidationFindsCycles` is that induction in general: nodes that survive every
round form a set in which each has a predecessor, and conversely a set without
entry is never peeled.  `Peeled` is a recursive function; the induction runs over
*sets* of naturals (`NatSetInduction`, from the well-foundedness of `<`), since the
library's induction theorem for predicates is out of the provers' reach.

**Subagents.**  The row goes none, running, final, deleted and never back
(`RowsFollow`), and a final status is written once.  `WorkersKnow` and
`CallersKnow` say that whoever believes a task to have ended read a row that was
final, or found none; with the order of statuses, that stays true.  A job that
swallows the error of `cancel()` believes so without having read anything: its answer
is `unchecked`, and the property asks nothing of it.

**Channels.**  No line of the code relates the saved position to the rows: it moves
over whatever prefix of the updates batches, retries, stops and crashes have
acknowledged, in any order.  The argument is one of order.  `KnownFirst` calls a
message *unknown* when it is neither settled nor in the table, and says that every
unknown message is still to come: after everything that is stored, held by the
process or acknowledged, and not before any of the positions of the file, the poll
and the remote service (`Untaken`).  The two steps that could
break it are an acknowledgement, which computes a position from known messages, and
the page a poll fetches, which is in order and without a gap.  `Taking` covers the
moment between PartyFlow's claim and its row.  The invariant rests on types that are
more than types: `Types` says that the table, the updates not yet acknowledged and
every batch hold a message once, that a batch is of one conversation, and that what
is about to be acknowledged or released is settled.  Most of the module is about
sequences (filtering, cutting, grouping and flattening, for `restore_pending`); the
recursive functions are dealt with by induction over sets of naturals, as above.

That nothing is repeated without need (`NoNeedlessRepeat`) is about two batches in
`turns`, but the second one comes into being long before its turn: as a batch that
sleeps, is flushed, waits for a retry, or is cut out of another by
`restore_pending`.  `Unrepeated` follows a message all the way.

- `HandedOnce`: the poll hands a message out once.  What anybody has or had
  (`Seen`) is below the cursor, for Telegram, or claimed, for PartyFlow; the poll
  takes only what is neither.  This fails after a failed flush that the poll waits
  for, which forgets the claim or leaves the cursor; without `ingress_batch` the
  message then comes again in the very same batch, and with it the poll waits for
  no flush, which is why `Undisturbed` tells the two apart.
- `Apart`: while the process lives, what sleeps is in no batch that was or may
  still be taken for a turn, and two such batches that share a message are the
  same or one is a piece of the other (`PieceOf`).  A batch can outgrow the limits in
  messages and in characters, because the debounce never flushes early; its retry cuts
  it, and the only piece of a batch that fits is the batch itself (`PartsOf`).  Without
  `ingress_batch` every batch has one message and there is nothing to keep apart.
- `RepliedOnce`: as long as nothing failed there is neither a retry nor a stop, a
  flush has one batch, no two flushes share a message, and a message has no reply
  until its delivery, which ends the chance of another.
- `AtRest`: the first start finds an empty table.  A later one may restore what was
  answered and not yet released, which is the repetition that `restarted` excuses.

TLC checked `Unrepeated` before it was proved, with batches of 1 and with batches of
2 in one conversation of three messages, where a retry does cut.

*Only model-checked:* `AnsweredOrParked` of the channels; `NoEarlyClaim`, which is no theorem, since
people may reopen or delete prerequisites, set a dependent to `todo` or block it
for another reason, and holds on its instance alone; and everything under fairness:
liveness and `ENABLED` are beyond the proof system.


## 7. Disagreements between the code and its documents

Two have a run:

1. **A crash before the wake-up** (`crash_before_wake`).  The worker commits
   `completed` in one transaction and reconciles dependents in a later one.
   Stopped in between, it leaves dependents blocked for ever: neither the sweep
   nor the claim looks at them.
2. **Two active writers** (`two_writers`).  `try_mark_running` reads that nothing
   runs, reads who is first in line, and updates its row, in three statements of
   which only the last takes the write gate.  A caller that is marked running
   between the two reads of another leaves the other first in line: both run.

Others were met while modelling; the models contain the behaviour:

3. *Edges on `review`.*  `--satisfied-on` is offered as "Prerequisite status
   required to satisfy the edge" (`afkbot/cli/commands/task.py:721`), but
   dependents are reconciled only when a task becomes `completed`.
4. *A busy owner blocks the queue.*  While `e2` reviews a task owned by `e1`, `e1`
   is idle for the scheduler, yet the unique index on owners of active tasks
   refuses any claim of a task of `e1`; the shortlist returns the same task each
   time.
5. *`todo` with prerequisites.*  `create_task` accepts an explicit `todo` together
   with prerequisites, and the task is claimed at once.
6. *Failing cron rows starve others.*  A row whose run fails stays due and comes
   first in the next tick; with as many of them as a tick takes, others never run.
   `DueTimesRun` states the boundary.
7. *A webhook event refused while another is in progress* is answered as accepted
   and then dropped as a duplicate.  One accepted while the daemon stops is put
   into a queue that nobody reads any more.
8. *A client message id executes twice* when the first turn ended before its
   result was stored, a heartbeat was late, or two callers looked at the same
   moment.  All callers still get the same answer.  A turn whose marker was swept
   waits until its deadline of a day.
9. *Telegram retries a conversation once*, while the back-off is described as
   growing (`telegram_polling_runtime.py`); a second failing batch of a conversation
   loses its retry.  PartyFlow compares the task and is not affected.
10. *PartyFlow loses an event* whose claim is committed when its poll is cut off
    before the pending row is (`partyflow_polling.py:294`): errors give the claim
    back, a cancellation does not.
11. *Telegram with batching never acknowledges* an update that the access policy
    dropped, until the process starts again; without batching, a message fetched
    again after a failure finds its row and is taken as done.  `max_batch_size`
    and `max_buffer_chars` hold for restored and retried batches but not at the flush,
    so a batch beyond either that fails is cut and executed again in other batches.
12. *The safe fallback of a graph* is told of acts through a flag that an
    exception of an agent node, and a code node whose worker is killed, do not set
    (`graph/executor.py`): `Unreported` in `FallbackOnlyIfSafe`.  A run that was
    cancelled or whose process died stays `running`.
13. *Answers about subagents.*  `cancel()` answers `cancelled` although the task
    completed meanwhile; `session.job.run` answers `timeout` after its own deadline
    whatever the row says, and also when the `cancel()` that should have ended the
    task raised (`session_job_run/plugin.py:355`), and `failed` when `wait()` raised
    (`plugin.py:286`), while the task runs on.  A worker killed without a word leaves
    its row `running` until somebody asks.
14. *A turn beside its own queue.*  When the progress stream of a turn raises, its
    caller gives the slot up and the task of the turn is neither cancelled nor awaited
    (`session_orchestration/service.py:416`, where a cancellation does both): the next
    turn of the session starts beside it, although the orchestrator "provides one
    active writer".  The third cause of `OverlapExplained`.
15. *An event that cannot be read stops PartyFlow.*  An event without readable payload
    raises (`partyflow_polling.py:302` and `682`); its claim is given back and the
    cursor does not move, so each poll fetches the same page and fails at the same
    event, and nothing behind it is answered.
16. *A swallowed cancellation.*  A webhook worker that is cancelled, and whose release
    then finds the claim gone or raises, leaves with `AutomationsServiceError`
    (`webhook_execution.py:187`), which the worker loop logs (`runtime_daemon.py:319`).
    It goes on taking events while the daemon closes; when it escapes the second
    cancellation at the timeout likewise, `stop()` waits for it without a limit.
17. *The status a task was claimed from* is what an earlier SELECT read
    (`task_flow_repo.py:1502`, written at 1545).  On SQLite the row may go from `todo` to
    `review` before the UPDATE, which claims it all the same, as `todo`: released or
    swept, it does not return to review.


## 8. Abstractions, and what is not modelled

*Everywhere.*  A transaction is one atomic step; where reads precede the first
write of a transaction and the code relies on them, they are steps of their own
(`SessionTurns`).  Random tokens are the name of who made them.  Time is kept as
far as it is compared: a lease is live or has run out, and when the comparison
needs it, since when.  Payloads, texts and outputs are left out.

*Task Flow.*
- A claim that loses a race by a unique index is retried: `ClaimConflict` is the
  attempt that rolls back.  An UPDATE that finds its row changed is followed by another
  SELECT in the same transaction, three times at most; in the model the worker begins
  anew, with all that may happen in between.
- A token is the number of the run created with it.
- Sweep and guard are limited to batches; the model takes all at once.
- Ties of priority are broken by due date, load of the flow and age; the model
  allows any choice among equal priorities.
- A deletion reconciles the dependents one after the other; the model does so at
  once.  A completed dependent that loses its completion this way therefore still
  counts as completed for the other dependents of the same step.
- The code deletes the tasks of a flow in some order and reconciles a dependent
  outside it after each of them: the first time it may become blocked, the last
  time runnable.  Nothing else changes for it in between, so the model keeps two
  reconciliations, and for each dependent any of its prerequisites may go first.
  Any set of tasks may be those of a flow.
- One profile.  Actors' permissions, documents, attachments, comments, events,
  notifications, boards and titles are left out, and so is the attempt counter.
  The employees of the model have no manager: with one, blocking a task of theirs
  may also create a task for the manager (section 3); without, the code only
  writes an event and a comment.
- An executor's configuration is its `active` flag; other failures to build the
  runtime target are the disruption `Dies`.
- The initial store holds tasks not begun.  An AI-owned PLAN task can be there,
  as rows written before the service refused them, which is why the runtime
  guards the lane.

*Automations.*  A cron expression is the set of minutes it matches.  One webhook
token is followed by one other.  What an execution does is not modelled; the graph
has a module of its own.

*Turns.*  One session.  Of the progress stream only its failure is modelled, not its
events.  `cancel_active_turn` (a flag the turn reads) and several turns under one lease
are left out.

*Channels.*  A message is its number.  Cool-down only lengthens a sleep.  Media,
humanized typing, pairing and access lists are what makes a message `denied` or
`other`.  The length of a message stands for its share of a batch's characters.  An
error while Telegram's adapter reads an update, before its row is stored (a download of
media, say), only ends the poll, which begins again with that update, and is left out.
The claims that PartyFlow gives back after a failed flush are given back in the step of
the failure.  Telethon is not modelled.

*Graph.*  A payload is the fact that it was delivered; ports of targets, schemas
and final outputs are left out.  `apply_graph` is what it accepts; two concurrent
calls that leave two active flows are not modelled.

*Subagents.*  One `run()` for each task; a refused one changes nothing.

*Not modelled:* the components of section 1.7, for the reasons given there, and
what section 3 lists as left.
