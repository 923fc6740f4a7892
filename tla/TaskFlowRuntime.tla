-------------------------- MODULE TaskFlowRuntime --------------------------
(***************************************************************************)
(* TaskFlowRuntimeService and the workers of TaskFlowRuntimeDaemon.  A     *)
(* worker claims a task (one transaction), marks it started (a second      *)
(* one), runs the agent turn while a coroutine refreshes the lease,        *)
(* persists the outcome (a third one), then re-applies the schema guards   *)
(* and reconciles dependents (a fourth one).  Between any two of these     *)
(* other workers, the sweep, the service and the clock may act, and the    *)
(* worker may be cancelled by a shutdown or killed.                        *)
(***************************************************************************)
EXTENDS TaskStore

CONSTANTS
    Workers,        \* worker loops of all daemons on this database
    TurnOutcomes,   \* what a turn may be classified as
    MaxCrashes      \* bound: cancellations, crashes and internal errors

ASSUME RuntimeAssumption ==
    /\ TurnOutcomes \subseteq {"finalized", "blocked", "dependency_wait", "poll", "failed"}
    /\ MaxCrashes \in Nat

VARIABLES
    worker,         \* each worker's place and its ClaimedTaskExecution
    crashes         \* cancellations, crashes and errors so far (bounded)

runtimeVars == <<worker, crashes>>

\* outcome / failing: turn over, outcome not yet persisted, inside the try
\* block / inside its exception handler.  settling / settlingInHandler:
\* outcome committed, schema refresh and reconciliation still to come.
Places == {"idle", "selected", "claimed", "started", "executing", "outcome", "failing",
           "settling", "settlingInHandler", "releasing"}

WorkerState == [place : Places, task : Tasks, token : 0..MaxRuns,
                owner : Owners, executor : Owners, source : Statuses \cup {"none"},
                requiresReview : BOOLEAN,
                result : Statuses, reason : Reasons, reconcile : BOOLEAN]

RuntimeTypeOK ==
    /\ worker \in [Workers -> WorkerState]
    /\ crashes \in 0..MaxCrashes

Idle == [place |-> "idle", task |-> SomeTask, token |-> NoToken, owner |-> Human,
         executor |-> Human, source |-> "none", requiresReview |-> FALSE,
         result |-> "failed", reason |-> "none", reconcile |-> FALSE]

RuntimeInit == worker = [w \in Workers |-> Idle] /\ crashes = 0

At(w, place) == worker[w].place = place
InTry(w) == worker[w].place \in {"executing", "outcome", "settling"}
Owns(w) == HoldsClaim(worker[w].task, worker[w].token)

----------------------------------------------------------------------------
(* Maintenance: sweep_expired_claims *)

SweepTarget(row) == IF row.source = "review" THEN "review" ELSE "todo"
Swept(row) == ReleaseRow(row, SweepTarget(row),
                         IF row.source = "review" THEN "none" ELSE "due")
\* Broken: leases are not looked at; a claim not started yet is not looked for.
ExpiredOrNot == {t \in Tasks : /\ task[t].status \in Active /\ task[t].token # NoToken
                               /\ ActiveOwner(task[t]) \in Employees}
ExpiredRunning == {t \in Tasks : /\ task[t].status = "running"
                                 /\ task[t].token # NoToken /\ task[t].expired
                                 /\ ActiveOwner(task[t]) \in Employees}

Expired == {t \in Tasks : /\ task[t].status \in Active
                          /\ task[t].token # NoToken /\ task[t].expired
                          /\ ActiveOwner(task[t]) \in Employees}

\* Called by every worker between tasks and by operators (task.stale.sweep).
SweepExpiredClaims ==
    /\ Expired # {}
    /\ task' = [t \in Tasks |-> IF t \in Expired THEN Swept(task[t]) ELSE task[t]]
    /\ run' = [r \in Runs |-> IF \E t \in Expired : task[t].lastRun = r
                              THEN SetRun(run, r, "cancelled")[r] ELSE run[r]]
    /\ UNCHANGED <<deps, issued, enabled, worker, crashes>>

----------------------------------------------------------------------------
(* One attempt of _claim_next_task *)

\* list_ai_plan_tasks
AiPlanTasks == {t \in Tasks : task[t].status = "plan" /\ task[t].owner \in Employees}

\* _guard_ai_owned_plan_tasks, committed with the attempt it precedes.
Guarded == [t \in Tasks |->
    IF t \in AiPlanTasks
    THEN UpdateRow(task[t], "blocked", "invalid_plan_status", "none")
    ELSE task[t]]

ClaimNothing(w) ==
    /\ At(w, "idle") /\ Candidates(Guarded) = {}
    /\ task' = Guarded
    /\ UNCHANGED <<deps, run, issued, enabled, worker, crashes>>

\* What the SELECT of claim_next_runnable_task returns for a candidate.
Selection(t) == [Idle EXCEPT !.place = "selected", !.task = t,
                             !.executor = ClaimOwner(task[t]), !.source = task[t].status]

\* A SELECT takes no lock (SQLite): the row may change before the UPDATE.
SelectTask(w) ==
    /\ At(w, "idle") /\ AiPlanTasks = {} /\ issued < MaxRuns
    /\ \E t \in Shortlist(task) : worker' = [worker EXCEPT ![w] = Selection(t)]
    /\ UNCHANGED <<storeVars, crashes>>

\* The guard writes before the SELECT, if it has a task to guard, and then the
\* write gate is held from there to the commit.
Selections(w) ==
    CASE At(w, "selected") -> {worker[w]}
      [] At(w, "idle") /\ AiPlanTasks # {} -> {Selection(t) : t \in Shortlist(Guarded)}
      [] OTHER -> {}

Before(w) == IF At(w, "selected") THEN task ELSE Guarded

\* The WHERE clause of the UPDATE: claimable, by the executor selected.
Claimable(c) == Runnable(task[c.task]) /\ ClaimOwner(task[c.task]) = c.executor

\* The claimed row of the selection; token as it will be if kept.
Attempt(w, c) == [Before(w) EXCEPT
    ![c.task] = ClaimRow(@, issued + 1, c.executor, c.source)]

\* The row changed under the selection: select again.
ClaimMissed(w) ==
    /\ At(w, "selected") /\ ~Claimable(worker[w])
    /\ worker' = [worker EXCEPT ![w] = Idle]
    /\ UNCHANGED <<storeVars, crashes>>

\* The UPDATE breaks a unique index: the attempt rolls back as a whole.
ClaimConflict(w) ==
    /\ \E c \in Selections(w) : Claimable(c) /\ ~IndexesHold(Attempt(w, c))
    /\ worker' = [worker EXCEPT ![w] = Idle]
    /\ UNCHANGED <<storeVars, crashes>>

\* _block_inactive_employee_claim, in the transaction of the claim.
ClaimRejected(w) ==
    /\ \E c \in Selections(w) :
         /\ Claimable(c) /\ c.executor \notin enabled
         /\ IndexesHold(Attempt(w, c))
         /\ task' = [Before(w) EXCEPT ![c.task] =
                       [UpdateRow(@, "blocked", "other", "none")
                          EXCEPT !.lastRun = NoToken]]
    /\ worker' = [worker EXCEPT ![w] = Idle]
    /\ UNCHANGED <<deps, run, issued, enabled, crashes>>

ClaimTask(w) ==
    /\ issued < MaxRuns
    /\ \E c \in Selections(w) :
         /\ Claimable(c) /\ c.executor \in enabled
         /\ IndexesHold(Attempt(w, c))
         /\ task' = Attempt(w, c)
         /\ run' = [run EXCEPT ![issued + 1] = [task |-> c.task, status |-> "claimed"]]
         /\ worker' = [worker EXCEPT ![w] =
              [Idle EXCEPT !.place = "claimed", !.task = c.task, !.token = issued + 1,
                           !.owner = task[c.task].owner,
                           !.executor = c.executor, !.source = c.source,
                           !.requiresReview = task[c.task].requiresReview]]
    /\ issued' = issued + 1
    /\ UNCHANGED <<deps, enabled, crashes>>

----------------------------------------------------------------------------
(* _execute_claimed_task *)

MarkStarted(w) ==
    /\ At(w, "claimed")
    /\ LET t == worker[w].task IN
       IF task[t].token = worker[w].token /\ task[t].status = "claimed"
       THEN /\ task' = [task EXCEPT ![t] = StartRow(@)]
            /\ run' = SetRun(run, worker[w].token, "running")
            /\ worker' = [worker EXCEPT ![w].place = "started"]
       ELSE /\ worker' = [worker EXCEPT ![w].place = "releasing"]
            /\ UNCHANGED <<task, run>>
    /\ UNCHANGED <<deps, issued, enabled, crashes>>

\* _build_runtime_target, after the start was committed and before the try
\* block: an executor disabled since the claim ends the attempt, and the
\* claim stays until its lease expires.
BuildTarget(w) ==
    /\ At(w, "started")
    /\ worker' = [worker EXCEPT
                    ![w] = IF worker[w].executor \in enabled
                           THEN [worker[w] EXCEPT !.place = "executing"] ELSE Idle]
    /\ UNCHANGED <<storeVars, crashes>>

RefreshLease(w) ==
    /\ At(w, "executing") /\ Owns(w)
    /\ task' = [task EXCEPT ![worker[w].task].expired = FALSE]
    /\ UNCHANGED <<deps, run, issued, enabled, worker, crashes>>

\* What a failed turn, a lost lease or an exception leaves to be persisted.
Failing(w) == [worker EXCEPT ![w] =
    [@ EXCEPT !.place = "failing", !.result = "failed", !.reason = "none",
              !.reconcile = FALSE]]

LeaseLost(w) ==
    /\ At(w, "executing") /\ ~Owns(w)
    /\ worker' = Failing(w)
    /\ UNCHANGED <<storeVars, crashes>>

\* Broken: the request for review is forgotten.
ClassifiedAsDone(c, o) ==
    CASE o = "finalized" -> IF c.source = "review" THEN "review" ELSE "completed"
      [] o = "failed" -> "failed"
      [] OTHER -> "blocked"

\* _classify_turn_result, from the snapshot taken when the task was claimed.
Classified(c, o) ==
    CASE o = "finalized" -> IF c.source = "review" \/ c.requiresReview
                            THEN "review" ELSE "completed"
      [] o = "failed" -> "failed"
      [] OTHER -> "blocked"

ClassifiedReason(o) ==
    CASE o = "poll" -> "external_poll"
      [] o = "dependency_wait" -> "dependency_wait"
      [] o = "blocked" -> "other"
      [] OTHER -> "none"

TurnEnds(w) ==
    /\ At(w, "executing")
    /\ \E o \in TurnOutcomes :
         worker' = [worker EXCEPT ![w] =
              [@ EXCEPT !.place = "outcome", !.result = Classified(worker[w], o),
                        !.reason = ClassifiedReason(o)]]
    /\ UNCHANGED <<storeVars, crashes>>

\* _blocked_revisit_ready_at applies to external polling only.
Revisit(status, reason) ==
    IF status = "blocked" /\ reason = "external_poll" THEN "later" ELSE "none"

\* _task_run_status_for_persisted_task
RunStatusFor(row, c) ==
    IF row.status = "todo"
    THEN (IF row.owner # c.owner THEN "reassigned" ELSE "cancelled")
    ELSE row.status

Settling(c, reconcile) ==
    [c EXCEPT !.place = IF c.place = "outcome" THEN "settling" ELSE "settlingInHandler",
              !.reconcile = reconcile]

\* _persist_outcome when the claim is still this worker's.
Finalize(w) ==
    LET c == worker[w] IN
    /\ worker[w].place \in {"outcome", "failing"} /\ Owns(w)
    /\ task' = [task EXCEPT ![c.task] =
                  FinalizeRow(@, c.result, c.reason, Revisit(c.result, c.reason), c.token)]
    /\ run' = SetRun(run, c.token, c.result)
    /\ worker' = [worker EXCEPT ![w] = Settling(c, c.result = "completed")]
    /\ UNCHANGED <<deps, issued, enabled, crashes>>

\* _handle_unfinalized_outcome: the task moved on before this worker finished.
FinalizeLost(w) ==
    LET c == worker[w]
        row == IF task[c.task].token = c.token
               THEN [ClearClaim(task[c.task]) EXCEPT !.lastRun = c.token]
               ELSE task[c.task]
        revisit == /\ row.status = "blocked" /\ row.ready = "none"
                   /\ row.reason = "external_poll"
        kept == IF revisit THEN [row EXCEPT !.ready = "later"] ELSE row
    IN
    /\ worker[w].place \in {"outcome", "failing"} /\ ~Owns(w)
    /\ IF Exists(c.task)
       THEN /\ task' = [task EXCEPT ![c.task] = kept]
            /\ run' = SetRun(run, c.token,
                             IF kept.status \in Active THEN "cancelled"
                             ELSE RunStatusFor(kept, c))
       ELSE UNCHANGED <<task, run>>
    /\ worker' = [worker EXCEPT
                    ![w] = IF kept.status = "completed"
                           THEN Settling(c, TRUE) ELSE Idle]
    /\ UNCHANGED <<deps, issued, enabled, crashes>>

\* Schema refresh, then reconcile_completed_task in a transaction of its own.
Settle(w) ==
    /\ worker[w].place \in {"settling", "settlingInHandler"}
    /\ worker[w].reconcile => Exists(worker[w].task)
    /\ task' = IF worker[w].reconcile
               THEN ReconcileDependents(task, deps, worker[w].task) ELSE task
    /\ worker' = [worker EXCEPT ![w] = Idle]
    /\ UNCHANGED <<deps, run, issued, enabled, crashes>>

\* reconcile_completed_task raises task_not_found: the handler persists a
\* failure, and there a second exception ends the attempt.
SettleMissing(w) ==
    /\ worker[w].place \in {"settling", "settlingInHandler"}
    /\ worker[w].reconcile /\ ~Exists(worker[w].task)
    /\ worker' = IF At(w, "settling") THEN Failing(w)
                 ELSE [worker EXCEPT ![w] = Idle]
    /\ UNCHANGED <<storeVars, crashes>>

\* Broken: the run of a claim that was lost is left as it is.
ReleaseTaskOnly(w) ==
    LET c == worker[w] IN
    /\ At(w, "releasing")
    /\ task' = IF Owns(w)
               THEN [task EXCEPT ![c.task] =
                       ReleaseRow(@, SweepTarget(c),
                                  IF c.source = "review" THEN "none" ELSE "due")]
               ELSE task
    /\ run' = IF Owns(w) THEN SetRun(run, c.token, "cancelled") ELSE run
    /\ worker' = [worker EXCEPT ![w] = Idle]
    /\ UNCHANGED <<deps, issued, enabled, crashes>>

\* _release_for_retry
Release(w) ==
    LET c == worker[w] IN
    /\ At(w, "releasing")
    /\ task' = IF Owns(w)
               THEN [task EXCEPT ![c.task] =
                       ReleaseRow(@, SweepTarget(c),
                                  IF c.source = "review" THEN "none" ELSE "due")]
               ELSE task
    /\ run' = SetRun(run, c.token, "cancelled")
    /\ worker' = [worker EXCEPT ![w] = Idle]
    /\ UNCHANGED <<deps, issued, enabled, crashes>>

----------------------------------------------------------------------------
(* Errors, shutdown and crashes *)

\* An exception inside the try block: refresh, classification, a transaction
\* that rolled back, the schema refresh.
TryRaises(w) ==
    /\ InTry(w) /\ crashes < MaxCrashes
    /\ worker' = Failing(w)
    /\ crashes' = crashes + 1
    /\ UNCHANGED storeVars

\* The daemon's stop() cancels the worker inside the try block.
Cancelled(w) ==
    /\ InTry(w) /\ crashes < MaxCrashes
    /\ worker' = [worker EXCEPT ![w].place = "releasing"]
    /\ crashes' = crashes + 1
    /\ UNCHANGED storeVars

\* The process dies, or an exception or a cancellation strikes outside the
\* try block (building the runtime target, the exception handlers).
Dies(w) ==
    /\ ~At(w, "idle") /\ crashes < MaxCrashes
    /\ worker' = [worker EXCEPT ![w] = Idle]
    /\ crashes' = crashes + 1
    /\ UNCHANGED storeVars
=============================================================================
