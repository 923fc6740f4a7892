----------------------------- MODULE TaskStore -----------------------------
(***************************************************************************)
(* The durable state of Task Flow for one profile: the tables task,        *)
(* task_dependency and task_run, and the statements of TaskFlowRepository  *)
(* that read and change them, as operators on one row or on a whole table. *)
(* The service (TaskFlowService) and the background runtime                *)
(* (TaskFlowRuntime) both work on these variables; every operation of      *)
(* theirs is one database transaction.                                     *)
(*                                                                         *)
(* Abstractions.  Timestamps are kept only as far as the code compares     *)
(* them: a lease is expired or not, ready_at is unset, due or later.  A    *)
(* claim token (16 random bytes) is the number of the task_run row created *)
(* in the same transaction.  Titles, documents, comments and events are    *)
(* left out, and so is the attempt counter.                                *)
(***************************************************************************)
EXTENDS Integers, FiniteSets

CONSTANTS
    Tasks,          \* identifiers a task row may have, each used once
    Employees,      \* the AI executors (owner_type = "employee")
    Human,          \* stands for every human owner
    NoOwner,        \* a NULL owner column
    Priority,       \* the priority of each task
    SatisfiedOn,    \* statuses a dependency edge may wait for
    MaxRuns         \* bound: number of claims a behaviour may issue

Runs == 1..MaxRuns
NoToken == 0
Owners == Employees \cup {Human}
Active == {"claimed", "running"}
Terminal == {"completed", "failed", "cancelled"}
Statuses == Active \cup Terminal \cup {"plan", "todo", "blocked", "review"}
NoRow == {"absent", "deleted"}      \* identifier not used yet, row deleted
Reasons == {"none", "dependency_wait", "review_changes_requested",
            "external_poll", "invalid_plan_status", "other"}
ReadyAt == {"none", "due", "later"}
LiveRun == {"claimed", "running"}

ASSUME StoreAssumption ==
    /\ Human \notin Employees
    /\ NoOwner \notin Owners
    /\ Priority \in [Tasks -> Int]
    \* Promoting a waiting task moves it from blocked to todo.  No edge waits
    \* for either, so the order in which dependents are promoted is immaterial.
    /\ SatisfiedOn \subseteq Statuses \ {"todo", "blocked"}
    /\ MaxRuns \in Nat
    /\ Tasks # {}

VARIABLES
    task,       \* table task, by identifier
    deps,       \* table task_dependency
    run,        \* table task_run, by identifier
    issued,     \* number of task_run rows created so far
    enabled     \* employees whose descriptor says status = active

storeVars == <<task, deps, run, issued, enabled>>

Row == [status : Statuses \cup NoRow,
        owner : Owners, reviewer : Owners \cup {NoOwner},
        requiresReview : BOOLEAN,
        claimOwner : Employees \cup {NoOwner},
        source : Statuses \cup {"none"},        \* claim_source_status
        token : 0..MaxRuns, expired : BOOLEAN,  \* claim_token, lease_until <= now
        ready : ReadyAt, reason : Reasons,
        lastRun : 0..MaxRuns]

Edge == [task : Tasks, dep : Tasks, on : Statuses]

RunRow == [task : Tasks,
           status : Statuses \cup {"none", "reassigned", "deleted"}]

StoreTypeOK ==
    /\ task \in [Tasks -> Row]
    /\ deps \subseteq Edge
    /\ run \in [Runs -> RunRow]
    /\ issued \in 0..MaxRuns
    /\ enabled \subseteq Employees

Exists(t) == task[t].status \in Statuses

\* The task of a record that stands for no row: which one it is is immaterial.
SomeTask == CHOOSE t \in Tasks : TRUE

NewRow(status, owner, reviewer, requiresReview, ready, reason) ==
    [status |-> status, owner |-> owner, reviewer |-> reviewer,
     requiresReview |-> requiresReview, claimOwner |-> NoOwner,
     source |-> "none", token |-> NoToken, expired |-> FALSE,
     ready |-> ready, reason |-> reason, lastRun |-> NoToken]

----------------------------------------------------------------------------
(* Statements on one task row *)

ClearClaim(row) ==
    [row EXCEPT !.claimOwner = NoOwner, !.source = "none",
                !.token = NoToken, !.expired = FALSE]

\* Broken: the marker of an argument not given reaches the column.
ReadyAfterLeaksUnset(row, status, given) ==
    IF status = "todo" THEN (IF row.ready = "none" THEN "due" ELSE row.ready)
    ELSE given

\* The ready_at column after an update to `status`; given = "unset" when the
\* caller passes no ready_at.
ReadyAfter(row, status, given) ==
    LET stored == IF given = "unset" THEN row.ready ELSE given IN
    IF status = "todo" THEN (IF stored = "none" THEN "due" ELSE stored)
    ELSE IF given = "unset" THEN "none" ELSE given

\* Broken: the task moves on but keeps its claim.
UpdateRowKeepsClaim(row, status, reason, given) ==
    [row EXCEPT !.status = status, !.reason = reason,
                !.ready = ReadyAfter(row, status, given)]

\* repo.update_task with a status: leaving active execution drops the claim.
UpdateRow(row, status, reason, given) ==
    [(IF status \in Active THEN row ELSE ClearClaim(row))
        EXCEPT !.status = status, !.reason = reason,
               !.ready = ReadyAfter(row, status, given)]

\* Broken: the claim is recorded for the owner, not for the reviewer.
ClaimRowForOwner(row, token, executor, source) ==
    [row EXCEPT !.status = "claimed", !.token = token,
                !.claimOwner = row.owner, !.source = source,
                !.expired = FALSE, !.ready = "none", !.reason = "none",
                !.lastRun = token]

ClaimRow(row, token, executor, source) ==
    [row EXCEPT !.status = "claimed", !.token = token,
                !.claimOwner = executor, !.source = source,
                !.expired = FALSE, !.ready = "none", !.reason = "none",
                !.lastRun = token]

StartRow(row) == [row EXCEPT !.status = "running"]

ReleaseRow(row, status, ready) ==
    [ClearClaim(row) EXCEPT !.status = status, !.ready = ready,
                            !.reason = "none"]

\* Broken: the executor of the finished claim stays in the row.
FinalizeRowKeepsExecutor(row, status, reason, ready, r) ==
    [row EXCEPT !.status = status, !.reason = reason, !.ready = ready,
                !.source = "none", !.token = NoToken, !.expired = FALSE,
                !.lastRun = r]

FinalizeRow(row, status, reason, ready, r) ==
    [ClearClaim(row) EXCEPT !.status = status, !.reason = reason,
                            !.ready = ready, !.lastRun = r]

\* Broken: any claim on the task will do.
HoldsSomeClaim(t, token) == task[t].status \in Active

\* The WHERE clause shared by start, refresh, finalize and release.
HoldsClaim(t, token) == task[t].token = token /\ task[t].status \in Active

\* update_task_run: a row that is not there is left alone.
SetRun(runs, r, status) ==
    IF r \in Runs /\ runs[r].status \notin {"none", "deleted"}
    THEN [runs EXCEPT ![r].status = status] ELSE runs

----------------------------------------------------------------------------
(* Scheduling *)

\* The executor a claim of this row would run as.
ClaimOwner(row) ==
    IF row.status = "review" /\ row.reviewer # NoOwner
    THEN row.reviewer ELSE row.owner

Runnable(row) ==
    /\ ClaimOwner(row) \in Employees
    /\ \/ row.status = "todo" /\ row.ready # "later"
       \/ /\ row.status = "blocked"
          /\ row.ready = "due" \/ row.reason = "review_changes_requested"
          /\ row.reason # "dependency_wait"
       \/ row.status = "review"

ActiveOwner(row) == IF row.claimOwner # NoOwner THEN row.claimOwner ELSE row.owner

Candidates(tasks) ==
    {t \in Tasks :
        /\ Runnable(tasks[t])
        /\ \A u \in Tasks : tasks[u].status \in Active =>
                                ActiveOwner(tasks[u]) # ClaimOwner(tasks[t])}

\* Ties of priority are broken by due date, flow load and age: any choice.
Shortlist(tasks) ==
    {t \in Candidates(tasks) :
        \A u \in Candidates(tasks) : Priority[u] <= Priority[t]}

\* has_active_ai_task
HasActiveTask(owner, except) ==
    \E u \in Tasks \ {except} : task[u].owner = owner /\ task[u].status \in Active

\* The partial unique indexes ux_task_active_employee_owner and
\* ux_task_active_employee_claim_owner.
IndexesHold(tasks) ==
    \A t, u \in Tasks :
        (t # u /\ tasks[t].status \in Active /\ tasks[u].status \in Active) =>
            /\ tasks[t].owner \in Employees => tasks[t].owner # tasks[u].owner
            /\ tasks[t].claimOwner \in Employees =>
                   tasks[t].claimOwner # tasks[u].claimOwner

----------------------------------------------------------------------------
(* Dependencies *)

Waiting(row) == row.status = "blocked" /\ row.reason = "dependency_wait"

AllSatisfied(tasks, edges, t) ==
    \A e \in edges : e.task = t => tasks[e.dep].status = e.on

Promote(row) == UpdateRow(row, "todo", "none", "unset")

\* Broken: one satisfied prerequisite is enough.
ReadinessAny(tasks, edges, t) ==
    IF /\ Waiting(tasks[t])
       /\ \E e \in edges : e.task = t /\ tasks[e.dep].status = e.on
    THEN Promote(tasks[t]) ELSE tasks[t]

\* Broken: only tasks of employees are woken.
ReadinessEmployees(tasks, edges, t) ==
    IF /\ Waiting(tasks[t]) /\ tasks[t].owner \in Employees
       /\ \E e \in edges : e.task = t
       /\ AllSatisfied(tasks, edges, t)
    THEN Promote(tasks[t]) ELSE tasks[t]

\* _reconcile_task_readiness: only ever promotes.
Readiness(tasks, edges, t) ==
    IF /\ Waiting(tasks[t])
       /\ \E e \in edges : e.task = t
       /\ AllSatisfied(tasks, edges, t)
    THEN Promote(tasks[t]) ELSE tasks[t]

\* Broken: a change of the edges promotes only a task left without any.
ReadinessAfterLastEdge(tasks, edges, t) ==
    IF AllSatisfied(tasks, edges, t)
    THEN IF Waiting(tasks[t]) /\ ~ \E e \in edges : e.task = t
         THEN Promote(tasks[t]) ELSE tasks[t]
    ELSE IF Waiting(tasks[t]) THEN tasks[t]
         ELSE UpdateRow(tasks[t], "blocked", "dependency_wait", "unset")

\* _reconcile_task_readiness_after_dependency_change: promotes or blocks.
ReadinessAfterChange(tasks, edges, t) ==
    IF AllSatisfied(tasks, edges, t)
    THEN IF Waiting(tasks[t]) THEN Promote(tasks[t]) ELSE tasks[t]
    ELSE IF Waiting(tasks[t]) THEN tasks[t]
         ELSE UpdateRow(tasks[t], "blocked", "dependency_wait", "unset")

\* _reconcile_dependent_tasks: every task with an edge to t.
ReconcileDependents(tasks, edges, t) ==
    [u \in Tasks |->
        IF \E e \in edges : e.task = u /\ e.dep = t
        THEN Readiness(tasks, edges, u) ELSE tasks[u]]

\* d reaches t along the edges: every set that holds d and is closed under
\* "depends on" holds t.  The search of _ensure_no_dependency_cycle.
Reaches(edges, d, t) ==
    \A S \in SUBSET Tasks :
        (d \in S /\ \A e \in edges : e.task \in S => e.dep \in S) => t \in S

----------------------------------------------------------------------------
(* The clock and the employee descriptors *)

LeaseExpires(t) ==
    /\ task[t].token # NoToken /\ ~task[t].expired
    /\ task' = [task EXCEPT ![t].expired = TRUE]
    /\ UNCHANGED <<deps, run, issued, enabled>>

ReadyTimeComes(t) ==
    /\ task[t].ready = "later"
    /\ task' = [task EXCEPT ![t].ready = "due"]
    /\ UNCHANGED <<deps, run, issued, enabled>>

EmployeeStatusChanges(e) ==
    /\ enabled' = IF e \in enabled THEN enabled \ {e} ELSE enabled \cup {e}
    /\ UNCHANGED <<task, deps, run, issued>>
=============================================================================
