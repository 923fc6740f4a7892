-------------------------- MODULE TaskFlowService --------------------------
(***************************************************************************)
(* TaskFlowService: what people, automations and the agents themselves do  *)
(* to tasks.  Each operation runs inside one session_write_scope, so it is *)
(* one atomic step.  Who may call it (actor validation) is not modelled:   *)
(* an operation that some actor may call may happen.                       *)
(***************************************************************************)
EXTENDS TaskStore

CONSTANTS
    SetStatuses,    \* statuses update_task is called with, other than blocked
    BlockReasons,   \* blocked_reason_code values callers pass
    Reviewers,      \* reviewers new tasks are created with
    ReviewFlags,    \* values of requires_review
    Originals,      \* tasks that exist at the start
    OriginalStatuses    \* their statuses

ASSUME ServiceAssumption ==
    /\ SetStatuses \subseteq Statuses \ {"blocked"}
    /\ BlockReasons \subseteq Reasons
    /\ Reviewers \subseteq Owners \cup {NoOwner}
    /\ ReviewFlags \subseteq BOOLEAN
    /\ Originals \subseteq Tasks
    /\ OriginalStatuses \subseteq {"plan", "todo"}

\* _ensure_actor_refs_exist: an employee that is not active cannot be named.
Usable(ref) == ref \in Employees => ref \in enabled

\* Broken: the lane is checked only for the status, not for the owner.
PlanAllowedForAll(status, owner) == TRUE

\* _ensure_plan_status_owner_is_human
PlanAllowed(status, owner) == status = "plan" => owner = Human

ReviewActionable(row) ==
    row.status = "review" \/ (row.status \in Active /\ row.source = "review")

----------------------------------------------------------------------------
Create(t, owner, reviewer, review, asked, prerequisites) ==
    LET status == IF asked # "default" THEN asked
                  ELSE IF prerequisites = {} THEN "todo" ELSE "blocked"
        row == NewRow(status, owner, reviewer, review,
                      IF prerequisites = {} /\ status = "todo" THEN "due" ELSE "none",
                      IF status = "blocked" THEN "dependency_wait" ELSE "none")
        tasks == [task EXCEPT ![t] = row]
        edges == deps \cup {[task |-> t, dep |-> d, on |-> "completed"] :
                                d \in prerequisites}
    IN  /\ task[t].status = "absent"
        /\ asked \in {"default", "plan", "todo"}
        /\ \A d \in prerequisites : Exists(d)
        /\ Usable(owner) /\ Usable(reviewer) /\ PlanAllowed(status, owner)
        /\ deps' = edges
        /\ task' = [tasks EXCEPT ![t] = Readiness(tasks, edges, t)]
        /\ UNCHANGED <<run, issued, enabled>>

\* status = "keep": the caller passes no status.
UpdateTask(t, status, owner, reason, given) ==
    LET row == task[t]
        moved == owner # row.owner
        eff == IF moved /\ status = "keep" /\ row.status \in Active
               THEN "todo" ELSE status
        after == IF eff = "keep" THEN row.status ELSE eff
        updated == IF eff = "keep" THEN row ELSE UpdateRow(row, eff, reason, given)
        tasks == [task EXCEPT ![t] = [updated EXCEPT !.owner = owner]]
    IN  /\ Exists(t)
        /\ ~(moved /\ status \in Active)
        /\ Usable(owner) /\ Usable(row.reviewer) /\ PlanAllowed(after, owner)
        /\ (owner \in Employees /\ eff \in Active) => ~HasActiveTask(owner, t)
        /\ IndexesHold(tasks)
        /\ task' = IF eff = "completed" THEN ReconcileDependents(tasks, deps, t)
                   ELSE IF eff = "todo"
                   THEN [tasks EXCEPT ![t] = ReadinessAfterChange(tasks, deps, t)]
                   ELSE tasks
        /\ UNCHANGED <<deps, run, issued, enabled>>

\* block_task: a task that waits for prerequisites has no revisit time.
BlockTask(t, owner, reason, given) ==
    /\ reason = "dependency_wait" => given = "unset"
    /\ UpdateTask(t, "blocked", owner, reason, given)

UpdateReviewPolicy(t, reviewer, review) ==
    /\ Exists(t)
    /\ Usable(task[t].owner) /\ Usable(reviewer)
    /\ PlanAllowed(task[t].status, task[t].owner)
    /\ task' = [task EXCEPT ![t] = [@ EXCEPT !.reviewer = reviewer,
                                             !.requiresReview = review]]
    /\ UNCHANGED <<deps, run, issued, enabled>>

ApproveReview(t) ==
    LET tasks == [task EXCEPT ![t] = UpdateRow(@, "completed", "none", "unset")]
    IN  /\ Exists(t) /\ ReviewActionable(task[t])
        /\ task' = ReconcileDependents(tasks, deps, t)
        /\ UNCHANGED <<deps, run, issued, enabled>>

\* The owner stays, is named by the caller, or becomes the AI reviewer.
RequestChanges(t, owner) ==
    /\ Exists(t) /\ ReviewActionable(task[t])
    /\ Usable(owner) /\ Usable(task[t].reviewer)
    /\ task' = [task EXCEPT ![t] =
                  [UpdateRow(@, "blocked", "review_changes_requested",
                             IF owner \in Employees THEN "due" ELSE "none")
                     EXCEPT !.owner = owner]]
    /\ UNCHANGED <<deps, run, issued, enabled>>

\* _create_dependency_edge accepts the edge.
EdgeAllowed(t, d) ==
    /\ Exists(d) /\ t # d
    /\ ~ \E e \in deps : e.task = t /\ e.dep = d
    /\ ~ Reaches(deps, d, t)

\* Broken: only a task waiting for itself is refused.
AddAnyDependency(t, d, on) ==
    LET edges == deps \cup {[task |-> t, dep |-> d, on |-> on]}
    IN  /\ Exists(t) /\ Exists(d) /\ t # d
        /\ ~ \E e \in deps : e.task = t /\ e.dep = d
        /\ deps' = edges
        /\ task' = [task EXCEPT ![t] = ReadinessAfterChange(task, edges, t)]
        /\ UNCHANGED <<run, issued, enabled>>

AddDependency(t, d, on) ==
    LET edges == deps \cup {[task |-> t, dep |-> d, on |-> on]}
    IN  /\ Exists(t) /\ EdgeAllowed(t, d)
        /\ deps' = edges
        /\ task' = [task EXCEPT ![t] = ReadinessAfterChange(task, edges, t)]
        /\ UNCHANGED <<run, issued, enabled>>

RemoveDependency(t, d) ==
    LET edges == {e \in deps : ~(e.task = t /\ e.dep = d)}
    IN  /\ Exists(t) /\ edges # deps
        /\ deps' = edges
        /\ task' = [task EXCEPT ![t] = ReadinessAfterChange(task, edges, t)]
        /\ UNCHANGED <<run, issued, enabled>>

\* The delegated task n is created and, with wait, becomes a prerequisite.
Delegate(t, n, owner, review, wait) ==
    LET tasks == [task EXCEPT ![n] = NewRow("todo", owner, NoOwner, review, "due", "none")]
        edges == IF wait THEN deps \cup {[task |-> t, dep |-> n, on |-> "completed"]}
                 ELSE deps
    IN  /\ Exists(t) /\ task[t].status \notin Terminal
        /\ task[n].status = "absent"
        /\ Usable(owner)
        /\ deps' = edges
        /\ task' = IF wait THEN [tasks EXCEPT ![t] = ReadinessAfterChange(tasks, edges, t)]
                   ELSE tasks
        /\ UNCHANGED <<run, issued, enabled>>

DeletedRow == NewRow("deleted", Human, NoOwner, FALSE, "none", "none")

Dependents(ts) == {u \in Tasks \ ts : \E e \in deps : e.task = u /\ e.dep \in ts}

\* _delete_task_row for each of ts in turn.  A dependent that stays is reconciled
\* each time one of its prerequisites is gone: after the first of them, first[u],
\* and, as nothing else changes for it in between, once more at the end.
DeleteRows(ts, first) ==
    LET edges == {e \in deps : e.task \notin ts /\ e.dep \notin ts}
        others(u) == {e \in deps : e.task = u /\ e.dep # first[u]}
        begun(u) == [task EXCEPT ![u] = ReadinessAfterChange(task, others(u), u)]
    IN  /\ \A t \in ts : Exists(t) /\ task[t].status \notin Active
        /\ deps' = edges
        /\ run' = [r \in Runs |-> IF run[r].status # "none" /\ run[r].task \in ts
                                  THEN [run[r] EXCEPT !.status = "deleted"] ELSE run[r]]
        /\ task' = [u \in Tasks |->
                      IF u \in ts THEN DeletedRow
                      ELSE IF u \in Dependents(ts) THEN ReadinessAfterChange(begun(u), edges, u)
                      ELSE task[u]]
        /\ UNCHANGED <<issued, enabled>>

Delete(t) == DeleteRows({t}, [u \in Dependents({t}) |-> t])

\* Any tasks may be those of the flow, and any order that in which they go.
DeleteFlow(ts) ==
    \E first \in [Dependents(ts) -> ts] :
        /\ \A u \in Dependents(ts) : \E e \in deps : e.task = u /\ e.dep = first[u]
        /\ DeleteRows(ts, first)

----------------------------------------------------------------------------
\* The store at the start: tasks not begun yet and no edges.  An AI-owned
\* plan task can only be a row written before the service refused it.
AbsentRow == NewRow("absent", Human, NoOwner, FALSE, "none", "none")
OriginalRows == {NewRow(s, o, v, b, IF s = "todo" THEN "due" ELSE "none", "none") :
                    s \in OriginalStatuses, o \in Owners,
                    v \in Reviewers, b \in ReviewFlags}

StoreInit ==
    /\ task \in {f \in [Tasks -> OriginalRows \cup {AbsentRow}] :
                   \A t \in Tasks : t \in Originals <=> f[t] # AbsentRow}
    /\ deps = {}
    /\ run = [r \in Runs |-> [task |-> SomeTask, status |-> "none"]]
    /\ issued = 0
    /\ enabled = Employees
=============================================================================
