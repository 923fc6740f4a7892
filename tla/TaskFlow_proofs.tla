--------------------------- MODULE TaskFlow_proofs --------------------------
(***************************************************************************)
(* Every operation of Task Flow leaves its state well typed; the           *)
(* dependencies of tasks never form a cycle; no wake-up is lost.           *)
(*                                                                         *)
(* The lemmas on types follow the modules: statements on rows, readiness,  *)
(* operations of the service, steps of the runtime.                        *)
(*                                                                         *)
(* Edges are added in three ways: add_dependency searches for a path back, *)
(* create_task and delegate_task rely on the new task having no edges yet. *)
(* The latter is why the invariant is strengthened: edges join existing    *)
(* tasks only, so a task that is new or deleted has none.                  *)
(*                                                                         *)
(* A task that waits for its prerequisites is woken when the last of them  *)
(* is completed: of every step, either the task does not wait for a        *)
(* completed prerequisite only, or a worker is about to reconcile it.      *)
(***************************************************************************)
EXTENDS TaskFlow, TLAPS

LEMMA SomeTaskType == SomeTask \in Tasks
  BY StoreAssumption DEF SomeTask

LEMMA NoTokenType == NoToken \in 0..MaxRuns
  BY StoreAssumption DEF StoreAssumption, NoToken

LEMMA NewRowType ==
  ASSUME NEW status \in Statuses \cup NoRow, NEW owner \in Owners,
         NEW reviewer \in Owners \cup {NoOwner}, NEW review \in BOOLEAN,
         NEW ready \in ReadyAt, NEW reason \in Reasons
  PROVE  NewRow(status, owner, reviewer, review, ready, reason) \in Row
  BY NoTokenType DEF NewRow, Row

LEMMA ClearClaimType ==
  ASSUME NEW row \in Row
  PROVE  ClearClaim(row) \in Row
  BY NoTokenType DEF ClearClaim, Row

LEMMA ReadyAfterType ==
  ASSUME NEW row \in Row, NEW status \in Statuses,
         NEW given \in ReadyAt \cup {"unset"}
  PROVE  ReadyAfter(row, status, given) \in ReadyAt
  BY DEF ReadyAfter, Row, ReadyAt

LEMMA UpdateRowType ==
  ASSUME NEW row \in Row, NEW status \in Statuses, NEW reason \in Reasons,
         NEW given \in ReadyAt \cup {"unset"}
  PROVE  UpdateRow(row, status, reason, given) \in Row
  <1> DEFINE base == IF status \in Active THEN row ELSE ClearClaim(row)
  <1>1. base \in Row
    BY ClearClaimType
  <1>2. ReadyAfter(row, status, given) \in ReadyAt
    BY ReadyAfterType
  <1> HIDE DEF base
  <1>3. [base EXCEPT !.status = status, !.reason = reason,
                     !.ready = ReadyAfter(row, status, given)] \in Row
    BY <1>1, <1>2 DEF Row
  <1> QED
    BY <1>3 DEF UpdateRow, base

LEMMA ClaimRowType ==
  ASSUME NEW row \in Row, row.status \in Statuses, NEW token \in 0..MaxRuns,
         NEW executor \in Employees, NEW source \in Statuses \cup {"none"}
  PROVE  ClaimRow(row, token, executor, source) \in Row
  <1>1. "claimed" \in Statuses /\ "none" \in ReadyAt /\ "none" \in Reasons
    BY DEF Statuses, Active, ReadyAt, Reasons
  <1> QED
    BY <1>1 DEF ClaimRow, Row

LEMMA ReleaseRowType ==
  ASSUME NEW row \in Row, NEW status \in Statuses, NEW ready \in ReadyAt
  PROVE  ReleaseRow(row, status, ready) \in Row
  <1>1. ClearClaim(row) \in Row
    BY ClearClaimType
  <1> QED
    BY <1>1 DEF ReleaseRow, Row, Reasons

LEMMA FinalizeRowType ==
  ASSUME NEW row \in Row, NEW status \in Statuses, NEW reason \in Reasons,
         NEW ready \in ReadyAt, NEW r \in 0..MaxRuns
  PROVE  FinalizeRow(row, status, reason, ready, r) \in Row
  <1>1. ClearClaim(row) \in Row
    BY ClearClaimType
  <1> QED
    BY <1>1 DEF FinalizeRow, Row

LEMMA SetRunType ==
  ASSUME NEW runs \in [Runs -> RunRow], NEW r,
         NEW status \in Statuses \cup {"none", "reassigned", "deleted"}
  PROVE  SetRun(runs, r, status) \in [Runs -> RunRow]
  BY DEF SetRun, RunRow

LEMMA ClaimOwnerType ==
  ASSUME NEW row \in Row
  PROVE  ClaimOwner(row) \in Owners
  BY DEF ClaimOwner, Row

LEMMA PromoteType ==
  ASSUME NEW row \in Row
  PROVE  Promote(row) \in Row
  BY UpdateRowType DEF Promote, Statuses, Reasons, ReadyAt

LEMMA ReadinessType ==
  ASSUME NEW tasks \in [Tasks -> Row], NEW edges, NEW t \in Tasks
  PROVE  Readiness(tasks, edges, t) \in Row
  BY PromoteType DEF Readiness

LEMMA ReadinessAfterChangeType ==
  ASSUME NEW tasks \in [Tasks -> Row], NEW edges, NEW t \in Tasks
  PROVE  ReadinessAfterChange(tasks, edges, t) \in Row
  <1>1. UpdateRow(tasks[t], "blocked", "dependency_wait", "unset") \in Row
    BY UpdateRowType DEF Statuses, Reasons, ReadyAt
  <1> QED
    BY <1>1, PromoteType DEF ReadinessAfterChange

LEMMA ReconcileDependentsType ==
  ASSUME NEW tasks \in [Tasks -> Row], NEW edges, NEW t \in Tasks
  PROVE  ReconcileDependents(tasks, edges, t) \in [Tasks -> Row]
  BY ReadinessType DEF ReconcileDependents

----------------------------------------------------------------------------
(* The operations of the service *)

LEMMA CreateType ==
  ASSUME StoreTypeOK, NEW t \in Tasks, NEW owner \in Owners, NEW reviewer \in Reviewers,
         NEW review \in ReviewFlags, NEW asked, NEW D \in SUBSET Tasks,
         Create(t, owner, reviewer, review, asked, D)
  PROVE  StoreTypeOK'
  <1> DEFINE status == IF asked # "default" THEN asked
                       ELSE IF D = {} THEN "todo" ELSE "blocked"
             ready == IF D = {} /\ status = "todo" THEN "due" ELSE "none"
             reason == IF status = "blocked" THEN "dependency_wait" ELSE "none"
             row == NewRow(status, owner, reviewer, review, ready, reason)
             tasks == [task EXCEPT ![t] = row]
             edges == deps \cup {[task |-> t, dep |-> d, on |-> "completed"] : d \in D}
  <1>1. row \in Row
    <2>1. status \in Statuses
      BY DEF Create, Statuses
    <2>2. ready \in ReadyAt /\ reason \in Reasons
      BY DEF ReadyAt, Reasons
    <2>3. reviewer \in Owners \cup {NoOwner} /\ review \in BOOLEAN
      BY ServiceAssumption DEF ServiceAssumption
    <2> HIDE DEF status, ready, reason
    <2> QED
      BY <2>1, <2>2, <2>3, NewRowType
  <1>2. tasks \in [Tasks -> Row]
    <2> HIDE DEF row
    <2> QED
      BY <1>1 DEF StoreTypeOK
  <1>3. edges \subseteq Edge
    BY DEF StoreTypeOK, Edge, Statuses, Terminal
  <1>4. /\ deps' = edges
        /\ task' = [tasks EXCEPT ![t] = Readiness(tasks, edges, t)]
        /\ UNCHANGED <<run, issued, enabled>>
    BY DEF Create
  <1> HIDE DEF tasks, edges
  <1>5. Readiness(tasks, edges, t) \in Row
    BY <1>2, ReadinessType
  <1> QED
    BY <1>2, <1>3, <1>4, <1>5 DEF StoreTypeOK

LEMMA UpdateTaskType ==
  ASSUME StoreTypeOK, NEW t \in Tasks, NEW status \in Statuses \cup {"keep"},
         NEW owner \in Owners, NEW reason \in Reasons,
         NEW given \in ReadyAt \cup {"unset"},
         UpdateTask(t, status, owner, reason, given)
  PROVE  StoreTypeOK'
  <1> DEFINE row == task[t]
             eff == IF owner # row.owner /\ status = "keep" /\ row.status \in Active
                    THEN "todo" ELSE status
             updated == IF eff = "keep" THEN row ELSE UpdateRow(row, eff, reason, given)
             tasks == [task EXCEPT ![t] = [updated EXCEPT !.owner = owner]]
  <1>1. row \in Row
    BY DEF StoreTypeOK
  <1>2. eff \in Statuses \cup {"keep"}
    BY DEF Statuses
  <1>3. /\ task' = IF eff = "completed" THEN ReconcileDependents(tasks, deps, t)
                   ELSE IF eff = "todo"
                   THEN [tasks EXCEPT ![t] = ReadinessAfterChange(tasks, deps, t)]
                   ELSE tasks
        /\ UNCHANGED <<deps, run, issued, enabled>>
    BY DEF UpdateTask
  <1> HIDE DEF row, eff
  <1>4. updated \in Row
    BY <1>1, <1>2, UpdateRowType
  <1> HIDE DEF updated
  <1>5. tasks \in [Tasks -> Row]
    BY <1>4 DEF StoreTypeOK, Row
  <1> HIDE DEF tasks
  <1> QED
    BY <1>3, <1>5, ReconcileDependentsType, ReadinessAfterChangeType DEF StoreTypeOK

LEMMA UpdateReviewPolicyType ==
  ASSUME StoreTypeOK, NEW t \in Tasks, NEW reviewer \in Reviewers,
         NEW review \in ReviewFlags, UpdateReviewPolicy(t, reviewer, review)
  PROVE  StoreTypeOK'
  <1>1. reviewer \in Owners \cup {NoOwner} /\ review \in BOOLEAN
    BY ServiceAssumption DEF ServiceAssumption
  <1>2. [task[t] EXCEPT !.reviewer = reviewer, !.requiresReview = review] \in Row
    BY <1>1 DEF StoreTypeOK, Row
  <1> QED
    BY <1>2 DEF StoreTypeOK, UpdateReviewPolicy

LEMMA ApproveReviewType ==
  ASSUME StoreTypeOK, NEW t \in Tasks, ApproveReview(t)
  PROVE  StoreTypeOK'
  <1> DEFINE tasks == [task EXCEPT ![t] = UpdateRow(@, "completed", "none", "unset")]
  <1>1. UpdateRow(task[t], "completed", "none", "unset") \in Row
    BY UpdateRowType DEF StoreTypeOK, Statuses, Terminal, Reasons
  <1>2. tasks \in [Tasks -> Row]
    BY <1>1 DEF StoreTypeOK
  <1>3. task' = ReconcileDependents(tasks, deps, t) /\ UNCHANGED <<deps, run, issued, enabled>>
    BY DEF ApproveReview
  <1> HIDE DEF tasks
  <1> QED
    BY <1>2, <1>3, ReconcileDependentsType DEF StoreTypeOK

LEMMA RequestChangesType ==
  ASSUME StoreTypeOK, NEW t \in Tasks, NEW owner \in Owners, RequestChanges(t, owner)
  PROVE  StoreTypeOK'
  <1> DEFINE given == IF owner \in Employees THEN "due" ELSE "none"
             updated == UpdateRow(task[t], "blocked", "review_changes_requested", given)
  <1>1. updated \in Row
    BY UpdateRowType DEF StoreTypeOK, Statuses, Reasons, ReadyAt
  <1>2. /\ task' = [task EXCEPT ![t] = [updated EXCEPT !.owner = owner]]
        /\ UNCHANGED <<deps, run, issued, enabled>>
    BY DEF RequestChanges
  <1> HIDE DEF updated
  <1> QED
    BY <1>1, <1>2 DEF StoreTypeOK, Row

LEMMA AddDependencyType ==
  ASSUME StoreTypeOK, NEW t \in Tasks, NEW d \in Tasks, NEW on \in SatisfiedOn,
         AddDependency(t, d, on)
  PROVE  StoreTypeOK'
  <1> DEFINE edges == deps \cup {[task |-> t, dep |-> d, on |-> on]}
  <1>1. edges \subseteq Edge
    BY StoreAssumption DEF StoreAssumption, StoreTypeOK, Edge
  <1>2. /\ deps' = edges
        /\ task' = [task EXCEPT ![t] = ReadinessAfterChange(task, edges, t)]
        /\ UNCHANGED <<run, issued, enabled>>
    BY DEF AddDependency
  <1> HIDE DEF edges
  <1> QED
    BY <1>1, <1>2, ReadinessAfterChangeType DEF StoreTypeOK

LEMMA RemoveDependencyType ==
  ASSUME StoreTypeOK, NEW t \in Tasks, NEW d \in Tasks, RemoveDependency(t, d)
  PROVE  StoreTypeOK'
  <1> DEFINE edges == {e \in deps : ~(e.task = t /\ e.dep = d)}
  <1>1. edges \subseteq Edge
    BY DEF StoreTypeOK
  <1>2. /\ deps' = edges
        /\ task' = [task EXCEPT ![t] = ReadinessAfterChange(task, edges, t)]
        /\ UNCHANGED <<run, issued, enabled>>
    BY DEF RemoveDependency
  <1> HIDE DEF edges
  <1> QED
    BY <1>1, <1>2, ReadinessAfterChangeType DEF StoreTypeOK

LEMMA DelegateType ==
  ASSUME StoreTypeOK, NEW t \in Tasks, NEW n \in Tasks, NEW owner \in Employees,
         NEW review \in ReviewFlags, NEW wait \in BOOLEAN,
         Delegate(t, n, owner, review, wait)
  PROVE  StoreTypeOK'
  <1> DEFINE row == NewRow("todo", owner, NoOwner, review, "due", "none")
             tasks == [task EXCEPT ![n] = row]
             edges == IF wait THEN deps \cup {[task |-> t, dep |-> n, on |-> "completed"]}
                      ELSE deps
  <1>1. row \in Row
    BY NewRowType, ServiceAssumption
    DEF ServiceAssumption, Owners, Statuses, ReadyAt, Reasons
  <1>2. tasks \in [Tasks -> Row]
    <2> HIDE DEF row
    <2> QED
      BY <1>1 DEF StoreTypeOK
  <1>3. edges \subseteq Edge
    BY DEF StoreTypeOK, Edge, Statuses, Terminal
  <1>4. /\ deps' = edges
        /\ task' = IF wait THEN [tasks EXCEPT ![t] = ReadinessAfterChange(tasks, edges, t)]
                   ELSE tasks
        /\ UNCHANGED <<run, issued, enabled>>
    BY DEF Delegate
  <1> HIDE DEF tasks, edges
  <1> QED
    BY <1>2, <1>3, <1>4, ReadinessAfterChangeType DEF StoreTypeOK

LEMMA DeleteRowsType ==
  ASSUME StoreTypeOK, NEW ts, NEW first, DeleteRows(ts, first)
  PROVE  StoreTypeOK'
  <1> DEFINE edges == {e \in deps : e.task \notin ts /\ e.dep \notin ts}
             others(u) == {e \in deps : e.task = u /\ e.dep # first[u]}
             begun(u) == [task EXCEPT ![u] = ReadinessAfterChange(task, others(u), u)]
  <1>1. DeletedRow \in Row
    BY NewRowType DEF DeletedRow, Owners, NoRow, ReadyAt, Reasons
  <1>2. \A u \in Tasks : ReadinessAfterChange(begun(u), edges, u) \in Row
    <2> SUFFICES ASSUME NEW u \in Tasks
                 PROVE  ReadinessAfterChange(begun(u), edges, u) \in Row
      OBVIOUS
    <2>1. ReadinessAfterChange(task, others(u), u) \in Row
      BY ReadinessAfterChangeType DEF StoreTypeOK
    <2> HIDE DEF others, edges
    <2>2. begun(u) \in [Tasks -> Row]
      BY <2>1 DEF StoreTypeOK
    <2> QED
      BY <2>2, ReadinessAfterChangeType
  <1>3. edges \subseteq Edge
    BY DEF StoreTypeOK
  <1>4. /\ deps' = edges
        /\ task' = [u \in Tasks |->
                      IF u \in ts THEN DeletedRow
                      ELSE IF u \in Dependents(ts)
                           THEN ReadinessAfterChange(begun(u), edges, u)
                      ELSE task[u]]
        /\ UNCHANGED <<issued, enabled>>
    BY DEF DeleteRows
  <1>5. run' \in [Runs -> RunRow]
    <2>1. run' = [r \in Runs |-> IF run[r].status # "none" /\ run[r].task \in ts
                                 THEN [run[r] EXCEPT !.status = "deleted"] ELSE run[r]]
      BY DEF DeleteRows
    <2> QED
      BY <2>1 DEF StoreTypeOK, RunRow
  <1> HIDE DEF begun, edges
  <1>6. task' \in [Tasks -> Row]
    BY <1>1, <1>2, <1>4 DEF StoreTypeOK
  <1> QED
    BY <1>3, <1>4, <1>5, <1>6 DEF StoreTypeOK

\* The operations of the service with arguments of the right types.
ServiceCreates(t) ==
    \E o \in Owners, v \in Reviewers, b \in ReviewFlags, D \in SUBSET (Tasks \ {t}) :
        \E s : Create(t, o, v, b, s, D)
ServiceUpdates(t) ==
    \E s \in Statuses \cup {"keep"}, o \in Owners, c \in Reasons, g \in ReadyAt \cup {"unset"} :
        c \in BlockReasons \cup {"none"} /\ UpdateTask(t, s, o, c, g)
ServiceDeletes(t) ==
    \E ts \in SUBSET Tasks : t \in ts /\ \E first : DeleteRows(ts, first)
ServiceDelegates(t) ==
    \E n \in Tasks, o \in Employees, b \in ReviewFlags, wait \in BOOLEAN :
        Delegate(t, n, o, b, wait)

LEMMA ServiceStepCases ==
  ASSUME StoreTypeOK, NEW t \in Tasks, ServiceStep(t)
  PROVE  \/ ServiceCreates(t)
         \/ ServiceUpdates(t)
         \/ /\ "policy" \in Operations
            /\ \E v \in Reviewers, b \in ReviewFlags : UpdateReviewPolicy(t, v, b)
         \/ ApproveReview(t)
         \/ \E o \in Owners : RequestChanges(t, o)
         \/ \/ \E d \in Tasks, on \in SatisfiedOn : AddDependency(t, d, on)
            \/ \E d \in Tasks : RemoveDependency(t, d)
         \/ ServiceDelegates(t)
         \/ ServiceDeletes(t)
  <1>1. task[t].owner \in Owners /\ ClaimOwner(task[t]) \in Owners
    BY ClaimOwnerType DEF StoreTypeOK, Row
  <1>2. NextOwners(t) \subseteq Owners
    BY <1>1 DEF NextOwners
  <1>3. SetStatuses \subseteq Statuses /\ BlockReasons \subseteq Reasons
    BY ServiceAssumption DEF ServiceAssumption
  <1>4. /\ "none" \in Reasons /\ "blocked" \in Statuses
        /\ "unset" \in ReadyAt \cup {"unset"} /\ "later" \in ReadyAt \cup {"unset"}
    BY DEF Reasons, Statuses, ReadyAt
  <1>5. ASSUME NEW s \in SetStatuses, NEW o \in NextOwners(t),
               UpdateTask(t, s, o, "none", "unset")
        PROVE  ServiceUpdates(t)
    BY <1>2, <1>3, <1>4, <1>5 DEF ServiceUpdates
  <1>6. ASSUME NEW c \in BlockReasons, NEW g \in {"unset", "later"}, NEW o \in NextOwners(t),
               BlockTask(t, o, c, g)
        PROVE  ServiceUpdates(t)
    BY <1>2, <1>3, <1>4, <1>6 DEF ServiceUpdates, BlockTask
  <1>7. ASSUME NEW o \in NextOwners(t), UpdateTask(t, "keep", o, "none", "unset")
        PROVE  ServiceUpdates(t)
    BY <1>2, <1>4, <1>7 DEF ServiceUpdates
  <1>8. ASSUME NEW o \in Owners, NEW v \in Reviewers, NEW b \in ReviewFlags, NEW s,
               NEW D \in SUBSET (Tasks \ {t}), Create(t, o, v, b, s, D)
        PROVE  ServiceCreates(t)
    BY <1>8 DEF ServiceCreates
  <1>9. ASSUME Delete(t) \/ \E ts \in SUBSET Tasks : t \in ts /\ DeleteFlow(ts)
        PROVE  ServiceDeletes(t)
    <2>1. CASE Delete(t)
      <3>1. {t} \in SUBSET Tasks /\ t \in {t}
        OBVIOUS
      <3> QED
        BY <2>1, <3>1 DEF Delete, ServiceDeletes
    <2>2. CASE \E ts \in SUBSET Tasks : t \in ts /\ DeleteFlow(ts)
      BY <2>2 DEF DeleteFlow, ServiceDeletes
    <2> QED
      BY <1>9, <2>1, <2>2
  <1> QED
    BY <1>1, <1>5, <1>6, <1>7, <1>8, <1>9 DEF ServiceStep, ServiceDelegates

LEMMA ServiceStepType ==
  ASSUME StoreTypeOK, NEW t \in Tasks, ServiceStep(t)
  PROVE  StoreTypeOK'
  <1>1. CASE ServiceCreates(t)
    BY <1>1, CreateType DEF ServiceCreates
  <1>2. CASE ServiceUpdates(t)
    BY <1>2, UpdateTaskType DEF ServiceUpdates
  <1>3. CASE ServiceDelegates(t)
    BY <1>3, DelegateType DEF ServiceDelegates
  <1>4. CASE ServiceDeletes(t)
    BY <1>4, DeleteRowsType DEF ServiceDeletes
  <1> QED
    BY <1>1, <1>2, <1>3, <1>4, ServiceStepCases, UpdateReviewPolicyType, ApproveReviewType,
       RequestChangesType, AddDependencyType, RemoveDependencyType

----------------------------------------------------------------------------
(* The steps of the runtime *)

LEMMA SweepTargetType ==
  ASSUME NEW row
  PROVE  SweepTarget(row) \in Statuses
  BY DEF SweepTarget, Statuses

LEMMA SweepType ==
  ASSUME TypeOK, SweepExpiredClaims
  PROVE  TypeOK'
  <1>1. ASSUME NEW t \in Tasks
        PROVE  Swept(task[t]) \in Row
    BY ReleaseRowType, SweepTargetType DEF Swept, TypeOK, StoreTypeOK, ReadyAt
  <1>2. task' \in [Tasks -> Row]
    <2>1. task' = [t \in Tasks |-> IF t \in Expired THEN Swept(task[t]) ELSE task[t]]
      BY DEF SweepExpiredClaims
    <2> QED
      BY <1>1, <2>1 DEF TypeOK, StoreTypeOK
  <1>3. ASSUME NEW r \in Runs
        PROVE  SetRun(run, r, "cancelled") \in [Runs -> RunRow]
    BY SetRunType DEF TypeOK, StoreTypeOK, Statuses, Terminal
  <1>4. run' \in [Runs -> RunRow]
    <2>1. run' = [r \in Runs |-> IF \E t \in Expired : task[t].lastRun = r
                                 THEN SetRun(run, r, "cancelled")[r] ELSE run[r]]
      BY DEF SweepExpiredClaims
    <2> QED
      BY <1>3, <2>1 DEF TypeOK, StoreTypeOK
  <1> QED
    BY <1>2, <1>4 DEF SweepExpiredClaims, TypeOK, StoreTypeOK, RuntimeTypeOK

LEMMA GuardedType ==
  ASSUME StoreTypeOK
  PROVE  Guarded \in [Tasks -> Row]
  BY UpdateRowType DEF StoreTypeOK, Guarded, AiPlanTasks, Statuses, Reasons, ReadyAt

\* The guard changes no task that can be claimed.
LEMMA GuardedShortlist ==
  ASSUME StoreTypeOK, NEW t \in Shortlist(Guarded)
  PROVE  /\ t \in Tasks /\ Guarded[t] = task[t]
         /\ task[t].status \in {"todo", "blocked", "review"}
         /\ ClaimOwner(task[t]) \in Employees
  <1>1. t \in Tasks /\ Runnable(Guarded[t])
    BY DEF Shortlist, Candidates
  <1>2. Guarded[t] = task[t]
    <2> DEFINE blocked == UpdateRow(task[t], "blocked", "invalid_plan_status", "none")
    <2>1. blocked.status = "blocked" /\ blocked.ready = "none"
          /\ blocked.reason = "invalid_plan_status"
      BY <1>1, ClearClaimType DEF UpdateRow, ReadyAfter, StoreTypeOK, Row, Active
    <2>2. ~Runnable(blocked)
      BY <2>1 DEF Runnable
    <2> QED
      BY <1>1, <2>2 DEF Guarded, AiPlanTasks
  <1> QED
    BY <1>1, <1>2 DEF Runnable

LEMMA IdleType == Idle \in WorkerState
  BY SomeTaskType, NoTokenType
  DEF Idle, WorkerState, Places, Owners, Statuses, Terminal, Reasons

LEMMA SelectionType ==
  ASSUME NEW t \in Tasks, task[t] \in Row, task[t].status \in Statuses,
         ClaimOwner(task[t]) \in Owners
  PROVE  /\ Selection(t) \in WorkerState
         /\ Selection(t) = [Idle EXCEPT !.place = "selected", !.task = t,
                                        !.executor = ClaimOwner(task[t]), !.source = task[t].status]
         /\ Selection(t).task = t /\ Selection(t).executor = ClaimOwner(task[t])
         /\ Selection(t).source = task[t].status
         /\ Selection(t).place = "selected" /\ Selection(t).reason = "none"
         /\ Selection(t).token = NoToken
  <1>1. "selected" \in Places
    BY DEF Places
  <1> QED
    BY <1>1, IdleType DEF Selection, WorkerState, Idle

LEMMA BeforeType ==
  ASSUME StoreTypeOK, NEW w
  PROVE  /\ Before(w) \in {task, Guarded}
         /\ Before(w) \in [Tasks -> Row]
  BY GuardedType DEF Before, StoreTypeOK

\* What the UPDATE of a claim finds: a task that can be claimed, for the
\* executor that was selected.
LEMMA SelectionFacts ==
  ASSUME TypeOK, NEW w \in Workers, NEW c \in Selections(w), Claimable(c)
  PROVE  /\ c \in WorkerState /\ c.task \in Tasks
         /\ Before(w)[c.task] = task[c.task] /\ task[c.task] \in Row
         /\ task[c.task].status \in {"todo", "blocked", "review"}
         /\ ClaimOwner(task[c.task]) = c.executor /\ c.executor \in Employees
         /\ worker[w].place \in {"idle", "selected"}
         /\ \/ At(w, "selected") /\ c = worker[w]
            \/ At(w, "idle") /\ \E t \in Shortlist(Guarded) : c = Selection(t)
  <1>1. task \in [Tasks -> Row] /\ worker \in [Workers -> WorkerState] /\ StoreTypeOK
    BY DEF TypeOK, StoreTypeOK, RuntimeTypeOK
  <1>2. CASE At(w, "selected")
    <2>1. worker[w].place = "selected"
      BY <1>2 DEF At
    <2>2. Selections(w) = {worker[w]}
      BY <2>1 DEF Selections, At
    <2>3. c = worker[w] /\ Before(w) = task
      BY <1>2, <2>2 DEF Before
    <2>4. c \in WorkerState /\ c.task \in Tasks
      BY <1>1, <2>3 DEF WorkerState
    <2> QED
      BY <1>1, <1>2, <2>3, <2>4 DEF Claimable, Runnable, At
  <1>3. CASE ~At(w, "selected")
    <2>1. At(w, "idle") /\ \E t \in Shortlist(Guarded) : c = Selection(t)
      BY <1>3 DEF Selections
    <2>2. PICK t \in Shortlist(Guarded) : c = Selection(t)
      BY <2>1
    <2>3. /\ t \in Tasks /\ Guarded[t] = task[t] /\ task[t] \in Row
          /\ task[t].status \in {"todo", "blocked", "review"}
          /\ ClaimOwner(task[t]) \in Employees
      BY <1>1, GuardedShortlist
    <2>4. c \in WorkerState /\ c.task = t
      BY <2>2, <2>3, SelectionType DEF Statuses, Owners
    <2> QED
      BY <1>3, <2>1, <2>3, <2>4 DEF Claimable, Before, At
  <1> QED
    BY <1>2, <1>3

LEMMA AttemptType ==
  ASSUME TypeOK, issued < MaxRuns, NEW w \in Workers, NEW c \in Selections(w), Claimable(c)
  PROVE  /\ ClaimRow(task[c.task], issued + 1, c.executor, c.source) \in Row
         /\ Attempt(w, c) = [Before(w) EXCEPT
              ![c.task] = ClaimRow(task[c.task], issued + 1, c.executor, c.source)]
         /\ Attempt(w, c) \in [Tasks -> Row]
  <1>1. /\ c.task \in Tasks /\ task[c.task] \in Row /\ task[c.task].status \in Statuses
        /\ c.executor \in Employees /\ c.source \in Statuses \cup {"none"}
        /\ Before(w)[c.task] = task[c.task]
    BY SelectionFacts DEF Statuses, WorkerState
  <1>2. issued + 1 \in 0..MaxRuns
    BY StoreAssumption DEF StoreAssumption, TypeOK, StoreTypeOK
  <1>3. ClaimRow(task[c.task], issued + 1, c.executor, c.source) \in Row
    BY <1>1, <1>2, ClaimRowType
  <1>4. Before(w) \in [Tasks -> Row]
    BY BeforeType DEF TypeOK
  <1> QED
    BY <1>1, <1>3, <1>4 DEF Attempt

LEMMA ClaimRejectedType ==
  ASSUME TypeOK, NEW w \in Workers, ClaimRejected(w)
  PROVE  TypeOK'
  <1>1. PICK c \in Selections(w) :
          /\ Claimable(c)
          /\ task' = [Before(w) EXCEPT ![c.task] = [UpdateRow(@, "blocked", "other", "none")
                                                      EXCEPT !.lastRun = NoToken]]
    BY DEF ClaimRejected
  <1>2. c.task \in Tasks /\ Before(w) \in [Tasks -> Row]
    BY <1>1, SelectionFacts, BeforeType DEF TypeOK
  <1>3. UpdateRow(Before(w)[c.task], "blocked", "other", "none") \in Row
    BY <1>2, UpdateRowType DEF Statuses, Reasons, ReadyAt
  <1>4. task' \in [Tasks -> Row]
    BY <1>1, <1>2, <1>3, NoTokenType DEF Row
  <1>5. worker' \in [Workers -> WorkerState]
    BY IdleType DEF ClaimRejected, TypeOK, RuntimeTypeOK
  <1> QED
    BY <1>4, <1>5 DEF ClaimRejected, TypeOK, StoreTypeOK, RuntimeTypeOK

LEMMA ClaimTaskType ==
  ASSUME TypeOK, NEW w \in Workers, ClaimTask(w)
  PROVE  TypeOK'
  <1>1. PICK c \in Selections(w) :
          /\ Claimable(c) /\ task' = Attempt(w, c)
          /\ run' = [run EXCEPT ![issued + 1] = [task |-> c.task, status |-> "claimed"]]
          /\ worker' = [worker EXCEPT ![w] =
               [Idle EXCEPT !.place = "claimed", !.task = c.task, !.token = issued + 1,
                            !.owner = task[c.task].owner,
                            !.executor = c.executor, !.source = c.source,
                            !.requiresReview = task[c.task].requiresReview]]
    BY DEF ClaimTask
  <1>2. c \in WorkerState /\ c.task \in Tasks /\ task[c.task] \in Row
    BY <1>1, SelectionFacts
  <1>3. issued < MaxRuns /\ issued + 1 \in 0..MaxRuns /\ issued + 1 \in Runs
    BY StoreAssumption DEF StoreAssumption, ClaimTask, TypeOK, StoreTypeOK, Runs
  <1>4. task' \in [Tasks -> Row]
    BY <1>1, <1>3, AttemptType
  <1>5. run' \in [Runs -> RunRow]
    BY <1>1, <1>2, <1>3 DEF TypeOK, StoreTypeOK, RunRow, Statuses, Active
  <1>6. [Idle EXCEPT !.place = "claimed", !.task = c.task, !.token = issued + 1,
                     !.owner = task[c.task].owner,
                     !.executor = c.executor, !.source = c.source,
                     !.requiresReview = task[c.task].requiresReview] \in WorkerState
    BY <1>2, <1>3, IdleType DEF WorkerState, Row, Places
  <1> QED
    BY <1>1, <1>3, <1>4, <1>5, <1>6 DEF ClaimTask, TypeOK, StoreTypeOK, RuntimeTypeOK

LEMMA SelectTaskType ==
  ASSUME TypeOK, NEW w \in Workers, SelectTask(w)
  PROVE  TypeOK'
  <1>1. PICK t \in Shortlist(task) : worker' = [worker EXCEPT ![w] = Selection(t)]
    BY DEF SelectTask
  <1>2. /\ t \in Tasks /\ task[t] \in Row /\ task[t].status \in Statuses
        /\ ClaimOwner(task[t]) \in Owners
    BY DEF Shortlist, Candidates, Runnable, Statuses, Owners, TypeOK, StoreTypeOK
  <1>3. Selection(t) \in WorkerState
    BY <1>2, SelectionType
  <1> QED
    BY <1>1, <1>3 DEF SelectTask, storeVars, TypeOK, StoreTypeOK, RuntimeTypeOK

LEMMA ClaimStepType ==
  ASSUME TypeOK, NEW w \in Workers, ClaimStep(w)
  PROVE  TypeOK'
  <1>1. CASE ClaimNothing(w)
    BY <1>1, GuardedType DEF ClaimNothing, TypeOK, StoreTypeOK, RuntimeTypeOK
  <1>2. CASE ClaimConflict(w) \/ ClaimMissed(w)
    BY <1>2, IdleType DEF ClaimConflict, ClaimMissed, storeVars, TypeOK, StoreTypeOK, RuntimeTypeOK
  <1>3. CASE ClaimRejected(w)
    BY <1>3, ClaimRejectedType
  <1>4. CASE ClaimTask(w)
    BY <1>4, ClaimTaskType
  <1>5. CASE SelectTask(w)
    BY <1>5, SelectTaskType
  <1> QED
    BY <1>1, <1>2, <1>3, <1>4, <1>5 DEF ClaimStep

LEMMA MarkStartedType ==
  ASSUME TypeOK, NEW w \in Workers, MarkStarted(w)
  PROVE  TypeOK'
  <1> DEFINE t == worker[w].task
  <1>1. worker[w] \in WorkerState /\ t \in Tasks
    BY DEF TypeOK, RuntimeTypeOK, WorkerState
  <1>2. \A p \in {"started", "releasing"} :
          [worker EXCEPT ![w].place = p] \in [Workers -> WorkerState]
    BY <1>1 DEF TypeOK, RuntimeTypeOK, WorkerState, Places
  <1>3. [task EXCEPT ![t].status = "running"] \in [Tasks -> Row]
    BY <1>1 DEF TypeOK, StoreTypeOK, Row, Statuses, Active
  <1>4. SetRun(run, worker[w].token, "running") \in [Runs -> RunRow]
    BY SetRunType DEF TypeOK, StoreTypeOK, Statuses, Active
  <1> QED
    BY <1>2, <1>3, <1>4 DEF MarkStarted, StartRow, TypeOK, StoreTypeOK, RuntimeTypeOK

LEMMA FailingType ==
  ASSUME TypeOK, NEW w \in Workers
  PROVE  Failing(w) \in [Workers -> WorkerState]
  <1>1. [worker[w] EXCEPT !.place = "failing", !.result = "failed",
                          !.reason = "none", !.reconcile = FALSE] \in WorkerState
    <2>1. "failing" \in Places /\ "failed" \in Statuses /\ "none" \in Reasons
      BY DEF Places, Statuses, Terminal, Reasons
    <2> QED
      BY <2>1 DEF TypeOK, RuntimeTypeOK, WorkerState
  <1> QED
    BY <1>1 DEF Failing, TypeOK, RuntimeTypeOK

LEMMA SettlingType ==
  ASSUME NEW c \in WorkerState, NEW b \in BOOLEAN
  PROVE  Settling(c, b) \in WorkerState
  BY DEF Settling, WorkerState, Places

LEMMA TurnEndsType ==
  ASSUME TypeOK, NEW w \in Workers, TurnEnds(w)
  PROVE  TypeOK'
  <1>1. PICK o \in TurnOutcomes :
          worker' = [worker EXCEPT ![w] =
            [worker[w] EXCEPT !.place = "outcome", !.result = Classified(worker[w], o),
                              !.reason = ClassifiedReason(o)]]
    BY DEF TurnEnds, TypeOK, RuntimeTypeOK
  <1>2. Classified(worker[w], o) \in Statuses /\ ClassifiedReason(o) \in Reasons
    BY DEF Classified, ClassifiedReason, Statuses, Terminal, Reasons
  <1>3. [worker[w] EXCEPT !.place = "outcome", !.result = Classified(worker[w], o),
                          !.reason = ClassifiedReason(o)] \in WorkerState
    BY <1>2 DEF TypeOK, RuntimeTypeOK, WorkerState, Places
  <1> QED
    BY <1>1, <1>3 DEF TurnEnds, storeVars, TypeOK, StoreTypeOK, RuntimeTypeOK

LEMMA FinalizeType ==
  ASSUME TypeOK, NEW w \in Workers, Finalize(w)
  PROVE  TypeOK'
  <1> DEFINE c == worker[w]
             ready == Revisit(c.result, c.reason)
             row == FinalizeRow(task[c.task], c.result, c.reason, ready, c.token)
  <1>1. c \in WorkerState /\ c.task \in Tasks /\ c.result \in Statuses
        /\ c.reason \in Reasons /\ c.token \in 0..MaxRuns
    BY DEF TypeOK, RuntimeTypeOK, WorkerState
  <1>2. ready \in ReadyAt
    BY DEF Revisit, ReadyAt
  <1>3. row \in Row
    <2> HIDE DEF ready
    <2> QED
      BY <1>1, <1>2, FinalizeRowType DEF TypeOK, StoreTypeOK
  <1>4. task' = [task EXCEPT ![c.task] = row] /\ run' = SetRun(run, c.token, c.result)
    BY DEF Finalize
  <1>5. run' \in [Runs -> RunRow]
    BY <1>1, <1>4, SetRunType DEF TypeOK, StoreTypeOK
  <1>6. worker' \in [Workers -> WorkerState]
    <2>1. worker' = [worker EXCEPT ![w] = Settling(c, c.result = "completed")]
      BY DEF Finalize
    <2> QED
      BY <1>1, <2>1, SettlingType DEF TypeOK, RuntimeTypeOK
  <1> HIDE DEF row
  <1>7. task' \in [Tasks -> Row]
    BY <1>3, <1>4 DEF TypeOK, StoreTypeOK
  <1> QED
    BY <1>5, <1>6, <1>7 DEF Finalize, TypeOK, StoreTypeOK, RuntimeTypeOK

LEMMA FinalizeLostType ==
  ASSUME TypeOK, NEW w \in Workers, FinalizeLost(w)
  PROVE  TypeOK'
  <1> DEFINE c == worker[w]
             row == IF task[c.task].token = c.token
                    THEN [ClearClaim(task[c.task]) EXCEPT !.lastRun = c.token]
                    ELSE task[c.task]
             revisit == /\ row.status = "blocked" /\ row.ready = "none"
                        /\ row.reason = "external_poll"
             kept == IF revisit THEN [row EXCEPT !.ready = "later"] ELSE row
             recorded == IF kept.status \in Active THEN "cancelled" ELSE RunStatusFor(kept, c)
  <1>1. c \in WorkerState /\ c.task \in Tasks /\ c.token \in 0..MaxRuns /\ task[c.task] \in Row
    BY DEF TypeOK, StoreTypeOK, RuntimeTypeOK, WorkerState
  <1>2. row \in Row /\ row.status = task[c.task].status
    BY <1>1, ClearClaimType DEF ClearClaim, Row
  <1>3. kept \in Row /\ kept.status = task[c.task].status
    <2> HIDE DEF row
    <2> QED
      BY <1>2 DEF Row, ReadyAt
  <1>4. Settling(c, TRUE) \in WorkerState
    BY <1>1, SettlingType
  <1>5. /\ IF Exists(c.task)
           THEN task' = [task EXCEPT ![c.task] = kept] /\ run' = SetRun(run, c.token, recorded)
           ELSE UNCHANGED <<task, run>>
        /\ worker' = [worker EXCEPT ![w] = IF kept.status = "completed" THEN Settling(c, TRUE)
                                          ELSE Idle]
    BY DEF FinalizeLost
  <1> HIDE DEF row, revisit, kept
  <1>6. task' \in [Tasks -> Row]
    BY <1>3, <1>5 DEF TypeOK, StoreTypeOK
  <1>7. run' \in [Runs -> RunRow]
    <2>1. Exists(c.task) => recorded \in Statuses \cup {"none", "reassigned", "deleted"}
      BY <1>3 DEF Exists, RunStatusFor, Statuses, Terminal
    <2> HIDE DEF recorded
    <2> QED
      BY <1>5, <2>1, SetRunType DEF TypeOK, StoreTypeOK
  <1>8. worker' \in [Workers -> WorkerState]
    BY <1>4, <1>5, IdleType DEF TypeOK, RuntimeTypeOK
  <1> QED
    BY <1>6, <1>7, <1>8 DEF FinalizeLost, TypeOK, StoreTypeOK, RuntimeTypeOK

LEMMA SettleType ==
  ASSUME TypeOK, NEW w \in Workers, Settle(w)
  PROVE  TypeOK'
  <1>1. worker[w].task \in Tasks
    BY DEF TypeOK, RuntimeTypeOK, WorkerState
  <1>2. task' \in [Tasks -> Row]
    BY <1>1, ReconcileDependentsType DEF Settle, TypeOK, StoreTypeOK
  <1> QED
    BY <1>2, IdleType DEF Settle, TypeOK, StoreTypeOK, RuntimeTypeOK

LEMMA ReleaseType ==
  ASSUME TypeOK, NEW w \in Workers, Release(w)
  PROVE  TypeOK'
  <1> DEFINE c == worker[w]
             ready == IF c.source = "review" THEN "none" ELSE "due"
             row == ReleaseRow(task[c.task], SweepTarget(c), ready)
  <1>1. c.task \in Tasks
    BY DEF TypeOK, RuntimeTypeOK, WorkerState
  <1>2. ready \in ReadyAt
    BY DEF ReadyAt
  <1>3. row \in Row
    <2> HIDE DEF ready
    <2> QED
      BY <1>1, <1>2, ReleaseRowType, SweepTargetType DEF TypeOK, StoreTypeOK
  <1>4. /\ task' = IF Owns(w) THEN [task EXCEPT ![c.task] = row] ELSE task
        /\ run' = SetRun(run, c.token, "cancelled")
    BY DEF Release
  <1> HIDE DEF row
  <1>5. task' \in [Tasks -> Row]
    BY <1>3, <1>4 DEF TypeOK, StoreTypeOK
  <1>6. run' \in [Runs -> RunRow]
    BY <1>4, SetRunType DEF TypeOK, StoreTypeOK, Statuses, Terminal
  <1> QED
    BY <1>5, <1>6, IdleType DEF Release, TypeOK, StoreTypeOK, RuntimeTypeOK

LEMMA ProgressType ==
  ASSUME TypeOK, NEW w \in Workers, Progress(w)
  PROVE  TypeOK'
  <1>1. CASE MarkStarted(w)
    BY <1>1, MarkStartedType
  <1>2. CASE BuildTarget(w)
    <2>1. [worker[w] EXCEPT !.place = "executing"] \in WorkerState
      BY DEF TypeOK, RuntimeTypeOK, WorkerState, Places
    <2> QED
      BY <1>2, <2>1, IdleType DEF BuildTarget, storeVars, TypeOK, StoreTypeOK, RuntimeTypeOK
  <1>3. CASE LeaseLost(w)
    BY <1>3, FailingType DEF LeaseLost, storeVars, TypeOK, StoreTypeOK, RuntimeTypeOK
  <1>4. CASE TurnEnds(w)
    BY <1>4, TurnEndsType
  <1>5. CASE Finalize(w)
    BY <1>5, FinalizeType
  <1>6. CASE FinalizeLost(w)
    BY <1>6, FinalizeLostType
  <1>7. CASE Settle(w)
    BY <1>7, SettleType
  <1>8. CASE SettleMissing(w)
    BY <1>8, FailingType, IdleType
    DEF SettleMissing, storeVars, TypeOK, StoreTypeOK, RuntimeTypeOK
  <1>9. CASE Release(w)
    BY <1>9, ReleaseType
  <1> QED
    BY <1>1, <1>2, <1>3, <1>4, <1>5, <1>6, <1>7, <1>8, <1>9 DEF Progress

LEMMA RefreshLeaseType ==
  ASSUME TypeOK, NEW w \in Workers, RefreshLease(w)
  PROVE  TypeOK'
  <1>1. worker[w].task \in Tasks
    BY DEF TypeOK, RuntimeTypeOK, WorkerState
  <1> DEFINE t == worker[w].task
  <1>a. task \in [Tasks -> Row] /\ task[t] \in Row
    BY <1>1 DEF TypeOK, StoreTypeOK
  <1>b. [task[t] EXCEPT !.expired = FALSE] \in Row
    BY <1>a DEF Row
  <1>2. [task EXCEPT ![t].expired = FALSE] \in [Tasks -> Row]
    <2> HIDE DEF t
    <2> QED
      BY <1>a, <1>b
  <1>3. task' \in [Tasks -> Row]
    BY <1>2 DEF RefreshLease
  <1> QED
    BY <1>3 DEF RefreshLease, TypeOK, StoreTypeOK, RuntimeTypeOK

LEMMA DisruptionType ==
  ASSUME TypeOK, NEW w \in Workers, Disruption(w)
  PROVE  TypeOK'
  <1>1. crashes' \in 0..MaxCrashes
    BY RuntimeAssumption
    DEF RuntimeAssumption, Disruption, TryRaises, Cancelled, Dies, TypeOK, RuntimeTypeOK
  <1>2. [worker EXCEPT ![w].place = "releasing"] \in [Workers -> WorkerState]
    BY DEF TypeOK, RuntimeTypeOK, WorkerState, Places
  <1>3. worker' \in [Workers -> WorkerState]
    BY <1>2, FailingType, IdleType
    DEF Disruption, TryRaises, Cancelled, Dies, TypeOK, RuntimeTypeOK
  <1> QED
    BY <1>1, <1>3
    DEF Disruption, TryRaises, Cancelled, Dies, storeVars, TypeOK, StoreTypeOK, RuntimeTypeOK

LEMMA SurroundingsType ==
  ASSUME TypeOK, EmployeeStep \/ ClockStep, UNCHANGED runtimeVars
  PROVE  TypeOK'
  <1>1. CASE EmployeeStep
    BY <1>1 DEF EmployeeStep, EmployeeStatusChanges, runtimeVars,
                TypeOK, StoreTypeOK, RuntimeTypeOK
  <1>2. CASE ClockStep
    <2>1. ASSUME NEW t \in Tasks
          PROVE  /\ [task[t] EXCEPT !.expired = TRUE] \in Row
                 /\ [task[t] EXCEPT !.ready = "due"] \in Row
      <3>1. task[t] \in Row
        BY DEF TypeOK, StoreTypeOK
      <3>2. [task[t] EXCEPT !.expired = TRUE] \in Row
        BY <3>1 DEF Row
      <3>3. [task[t] EXCEPT !.ready = "due"] \in Row
        BY <3>1 DEF Row, ReadyAt
      <3> QED
        BY <3>2, <3>3
    <2>2. task' \in [Tasks -> Row]
      BY <1>2, <2>1 DEF ClockStep, LeaseExpires, ReadyTimeComes, TypeOK, StoreTypeOK
    <2> QED
      BY <1>2, <2>2 DEF ClockStep, LeaseExpires, ReadyTimeComes, runtimeVars,
                        TypeOK, StoreTypeOK, RuntimeTypeOK
  <1> QED
    BY <1>1, <1>2

----------------------------------------------------------------------------
LEMMA InitType ==
  ASSUME Init
  PROVE  TypeOK
  <1>1. OriginalRows \subseteq Row
    <2>1. ASSUME NEW s \in OriginalStatuses, NEW o \in Owners, NEW v \in Reviewers,
                 NEW b \in ReviewFlags
          PROVE  NewRow(s, o, v, b, IF s = "todo" THEN "due" ELSE "none", "none") \in Row
      BY NewRowType, ServiceAssumption
      DEF ServiceAssumption, Statuses, ReadyAt, Reasons
    <2> QED
      BY <2>1 DEF OriginalRows
  <1>2. AbsentRow \in Row
    BY NewRowType DEF AbsentRow, NoRow, Owners, ReadyAt, Reasons
  <1>3. task \in [Tasks -> Row]
    BY <1>1, <1>2 DEF Init, StoreInit
  <1>4. run \in [Runs -> RunRow]
    BY SomeTaskType DEF Init, StoreInit, RunRow
  <1>5. issued \in 0..MaxRuns /\ deps \subseteq Edge /\ enabled \subseteq Employees
    BY NoTokenType DEF Init, StoreInit, NoToken
  <1>6. RuntimeTypeOK
    BY IdleType, RuntimeAssumption
    DEF RuntimeAssumption, Init, RuntimeInit, RuntimeTypeOK
  <1> QED
    BY <1>3, <1>4, <1>5, <1>6 DEF TypeOK, StoreTypeOK

LEMMA NextType == TypeOK /\ [Next]_vars => TypeOK'
  <1> SUFFICES ASSUME TypeOK, [Next]_vars
               PROVE  TypeOK'
    OBVIOUS
  <1>1. CASE (\E t \in Tasks : ServiceStep(t)) /\ UNCHANGED runtimeVars
    BY <1>1, ServiceStepType DEF runtimeVars, TypeOK, RuntimeTypeOK
  <1>2. ASSUME NEW w \in Workers,
               ClaimStep(w) \/ Progress(w) \/ RefreshLease(w) \/ Disruption(w)
        PROVE  TypeOK'
    BY <1>2, ClaimStepType, ProgressType, RefreshLeaseType, DisruptionType
  <1>3. CASE SweepExpiredClaims
    BY <1>3, SweepType
  <1>4. CASE (EmployeeStep \/ ClockStep) /\ UNCHANGED runtimeVars
    BY <1>4, SurroundingsType
  <1>5. CASE UNCHANGED vars
    BY <1>5 DEF vars, storeVars, runtimeVars, TypeOK, StoreTypeOK, RuntimeTypeOK
  <1> QED
    BY <1>1, <1>2, <1>3, <1>4, <1>5 DEF Next

\* The state of Task Flow is always well typed: whatever a person, a worker, the
\* sweep or the clock does, every row keeps one of the documented statuses, the
\* claim columns keep their types (no marker of an argument that was not given
\* reaches a column) and the worker's snapshot is complete.
THEOREM TypeCorrect == Spec => []TypeOK
  <1>1. Init => TypeOK
    BY InitType
  <1>2. TypeOK /\ [Next]_vars => TypeOK'
    BY NextType
  <1> QED
    BY <1>1, <1>2, PTL DEF Spec

-----------------------------------------------------------------------------
(* Edges *)

EdgesExist == \A e \in deps : Exists(e.task) /\ Exists(e.dep)

EdgeInv == TypeOK /\ EdgesExist /\ DependenciesAcyclic

\* No row that exists goes away.
KeepsRows == \A u \in Tasks : Exists(u) => task'[u].status \in Statuses

Closed(edges, S) == \A e \in edges : e.task \in S => e.dep \in S
Acyclic(edges) == \A e \in edges : ~Reaches(edges, e.dep, e.task)

----------------------------------------------------------------------------
(* Graphs of edges *)

LEMMA Unreachable ==
  ASSUME NEW edges, NEW d, NEW t
  PROVE  ~Reaches(edges, d, t) <=>
            \E S \in SUBSET Tasks : d \in S /\ Closed(edges, S) /\ t \notin S
  BY DEF Reaches, Closed

LEMMA AcyclicSubset ==
  ASSUME NEW edges, NEW more, edges \subseteq more, Acyclic(more)
  PROVE  Acyclic(edges)
  <1> SUFFICES ASSUME NEW e \in edges
               PROVE  ~Reaches(edges, e.dep, e.task)
    BY DEF Acyclic
  <1>1. PICK S \in SUBSET Tasks : e.dep \in S /\ Closed(more, S) /\ e.task \notin S
    BY Unreachable DEF Acyclic
  <1>2. Closed(edges, S)
    BY <1>1 DEF Closed
  <1> QED
    BY <1>1, <1>2, Unreachable

\* An edge may be added when nothing leads back.
LEMMA AcyclicAdd ==
  ASSUME NEW edges, Acyclic(edges), NEW t \in Tasks, NEW d \in Tasks, NEW on,
         ~Reaches(edges, d, t)
  PROVE  Acyclic(edges \cup {[task |-> t, dep |-> d, on |-> on]})
  <1> DEFINE new == [task |-> t, dep |-> d, on |-> on]
             more == edges \cup {new}
  <1>1. new.task = t /\ new.dep = d
    OBVIOUS
  <1>2. PICK R \in SUBSET Tasks : d \in R /\ Closed(edges, R) /\ t \notin R
    BY Unreachable
  <1> HIDE DEF new
  <1> SUFFICES ASSUME NEW e \in more
               PROVE  \E S \in SUBSET Tasks : e.dep \in S /\ Closed(more, S) /\ e.task \notin S
    BY Unreachable DEF Acyclic, new
  <1>3. CASE e = new
    <2>1. Closed(more, R)
      BY <1>1, <1>2 DEF Closed
    <2> QED
      BY <1>1, <1>2, <1>3, <2>1
  <1>4. CASE e \in edges
    <2>1. PICK S \in SUBSET Tasks : e.dep \in S /\ Closed(edges, S) /\ e.task \notin S
      BY <1>4, Unreachable DEF Acyclic
    <2>2. CASE e.task \in R
      <3>1. e.dep \in S \cap R
        BY <1>2, <1>4, <2>1, <2>2 DEF Closed
      <3>2. Closed(more, S \cap R)
        BY <1>1, <1>2, <2>1 DEF Closed
      <3> QED
        BY <2>1, <3>1, <3>2
    <2>3. CASE e.task \notin R
      <3>1. Closed(more, S \cup R)
        BY <1>1, <1>2, <2>1 DEF Closed
      <3> QED
        BY <2>1, <2>3, <3>1
    <2> QED
      BY <2>2, <2>3
  <1> QED
    BY <1>3, <1>4

\* A task without edges may be made to wait for any others.
LEMMA AcyclicNewTask ==
  ASSUME NEW edges \in SUBSET Edge, Acyclic(edges), NEW t \in Tasks,
         NEW D \in SUBSET (Tasks \ {t}),
         \A e \in edges : e.task # t /\ e.dep # t
  PROVE  Acyclic(edges \cup {[task |-> t, dep |-> d, on |-> "completed"] : d \in D})
  <1> DEFINE new == {[task |-> t, dep |-> d, on |-> "completed"] : d \in D}
             more == edges \cup new
  <1>1. \A e \in new : e.task = t /\ e.dep \in Tasks \ {t}
    OBVIOUS
  <1>2. \A e \in edges : e.dep \in Tasks
    BY DEF Edge
  <1> HIDE DEF new
  <1> SUFFICES ASSUME NEW e \in more
               PROVE  \E S \in SUBSET Tasks : e.dep \in S /\ Closed(more, S) /\ e.task \notin S
    BY Unreachable DEF Acyclic, new
  <1>3. CASE e \in new
    <2>1. Closed(more, Tasks \ {t})
      BY <1>1, <1>2 DEF Closed
    <2> QED
      BY <1>1, <1>3, <2>1
  <1>4. CASE e \in edges
    <2>1. PICK S \in SUBSET Tasks : e.dep \in S /\ Closed(edges, S) /\ e.task \notin S
      BY <1>4, Unreachable DEF Acyclic
    <2>2. Closed(more, S \ {t})
      BY <1>1, <2>1 DEF Closed
    <2> QED
      BY <1>4, <2>1, <2>2
  <1> QED
    BY <1>3, <1>4

----------------------------------------------------------------------------
(* Rows that exist go on existing *)

LEMMA UpdateRowStatus ==
  ASSUME NEW row \in Row, NEW status \in Statuses, NEW reason, NEW given
  PROVE  UpdateRow(row, status, reason, given).status = status
  BY ClearClaimType DEF UpdateRow, Row

LEMMA ReadinessStatus ==
  ASSUME NEW tasks \in [Tasks -> Row], NEW edges, NEW u \in Tasks,
         tasks[u].status \in Statuses
  PROVE  /\ Readiness(tasks, edges, u).status \in Statuses
         /\ ReadinessAfterChange(tasks, edges, u).status \in Statuses
  <1>1. "todo" \in Statuses /\ "blocked" \in Statuses
    BY DEF Statuses
  <1>2. Promote(tasks[u]).status \in Statuses
    BY <1>1, UpdateRowStatus DEF Promote
  <1>3. UpdateRow(tasks[u], "blocked", "dependency_wait", "unset").status \in Statuses
    BY <1>1, UpdateRowStatus
  <1> QED
    BY <1>2, <1>3 DEF Readiness, ReadinessAfterChange

LEMMA ReconcileDependentsStatus ==
  ASSUME NEW tasks \in [Tasks -> Row], NEW edges, NEW t \in Tasks, NEW u \in Tasks,
         tasks[u].status \in Statuses
  PROVE  ReconcileDependents(tasks, edges, t)[u].status \in Statuses
  BY ReadinessStatus DEF ReconcileDependents

----------------------------------------------------------------------------
(* Operations of the service *)

LEMMA CreateEdges ==
  ASSUME EdgeInv, TypeOK', NEW t \in Tasks, NEW owner \in Owners, NEW reviewer \in Reviewers,
         NEW review \in ReviewFlags, NEW asked, NEW D \in SUBSET (Tasks \ {t}),
         Create(t, owner, reviewer, review, asked, D)
  PROVE  EdgeInv'
  <1> DEFINE status == IF asked # "default" THEN asked
                       ELSE IF D = {} THEN "todo" ELSE "blocked"
             ready == IF D = {} /\ status = "todo" THEN "due" ELSE "none"
             reason == IF status = "blocked" THEN "dependency_wait" ELSE "none"
             row == NewRow(status, owner, reviewer, review, ready, reason)
             tasks == [task EXCEPT ![t] = row]
             added == {[task |-> t, dep |-> d, on |-> "completed"] : d \in D}
             edges == deps \cup added
  <1>1. /\ deps' = edges /\ task' = [tasks EXCEPT ![t] = Readiness(tasks, edges, t)]
        /\ task[t].status = "absent" /\ \A d \in D : Exists(d)
    BY DEF Create
  <1>2. row \in Row /\ row.status \in Statuses
    <2>1. status \in Statuses
      BY DEF Create, Statuses
    <2>2. ready \in ReadyAt /\ reason \in Reasons
      BY DEF ReadyAt, Reasons
    <2>3. reviewer \in Owners \cup {NoOwner} /\ review \in BOOLEAN
      BY ServiceAssumption DEF ServiceAssumption
    <2>4. row.status = status
      BY DEF NewRow
    <2> HIDE DEF status, ready, reason
    <2> QED
      BY <2>1, <2>2, <2>3, <2>4, NewRowType
  <1> HIDE DEF row
  <1>3. /\ tasks \in [Tasks -> Row] /\ tasks[t] = row
        /\ \A u \in Tasks \ {t} : tasks[u] = task[u]
    BY <1>2 DEF EdgeInv, TypeOK, StoreTypeOK
  <1>4. ~Exists(t)
    BY <1>1 DEF Exists, Statuses, Active, Terminal
  <1> HIDE DEF tasks
  <1>5. /\ task'[t].status \in Statuses
        /\ \A u \in Tasks \ {t} : task'[u] = task[u]
    BY <1>1, <1>2, <1>3, ReadinessStatus
  <1>6. \A e \in added : e.task = t /\ e.dep \in D
    OBVIOUS
  <1> HIDE DEF added
  <1>7. \A e \in deps : e.task \in Tasks \ {t} /\ e.dep \in Tasks \ {t}
    BY <1>4 DEF EdgeInv, EdgesExist, TypeOK, StoreTypeOK, Edge
  <1>8. EdgesExist'
    <2> SUFFICES ASSUME NEW e \in edges
                 PROVE  task'[e.task].status \in Statuses /\ task'[e.dep].status \in Statuses
      BY <1>1 DEF EdgesExist, Exists
    <2>1. CASE e \in deps
      BY <1>5, <1>7, <2>1 DEF EdgeInv, EdgesExist, Exists
    <2>2. CASE e \in added
      BY <1>1, <1>5, <1>6, <2>2 DEF Exists
    <2> QED
      BY <2>1, <2>2
  <1>9. Acyclic(edges)
    BY <1>7, AcyclicNewTask
    DEF added, EdgeInv, DependenciesAcyclic, Acyclic, TypeOK, StoreTypeOK
  <1> QED
    BY <1>1, <1>8, <1>9 DEF EdgeInv, DependenciesAcyclic, Acyclic

\* A step that keeps all rows, with no more edges than before.
LEMMA EdgesKept ==
  ASSUME EdgeInv, TypeOK', KeepsRows, deps' \subseteq deps
  PROVE  EdgeInv'
  <1>1. EdgesExist'
    BY DEF EdgeInv, EdgesExist, KeepsRows, Exists, TypeOK, StoreTypeOK, Edge
  <1>2. Acyclic(deps')
    BY AcyclicSubset DEF EdgeInv, DependenciesAcyclic, Acyclic
  <1> QED
    BY <1>1, <1>2 DEF EdgeInv, DependenciesAcyclic, Acyclic

LEMMA UpdateTaskEdges ==
  ASSUME EdgeInv, TypeOK', NEW t \in Tasks, NEW status \in Statuses \cup {"keep"},
         NEW owner \in Owners, NEW reason \in Reasons,
         NEW given \in ReadyAt \cup {"unset"},
         UpdateTask(t, status, owner, reason, given)
  PROVE  EdgeInv'
  <1> DEFINE row == task[t]
             eff == IF owner # row.owner /\ status = "keep" /\ row.status \in Active
                    THEN "todo" ELSE status
             updated == IF eff = "keep" THEN row ELSE UpdateRow(row, eff, reason, given)
             moved == [updated EXCEPT !.owner = owner]
             tasks == [task EXCEPT ![t] = moved]
  <1>1. row \in Row /\ row.status \in Statuses
    BY DEF UpdateTask, Exists, EdgeInv, TypeOK, StoreTypeOK
  <1>2. eff \in Statuses \cup {"keep"}
    BY DEF Statuses
  <1>3. /\ task' = IF eff = "completed" THEN ReconcileDependents(tasks, deps, t)
                   ELSE IF eff = "todo"
                   THEN [tasks EXCEPT ![t] = ReadinessAfterChange(tasks, deps, t)]
                   ELSE tasks
        /\ deps' = deps
    BY DEF UpdateTask
  <1> HIDE DEF row, eff
  <1>4. updated \in Row /\ updated.status \in Statuses
    BY <1>1, <1>2, UpdateRowType, UpdateRowStatus
  <1> HIDE DEF updated
  <1>5. moved \in Row /\ moved.status \in Statuses
    BY <1>4 DEF Row
  <1> HIDE DEF moved
  <1>6. tasks \in [Tasks -> Row] /\ \A u \in Tasks : Exists(u) => tasks[u].status \in Statuses
    BY <1>5 DEF Exists, EdgeInv, TypeOK, StoreTypeOK
  <1> HIDE DEF tasks
  <1>7. KeepsRows
    <2> SUFFICES ASSUME NEW u \in Tasks, tasks[u].status \in Statuses
                 PROVE  task'[u].status \in Statuses
      BY <1>6 DEF KeepsRows
    <2>1. CASE eff = "completed"
      BY <1>3, <1>6, <2>1, ReconcileDependentsStatus
    <2>2. CASE eff # "completed"
      BY <1>3, <1>6, <2>2, ReadinessStatus
    <2> QED
      BY <2>1, <2>2
  <1> QED
    BY <1>3, <1>7, EdgesKept

LEMMA ApproveReviewEdges ==
  ASSUME EdgeInv, TypeOK', NEW t \in Tasks, ApproveReview(t)
  PROVE  EdgeInv'
  <1> DEFINE approved == UpdateRow(task[t], "completed", "none", "unset")
             tasks == [task EXCEPT ![t] = approved]
  <1>1. task' = ReconcileDependents(tasks, deps, t) /\ deps' = deps
    BY DEF ApproveReview
  <1>2. approved \in Row /\ approved.status \in Statuses
    <2>1. "completed" \in Statuses /\ "none" \in Reasons
      BY DEF Statuses, Terminal, Reasons
    <2> QED
      BY <2>1, UpdateRowType, UpdateRowStatus DEF EdgeInv, TypeOK, StoreTypeOK
  <1> HIDE DEF approved
  <1>3. tasks \in [Tasks -> Row] /\ \A u \in Tasks : Exists(u) => tasks[u].status \in Statuses
    BY <1>2 DEF Exists, EdgeInv, TypeOK, StoreTypeOK
  <1> HIDE DEF tasks
  <1>4. KeepsRows
    <2> SUFFICES ASSUME NEW u \in Tasks, tasks[u].status \in Statuses
                 PROVE  task'[u].status \in Statuses
      BY <1>3 DEF KeepsRows
    <2> QED
      BY <1>1, <1>3, ReconcileDependentsStatus
  <1> QED
    BY <1>1, <1>4, EdgesKept

LEMMA RequestChangesEdges ==
  ASSUME EdgeInv, TypeOK', NEW t \in Tasks, NEW owner \in Owners, RequestChanges(t, owner)
  PROVE  EdgeInv'
  <1> DEFINE given == IF owner \in Employees THEN "due" ELSE "none"
             updated == UpdateRow(task[t], "blocked", "review_changes_requested", given)
             moved == [updated EXCEPT !.owner = owner]
  <1>1. updated \in Row /\ updated.status \in Statuses
    <2>1. given \in ReadyAt /\ "blocked" \in Statuses /\ "review_changes_requested" \in Reasons
      BY DEF ReadyAt, Statuses, Reasons
    <2> HIDE DEF given
    <2> QED
      BY <2>1, UpdateRowType, UpdateRowStatus DEF EdgeInv, TypeOK, StoreTypeOK
  <1>2. task' = [task EXCEPT ![t] = moved] /\ deps' = deps
    BY DEF RequestChanges
  <1> HIDE DEF updated
  <1>3. moved.status \in Statuses
    BY <1>1 DEF Row
  <1> HIDE DEF moved
  <1>4. KeepsRows
    BY <1>2, <1>3 DEF KeepsRows, Exists, EdgeInv, TypeOK, StoreTypeOK
  <1> QED
    BY <1>2, <1>4, EdgesKept

LEMMA AddDependencyEdges ==
  ASSUME EdgeInv, TypeOK', NEW t \in Tasks, NEW d \in Tasks, NEW on \in SatisfiedOn,
         AddDependency(t, d, on)
  PROVE  EdgeInv'
  <1> DEFINE new == [task |-> t, dep |-> d, on |-> on]
             edges == deps \cup {new}
  <1>1. /\ deps' = edges /\ task' = [task EXCEPT ![t] = ReadinessAfterChange(task, edges, t)]
        /\ ~Reaches(deps, d, t) /\ Exists(t) /\ Exists(d)
    BY DEF AddDependency, EdgeAllowed
  <1>2. Acyclic(edges)
    BY <1>1, AcyclicAdd DEF EdgeInv, DependenciesAcyclic, Acyclic
  <1>3. new.task = t /\ new.dep = d
    OBVIOUS
  <1> HIDE DEF new
  <1>4. \A u \in Tasks : Exists(u) => task'[u].status \in Statuses
    BY <1>1, ReadinessStatus DEF Exists, EdgeInv, TypeOK, StoreTypeOK
  <1>5. EdgesExist'
    <2> SUFFICES ASSUME NEW e \in edges
                 PROVE  task'[e.task].status \in Statuses /\ task'[e.dep].status \in Statuses
      BY <1>1 DEF EdgesExist, Exists
    <2>1. CASE e \in deps
      BY <1>4, <2>1 DEF EdgeInv, EdgesExist, TypeOK, StoreTypeOK, Edge
    <2>2. CASE e = new
      BY <1>1, <1>3, <1>4, <2>2
    <2> QED
      BY <2>1, <2>2
  <1> QED
    BY <1>1, <1>2, <1>5 DEF EdgeInv, DependenciesAcyclic, Acyclic

LEMMA RemoveDependencyEdges ==
  ASSUME EdgeInv, TypeOK', NEW t \in Tasks, NEW d \in Tasks, RemoveDependency(t, d)
  PROVE  EdgeInv'
  <1>1. /\ deps' \subseteq deps
        /\ \E edges : task' = [task EXCEPT ![t] = ReadinessAfterChange(task, edges, t)]
    BY DEF RemoveDependency
  <1>2. KeepsRows
    BY <1>1, ReadinessStatus DEF KeepsRows, Exists, EdgeInv, TypeOK, StoreTypeOK
  <1> QED
    BY <1>1, <1>2, EdgesKept

\* The delegated task is new, so no edge leads back from it.
LEMMA DelegateEdges ==
  ASSUME EdgeInv, TypeOK', NEW t \in Tasks, NEW n \in Tasks, NEW owner \in Employees,
         NEW review \in ReviewFlags, NEW wait \in BOOLEAN,
         Delegate(t, n, owner, review, wait)
  PROVE  EdgeInv'
  <1> DEFINE row == NewRow("todo", owner, NoOwner, review, "due", "none")
             tasks == [task EXCEPT ![n] = row]
             new == [task |-> t, dep |-> n, on |-> "completed"]
             edges == IF wait THEN deps \cup {new} ELSE deps
  <1>1. row \in Row /\ row.status \in Statuses
    <2>1. row.status = "todo" /\ "todo" \in Statuses
      BY DEF NewRow, Statuses
    <2> QED
      BY <2>1, NewRowType, ServiceAssumption
      DEF ServiceAssumption, Owners, ReadyAt, Reasons
  <1>2. /\ deps' = edges /\ Exists(t) /\ ~Exists(n)
        /\ task' = IF wait THEN [tasks EXCEPT ![t] = ReadinessAfterChange(tasks, edges, t)]
                   ELSE tasks
    BY DEF Delegate, Exists, Statuses, Active, Terminal
  <1> HIDE DEF row
  <1>3. /\ tasks \in [Tasks -> Row] /\ tasks[n].status \in Statuses
        /\ \A u \in Tasks : Exists(u) => tasks[u].status \in Statuses
    BY <1>1 DEF Exists, EdgeInv, TypeOK, StoreTypeOK
  <1> HIDE DEF tasks
  <1>4. \A u \in Tasks : tasks[u].status \in Statuses => task'[u].status \in Statuses
    BY <1>2, <1>3, ReadinessStatus
  <1>5. new.task = t /\ new.dep = n
    OBVIOUS
  <1>6. EdgesExist'
    <2> SUFFICES ASSUME NEW e \in edges
                 PROVE  task'[e.task].status \in Statuses /\ task'[e.dep].status \in Statuses
      BY <1>2 DEF EdgesExist, Exists
    <2>1. CASE e \in deps
      BY <1>3, <1>4, <2>1 DEF EdgeInv, EdgesExist, TypeOK, StoreTypeOK, Edge
    <2>2. CASE e = new
      BY <1>2, <1>3, <1>4, <1>5, <2>2
    <2> QED
      BY <2>1, <2>2
  <1>7. ~Reaches(deps, n, t)
    <2>1. t # n /\ \A e \in deps : e.task # n
      BY <1>2 DEF EdgeInv, EdgesExist
    <2>2. {n} \in SUBSET Tasks /\ n \in {n} /\ Closed(deps, {n}) /\ t \notin {n}
      BY <2>1 DEF Closed
    <2> QED
      BY <2>2, Unreachable
  <1>8. Acyclic(edges)
    BY <1>7, AcyclicAdd DEF EdgeInv, DependenciesAcyclic, Acyclic
  <1> QED
    BY <1>2, <1>6, <1>8 DEF EdgeInv, DependenciesAcyclic, Acyclic

\* Deleted tasks take their edges with them.
LEMMA DeleteRowsEdges ==
  ASSUME EdgeInv, TypeOK', NEW ts \in SUBSET Tasks, NEW first, DeleteRows(ts, first)
  PROVE  EdgeInv'
  <1> DEFINE edges == {e \in deps : e.task \notin ts /\ e.dep \notin ts}
             others(u) == {e \in deps : e.task = u /\ e.dep # first[u]}
             begun(u) == [task EXCEPT ![u] = ReadinessAfterChange(task, others(u), u)]
  <1>1. /\ deps' = edges
        /\ task' = [u \in Tasks |->
                      IF u \in ts THEN DeletedRow
                      ELSE IF u \in Dependents(ts)
                           THEN ReadinessAfterChange(begun(u), edges, u)
                      ELSE task[u]]
    BY DEF DeleteRows
  <1>2. ASSUME NEW u \in Tasks, Exists(u)
        PROVE  ReadinessAfterChange(begun(u), edges, u).status \in Statuses
    <2>1. /\ ReadinessAfterChange(task, others(u), u) \in Row
          /\ ReadinessAfterChange(task, others(u), u).status \in Statuses
      BY <1>2, ReadinessStatus, ReadinessAfterChangeType
      DEF Exists, EdgeInv, TypeOK, StoreTypeOK
    <2> HIDE DEF others, edges
    <2>2. /\ begun(u) \in [Tasks -> Row]
          /\ begun(u)[u] = ReadinessAfterChange(task, others(u), u)
      BY <2>1 DEF EdgeInv, TypeOK, StoreTypeOK
    <2> HIDE DEF begun
    <2> QED
      BY <2>1, <2>2, ReadinessStatus
  <1> HIDE DEF begun
  <1>3. \A u \in Tasks \ ts : Exists(u) => task'[u].status \in Statuses
    BY <1>1, <1>2 DEF Exists
  <1>4. EdgesExist'
    BY <1>1, <1>3 DEF EdgeInv, EdgesExist, Exists, TypeOK, StoreTypeOK, Edge
  <1>5. Acyclic(edges)
    BY AcyclicSubset DEF EdgeInv, DependenciesAcyclic, Acyclic
  <1> QED
    BY <1>1, <1>4, <1>5 DEF EdgeInv, DependenciesAcyclic, Acyclic

LEMMA ServiceStepEdges ==
  ASSUME EdgeInv, TypeOK', NEW t \in Tasks, ServiceStep(t)
  PROVE  EdgeInv'
  <1>1. CASE ServiceCreates(t)
    BY <1>1, CreateEdges DEF ServiceCreates
  <1>2. CASE ServiceUpdates(t)
    BY <1>2, UpdateTaskEdges DEF ServiceUpdates
  <1>3. CASE \E v \in Reviewers, b \in ReviewFlags : UpdateReviewPolicy(t, v, b)
    <2>1. PICK v \in Reviewers, b \in ReviewFlags : UpdateReviewPolicy(t, v, b)
      BY <1>3
    <2>2. KeepsRows /\ deps' = deps
      BY <2>1 DEF UpdateReviewPolicy, KeepsRows, Exists, EdgeInv, TypeOK, StoreTypeOK, Row
    <2> QED
      BY <2>2, EdgesKept
  <1>4. CASE \E o \in Owners : RequestChanges(t, o)
    BY <1>4, RequestChangesEdges
  <1>5. CASE \E d \in Tasks, on \in SatisfiedOn : AddDependency(t, d, on)
    BY <1>5, AddDependencyEdges
  <1>6. CASE \E d \in Tasks : RemoveDependency(t, d)
    BY <1>6, RemoveDependencyEdges
  <1>7. CASE ServiceDelegates(t)
    BY <1>7, DelegateEdges DEF ServiceDelegates
  <1>8. CASE ServiceDeletes(t)
    BY <1>8, DeleteRowsEdges DEF ServiceDeletes
  <1> QED
    BY <1>1, <1>2, <1>3, <1>4, <1>5, <1>6, <1>7, <1>8, ServiceStepCases, ApproveReviewEdges
    DEF EdgeInv, TypeOK

----------------------------------------------------------------------------
(* The runtime adds no edges and deletes no tasks *)

LEMMA SweepKeeps ==
  ASSUME EdgeInv, SweepExpiredClaims
  PROVE  KeepsRows /\ deps' = deps
  <1>1. ASSUME NEW t \in Tasks
        PROVE  Swept(task[t]).status \in Statuses
    <2>1. Swept(task[t]).status = SweepTarget(task[t])
      BY ClearClaimType DEF Swept, ReleaseRow, EdgeInv, TypeOK, StoreTypeOK, Row
    <2> QED
      BY <2>1, SweepTargetType
  <1> QED
    BY <1>1 DEF SweepExpiredClaims, KeepsRows, Exists

LEMMA GuardedKeeps ==
  ASSUME EdgeInv, NEW t \in Tasks, Exists(t)
  PROVE  Guarded[t].status \in Statuses
  <1>1. UpdateRow(task[t], "blocked", "invalid_plan_status", "none").status \in Statuses
    <2>1. "blocked" \in Statuses
      BY DEF Statuses
    <2> QED
      BY <2>1, UpdateRowStatus DEF EdgeInv, TypeOK, StoreTypeOK
  <1> QED
    BY <1>1 DEF Guarded, AiPlanTasks, Exists

LEMMA ClaimStepKeeps ==
  ASSUME EdgeInv, NEW w \in Workers, ClaimStep(w)
  PROVE  KeepsRows /\ deps' = deps
  <1>1. CASE ClaimNothing(w)
    BY <1>1, GuardedKeeps DEF ClaimNothing, KeepsRows
  <1>2. CASE ClaimConflict(w) \/ SelectTask(w) \/ ClaimMissed(w)
    BY <1>2 DEF ClaimConflict, SelectTask, ClaimMissed, storeVars, KeepsRows, Exists
  <1>3. /\ Before(w) \in [Tasks -> Row]
        /\ \A t \in Tasks : Exists(t) => Before(w)[t].status \in Statuses
    BY BeforeType, GuardedKeeps DEF EdgeInv, TypeOK, Exists
  <1>6. ASSUME NEW c \in Selections(w), Claimable(c) PROVE c.task \in Tasks
    BY <1>6, SelectionFacts DEF EdgeInv
  <1>4. CASE ClaimRejected(w)
    <2>1. PICK t \in Tasks :
            task' = [Before(w) EXCEPT ![t] = [UpdateRow(Before(w)[t], "blocked", "other", "none")
                                                EXCEPT !.lastRun = NoToken]]
      BY <1>3, <1>4, <1>6 DEF ClaimRejected
    <2> DEFINE updated == UpdateRow(Before(w)[t], "blocked", "other", "none")
               row == [updated EXCEPT !.lastRun = NoToken]
    <2>2. updated \in Row /\ updated.status \in Statuses
      <3>1. Before(w)[t] \in Row
        BY <1>3
      <3>2. "blocked" \in Statuses /\ "other" \in Reasons /\ "none" \in ReadyAt
        BY DEF Statuses, Reasons, ReadyAt
      <3> QED
        BY <3>1, <3>2, UpdateRowType, UpdateRowStatus
    <2> HIDE DEF updated
    <2>3. row.status \in Statuses
      BY <2>2 DEF Row
    <2>4. task' = [Before(w) EXCEPT ![t] = row]
      BY <2>1 DEF updated
    <2> HIDE DEF row
    <2> QED
      BY <1>3, <1>4, <2>3, <2>4 DEF ClaimRejected, KeepsRows
  <1>5. CASE ClaimTask(w)
    <2>1. PICK c \in Selections(w) : Claimable(c) /\ task' = Attempt(w, c)
      BY <1>5 DEF ClaimTask
    <2>2. c.task \in Tasks
      BY <1>6, <2>1
    <2> DEFINE t == c.task
               row == ClaimRow(Before(w)[t], issued + 1, c.executor, c.source)
    <2>3. row.status \in Statuses
      BY <1>3, <2>2 DEF ClaimRow, Row, Statuses, Active
    <2>4. task' = [Before(w) EXCEPT ![t] = row]
      BY <1>3, <2>1, <2>2 DEF Attempt
    <2> HIDE DEF row
    <2> QED
      BY <1>3, <1>5, <2>3, <2>4 DEF ClaimTask, KeepsRows
  <1> QED
    BY <1>1, <1>2, <1>4, <1>5 DEF ClaimStep

LEMMA FinalizeKeeps ==
  ASSUME EdgeInv, NEW w \in Workers, Finalize(w)
  PROVE  KeepsRows /\ deps' = deps
  <1> DEFINE c == worker[w]
             row == FinalizeRow(task[c.task], c.result, c.reason,
                                Revisit(c.result, c.reason), c.token)
  <1>1. c.result \in Statuses /\ c.task \in Tasks
    BY DEF EdgeInv, TypeOK, RuntimeTypeOK, WorkerState
  <1>2. row.status = c.result
    BY <1>1, ClearClaimType DEF FinalizeRow, EdgeInv, TypeOK, StoreTypeOK, Row
  <1>3. task' = [task EXCEPT ![c.task] = row] /\ deps' = deps
    BY DEF Finalize
  <1> HIDE DEF row
  <1> QED
    BY <1>1, <1>2, <1>3 DEF KeepsRows, Exists, EdgeInv, TypeOK, StoreTypeOK

LEMMA FinalizeLostKeeps ==
  ASSUME EdgeInv, NEW w \in Workers, FinalizeLost(w)
  PROVE  KeepsRows /\ deps' = deps
  <1> DEFINE c == worker[w]
             row == IF task[c.task].token = c.token
                    THEN [ClearClaim(task[c.task]) EXCEPT !.lastRun = c.token]
                    ELSE task[c.task]
             revisit == /\ row.status = "blocked" /\ row.ready = "none"
                        /\ row.reason = "external_poll"
             kept == IF revisit THEN [row EXCEPT !.ready = "later"] ELSE row
  <1>1. /\ c.token \in 0..MaxRuns /\ c.task \in Tasks
        /\ task[c.task] \in Row
    BY DEF EdgeInv, TypeOK, StoreTypeOK, RuntimeTypeOK, WorkerState
  <1>2. row \in Row /\ row.status = task[c.task].status
    BY <1>1, ClearClaimType DEF ClearClaim, Row
  <1>3. /\ task' = [task EXCEPT ![c.task] = kept] \/ task' = task
        /\ deps' = deps
    BY DEF FinalizeLost
  <1>4. kept.status = task[c.task].status
    <2> HIDE DEF row
    <2> QED
      BY <1>2 DEF Row
  <1> HIDE DEF kept
  <1> QED
    BY <1>1, <1>3, <1>4 DEF KeepsRows, Exists, EdgeInv, TypeOK, StoreTypeOK

LEMMA ReleaseKeeps ==
  ASSUME EdgeInv, NEW w \in Workers, Release(w)
  PROVE  KeepsRows /\ deps' = deps
  <1> DEFINE c == worker[w]
             row == ReleaseRow(task[c.task], SweepTarget(c),
                               IF c.source = "review" THEN "none" ELSE "due")
  <1>1. c.task \in Tasks
    BY DEF EdgeInv, TypeOK, RuntimeTypeOK, WorkerState
  <1>2. row.status = SweepTarget(c)
    BY <1>1, ClearClaimType DEF ReleaseRow, EdgeInv, TypeOK, StoreTypeOK, Row
  <1>3. /\ task' = [task EXCEPT ![c.task] = row] \/ task' = task
        /\ deps' = deps
    BY DEF Release
  <1> HIDE DEF row
  <1> QED
    BY <1>1, <1>2, <1>3, SweepTargetType
    DEF KeepsRows, Exists, EdgeInv, TypeOK, StoreTypeOK

LEMMA ProgressKeeps ==
  ASSUME EdgeInv, NEW w \in Workers, Progress(w)
  PROVE  KeepsRows /\ deps' = deps
  <1>1. CASE UNCHANGED storeVars
    BY <1>1 DEF storeVars, KeepsRows, Exists
  <1>2. CASE MarkStarted(w)
    <2>1. /\ task' = [task EXCEPT ![worker[w].task].status = "running"] \/ task' = task
          /\ deps' = deps
      BY <1>2 DEF MarkStarted, StartRow
    <2> QED
      BY <2>1 DEF KeepsRows, Exists, EdgeInv, TypeOK, StoreTypeOK, Row, Statuses, Active
  <1>3. CASE Settle(w)
    <2>1. /\ worker[w].task \in Tasks
          /\ task' = ReconcileDependents(task, deps, worker[w].task) \/ task' = task
          /\ deps' = deps
      BY <1>3 DEF Settle, EdgeInv, TypeOK, RuntimeTypeOK, WorkerState
    <2>2. ASSUME NEW u \in Tasks, Exists(u)
          PROVE  task'[u].status \in Statuses
      BY <2>1, <2>2, ReconcileDependentsStatus DEF Exists, EdgeInv, TypeOK, StoreTypeOK
    <2> QED
      BY <2>1, <2>2 DEF KeepsRows
  <1> QED
    BY <1>1, <1>2, <1>3, FinalizeKeeps, FinalizeLostKeeps, ReleaseKeeps
    DEF Progress, BuildTarget, LeaseLost, TurnEnds, SettleMissing

LEMMA RuntimeStepKeeps ==
  ASSUME EdgeInv, NEW w \in Workers,
         ClaimStep(w) \/ Progress(w) \/ RefreshLease(w) \/ Disruption(w)
  PROVE  KeepsRows /\ deps' = deps
  <1>1. CASE RefreshLease(w)
    BY <1>1 DEF RefreshLease, KeepsRows, Exists, EdgeInv, TypeOK, StoreTypeOK, Row
  <1>2. CASE Disruption(w)
    BY <1>2 DEF Disruption, TryRaises, Cancelled, Dies, storeVars, KeepsRows, Exists
  <1> QED
    BY <1>1, <1>2, ClaimStepKeeps, ProgressKeeps

LEMMA SurroundingsKeep ==
  ASSUME EdgeInv, EmployeeStep \/ ClockStep
  PROVE  KeepsRows /\ deps' = deps
  <1>1. CASE EmployeeStep
    BY <1>1 DEF EmployeeStep, EmployeeStatusChanges, KeepsRows, Exists
  <1>2. CASE ClockStep
    <2>1. PICK t \in Tasks : LeaseExpires(t) \/ ReadyTimeComes(t)
      BY <1>2 DEF ClockStep
    <2> QED
      BY <2>1 DEF LeaseExpires, ReadyTimeComes, KeepsRows, Exists,
                  EdgeInv, TypeOK, StoreTypeOK, Row
  <1> QED
    BY <1>1, <1>2

----------------------------------------------------------------------------
LEMMA InitEdges ==
  ASSUME Init
  PROVE  EdgeInv
  BY InitType DEF Init, StoreInit, EdgeInv, EdgesExist, DependenciesAcyclic

LEMMA NextEdges == EdgeInv /\ [Next]_vars => EdgeInv'
  <1> SUFFICES ASSUME EdgeInv, [Next]_vars
               PROVE  EdgeInv'
    OBVIOUS
  <1>1. TypeOK'
    BY NextType DEF EdgeInv
  <1>2. CASE \E t \in Tasks : ServiceStep(t)
    BY <1>1, <1>2, ServiceStepEdges
  <1>3. CASE \E w \in Workers :
               ClaimStep(w) \/ Progress(w) \/ RefreshLease(w) \/ Disruption(w)
    BY <1>1, <1>3, RuntimeStepKeeps, EdgesKept
  <1>4. CASE SweepExpiredClaims
    BY <1>1, <1>4, SweepKeeps, EdgesKept
  <1>5. CASE EmployeeStep \/ ClockStep
    BY <1>1, <1>5, SurroundingsKeep, EdgesKept
  <1>6. CASE UNCHANGED vars
    BY <1>6 DEF vars, storeVars, runtimeVars, EdgeInv, EdgesExist, Exists,
                DependenciesAcyclic, TypeOK, StoreTypeOK, RuntimeTypeOK
  <1> QED
    BY <1>2, <1>3, <1>4, <1>5, <1>6 DEF Next

\* Dependencies never form a cycle, however many tasks there are and whatever is
\* created, added, delegated, removed or deleted: the search in
\* _ensure_no_dependency_cycle and the freshness of new tasks are enough.
THEOREM DependenciesStayAcyclic == Spec => []DependenciesAcyclic
  <1>1. EdgeInv => DependenciesAcyclic
    BY DEF EdgeInv
  <1> QED
    BY <1>1, InitEdges, NextEdges, PTL DEF Spec

----------------------------------------------------------------------------
(* No wake-up is lost *)

\* Worker w is about to reconcile the dependents of d.
Wakes(w, d) ==
    /\ worker[w].task = d /\ worker[w].reconcile
    /\ worker[w].place \in {"settling", "settlingInHandler"}

\* Edges wait for completion, and no turn asks to wait for a prerequisite.
OnCompletion == \A e \in deps : e.on = "completed"
NoWaitOutcome == \A w \in Workers : worker[w].reason # "dependency_wait"

\* What a step may do to a task for the invariant to go on for it: it does not
\* wait, it waits for one that is not completed, or it waited before and whoever
\* completed one of its prerequisites since is about to wake it.
StaysAwake(u) ==
    \/ ~Waiting(task'[u]) \/ \A e \in deps' : e.task # u
    \/ \E e \in deps' : e.task = u /\ task'[e.dep].status # "completed"
    \/ /\ Waiting(task[u])
       /\ \A e \in deps \cup deps' : e.task = u =>
            /\ e \in deps /\ e \in deps'
            /\ task'[e.dep].status = "completed" =>
                   task[e.dep].status = "completed" \/ \E w \in Workers : Wakes(w, e.dep)'
            /\ \A w \in Workers : Wakes(w, e.dep) => Wakes(w, e.dep)'

LEMMA AwakeKeeps ==
  ASSUME NoLostWakeup, OnCompletion, OnCompletion', \A u \in Tasks : StaysAwake(u)
  PROVE  NoLostWakeup'
  <1> SUFFICES ASSUME NEW u \in Tasks, Waiting(task'[u]), NEW e0 \in deps', e0.task = u
               PROVE  \/ \E e \in deps' : e.task = u /\ task'[e.dep].status # e.on
                      \/ \E e \in deps', w \in Workers : e.task = u /\ Wakes(w, e.dep)'
    BY DEF NoLostWakeup, AllSatisfied, Wakes
  <1>1. CASE \E e \in deps' : e.task = u /\ task'[e.dep].status # "completed"
    BY <1>1 DEF OnCompletion
  <1>2. CASE ~ \E e \in deps' : e.task = u /\ task'[e.dep].status # "completed"
    <2>1. /\ Waiting(task[u])
          /\ \A e \in deps \cup deps' : e.task = u =>
                /\ e \in deps /\ e \in deps'
                /\ task'[e.dep].status = "completed" =>
                       task[e.dep].status = "completed" \/ \E w \in Workers : Wakes(w, e.dep)'
                /\ \A w \in Workers : Wakes(w, e.dep) => Wakes(w, e.dep)'
      BY <1>2 DEF StaysAwake
    <2>2. CASE \E e \in deps : e.task = u /\ task[e.dep].status # "completed"
      BY <1>2, <2>1, <2>2
    <2>3. CASE \A e \in deps : e.task = u => task[e.dep].status = "completed"
      <3>1. AllSatisfied(task, deps, u)
        BY <2>3 DEF AllSatisfied, OnCompletion
      <3>2. PICK e \in deps, w \in Workers : e.task = u /\ Wakes(w, e.dep)
        BY <2>1, <3>1 DEF NoLostWakeup, Wakes
      <3> QED
        BY <2>1, <3>2
    <2> QED
      BY <2>2, <2>3
  <1> QED
    BY <1>1, <1>2

----------------------------------------------------------------------------
(* What reconciliation leaves behind *)

LEMMA UpdateRowFields ==
  ASSUME NEW row \in Row, NEW status \in Statuses, NEW reason \in Reasons,
         NEW given \in ReadyAt \cup {"unset"}
  PROVE  LET updated == UpdateRow(row, status, reason, given) IN
         updated \in Row /\ updated.status = status /\ updated.reason = reason
  <1> DEFINE base == IF status \in Active THEN row ELSE ClearClaim(row)
             ready == ReadyAfter(row, status, given)
  <1>1. base \in Row
    BY ClearClaimType
  <1>2. UpdateRow(row, status, reason, given)
          = [base EXCEPT !.status = status, !.reason = reason, !.ready = ready]
    BY DEF UpdateRow
  <1>3. UpdateRow(row, status, reason, given) \in Row
    BY UpdateRowType
  <1> HIDE DEF base, ready
  <1> QED
    BY <1>1, <1>2, <1>3 DEF Row

LEMMA PromoteFields ==
  ASSUME NEW row \in Row
  PROVE  Promote(row).status = "todo" /\ ~Waiting(Promote(row))
  BY UpdateRowFields DEF Promote, Waiting, Statuses, Reasons, ReadyAt

\* A task that still waits has a prerequisite that is not satisfied; nothing
\* becomes completed.
LEMMA ReadinessFields ==
  ASSUME NEW tasks \in [Tasks -> Row], NEW edges, NEW u \in Tasks,
         NEW row, row = Readiness(tasks, edges, u) \/ row = ReadinessAfterChange(tasks, edges, u)
  PROVE  /\ row.status = "completed" => tasks[u].status = "completed"
         /\ Waiting(row) => (\A e \in edges : e.task # u) \/ ~AllSatisfied(tasks, edges, u)
  <1>1. Promote(tasks[u]).status = "todo" /\ ~Waiting(Promote(tasks[u]))
    BY PromoteFields
  <1>2. UpdateRow(tasks[u], "blocked", "dependency_wait", "unset").status = "blocked"
    BY UpdateRowFields DEF Statuses, Reasons, ReadyAt
  <1> QED
    BY <1>1, <1>2 DEF Readiness, ReadinessAfterChange, AllSatisfied

LEMMA ReadinessKeepsWaiting ==
  ASSUME NEW tasks \in [Tasks -> Row], NEW edges, NEW u \in Tasks,
         Waiting(Readiness(tasks, edges, u))
  PROVE  Readiness(tasks, edges, u) = tasks[u]
  BY PromoteFields DEF Readiness

----------------------------------------------------------------------------
(* The ways in which steps keep tasks awake *)

\* No task is completed or begins to wait, and no edge changes.
LEMMA NothingDone ==
  ASSUME EdgeInv, deps' = deps,
         \A u \in Tasks : /\ task'[u].status = "completed" => task[u].status = "completed"
                          /\ Waiting(task'[u]) => Waiting(task[u]),
         \A w \in Workers, d \in Tasks : Wakes(w, d) /\ Exists(d) => Wakes(w, d)'
  PROVE  \A u \in Tasks : StaysAwake(u)
  <1>1. \A e \in deps : e.dep \in Tasks /\ Exists(e.dep)
    BY DEF EdgeInv, EdgesExist, TypeOK, StoreTypeOK, Edge
  <1> QED
    BY <1>1 DEF StaysAwake

\* A task is completed, or was before, and its dependents are reconciled.
LEMMA ReconcilesDone ==
  ASSUME EdgeInv, OnCompletion, NEW t \in Tasks, NEW tasks \in [Tasks -> Row],
         \A u \in Tasks \ {t} : tasks[u] = task[u],
         ~Waiting(tasks[t]) \/ tasks[t] = task[t],
         task' = ReconcileDependents(tasks, deps, t), deps' = deps,
         \A w \in Workers, d \in Tasks \ {t} : Wakes(w, d) => Wakes(w, d)'
  PROVE  \A u \in Tasks : StaysAwake(u)
  <1>1. \A u \in Tasks : task'[u] = tasks[u] \/ task'[u] = Readiness(tasks, deps, u)
    BY DEF ReconcileDependents
  <1>2. \A u \in Tasks : task'[u].status = "completed" => tasks[u].status = "completed"
    BY <1>1, ReadinessFields
  <1>3. \A e \in deps : e.dep \in Tasks
    BY DEF EdgeInv, TypeOK, StoreTypeOK, Edge
  <1> SUFFICES ASSUME NEW u \in Tasks
               PROVE  StaysAwake(u)
    OBVIOUS
  <1>4. CASE \E e \in deps : e.task = u /\ e.dep = t
    <2>1. task'[u] = Readiness(tasks, deps, u)
      BY <1>4 DEF ReconcileDependents
    <2>2. CASE Waiting(task'[u])
      <3>1. \E e \in deps : e.task = u /\ tasks[e.dep].status # "completed"
        BY <1>4, <2>1, <2>2, ReadinessFields DEF AllSatisfied, OnCompletion
      <3> QED
        BY <1>2, <1>3, <3>1 DEF StaysAwake
    <2> QED
      BY <2>2 DEF StaysAwake
  <1>5. CASE ~ \E e \in deps : e.task = u /\ e.dep = t
    <2>1. task'[u] = tasks[u]
      BY <1>5 DEF ReconcileDependents
    <2>2. \A e \in deps : e.task = u => e.dep \in Tasks \ {t}
      BY <1>3, <1>5
    <2>3. Waiting(task'[u]) => Waiting(task[u])
      BY <2>1
    <2>4. \A d \in Tasks \ {t} : task'[d].status = "completed" => task[d].status = "completed"
      BY <1>2
    <2> QED
      BY <2>2, <2>3, <2>4 DEF StaysAwake
  <1> QED
    BY <1>4, <1>5

\* The edges of one task change, and it is reconciled.
LEMMA EdgesReconciled ==
  ASSUME EdgeInv, OnCompletion', deps' \subseteq Edge, NEW t \in Tasks,
         NEW tasks \in [Tasks -> Row],
         \A u \in Tasks \ {t} : task'[u] = tasks[u],
         \/ task'[t] = Readiness(tasks, deps', t)
         \/ task'[t] = ReadinessAfterChange(tasks, deps', t),
         \A u \in Tasks : Exists(u) =>
             (tasks[u].status = "completed" => task[u].status = "completed"),
         \A u \in Tasks \ {t} : Waiting(tasks[u]) => Waiting(task[u]),
         \A e \in deps \cup deps' : e.task # t => e \in deps /\ e \in deps',
         worker' = worker
  PROVE  \A u \in Tasks : StaysAwake(u)
  <1>1. \A u \in Tasks : task'[u].status = "completed" => tasks[u].status = "completed"
    BY ReadinessFields
  <1>2. StaysAwake(t)
    <2>1. CASE Waiting(task'[t]) /\ \E e \in deps' : e.task = t
      <3>1. \E e \in deps' : e.task = t /\ tasks[e.dep].status # "completed"
        BY <2>1, ReadinessFields DEF AllSatisfied, OnCompletion
      <3> QED
        BY <1>1, <3>1 DEF StaysAwake, Edge
    <2> QED
      BY <2>1 DEF StaysAwake
  <1>3. ASSUME NEW u \in Tasks \ {t}
        PROVE  StaysAwake(u)
    <2>1. Waiting(task'[u]) => Waiting(task[u])
      OBVIOUS
    <2>2. \A e \in deps \cup deps' : e.task = u =>
             e \in deps /\ e \in deps' /\ e.dep \in Tasks /\ Exists(e.dep)
      BY DEF EdgeInv, EdgesExist, TypeOK, StoreTypeOK, Edge
    <2>3. \A w, d : Wakes(w, d) => Wakes(w, d)'
      BY DEF Wakes
    <2> QED
      BY <1>1, <2>1, <2>2, <2>3 DEF StaysAwake
  <1> QED
    BY <1>2, <1>3

----------------------------------------------------------------------------
(* Operations of the service *)

WakeStep == OnCompletion' /\ \A u \in Tasks : StaysAwake(u)

LEMMA CreateAwake ==
  ASSUME EdgeInv, OnCompletion, TypeOK', NEW t \in Tasks, NEW owner \in Owners,
         NEW reviewer \in Reviewers, NEW review \in ReviewFlags, NEW asked,
         NEW D \in SUBSET (Tasks \ {t}), Create(t, owner, reviewer, review, asked, D),
         worker' = worker
  PROVE  WakeStep
  <1> DEFINE status == IF asked # "default" THEN asked
                       ELSE IF D = {} THEN "todo" ELSE "blocked"
             ready == IF D = {} /\ status = "todo" THEN "due" ELSE "none"
             reason == IF status = "blocked" THEN "dependency_wait" ELSE "none"
             row == NewRow(status, owner, reviewer, review, ready, reason)
             tasks == [task EXCEPT ![t] = row]
             added == {[task |-> t, dep |-> d, on |-> "completed"] : d \in D}
             edges == deps \cup added
  <1>1. /\ deps' = edges /\ task' = [tasks EXCEPT ![t] = Readiness(tasks, edges, t)]
        /\ task[t].status = "absent"
    BY DEF Create
  <1>2. row \in Row
    <2>1. status \in Statuses
      BY DEF Create, Statuses
    <2>2. ready \in ReadyAt /\ reason \in Reasons
      BY DEF ReadyAt, Reasons
    <2>3. reviewer \in Owners \cup {NoOwner} /\ review \in BOOLEAN
      BY ServiceAssumption DEF ServiceAssumption
    <2> HIDE DEF status, ready, reason
    <2> QED
      BY <2>1, <2>2, <2>3, NewRowType
  <1> HIDE DEF row
  <1>3. /\ tasks \in [Tasks -> Row]
        /\ \A u \in Tasks \ {t} : tasks[u] = task[u]
    BY <1>2 DEF EdgeInv, TypeOK, StoreTypeOK
  <1>4. ~Exists(t)
    BY <1>1 DEF Exists, Statuses, Active, Terminal
  <1> HIDE DEF tasks
  <1>5. /\ task'[t] = Readiness(tasks, deps', t)
        /\ \A u \in Tasks \ {t} : task'[u] = tasks[u]
    BY <1>1, <1>3
  <1>6. \A e \in added : e.task = t /\ e.on = "completed"
    OBVIOUS
  <1> HIDE DEF added
  <1>7. OnCompletion' /\ deps' \subseteq Edge
    BY <1>1, <1>6 DEF OnCompletion, TypeOK, StoreTypeOK
  <1>8. \A e \in deps \cup deps' : e.task # t => e \in deps /\ e \in deps'
    BY <1>1, <1>6
  <1>9. \A u \in Tasks : StaysAwake(u)
    BY <1>3, <1>4, <1>5, <1>7, <1>8, EdgesReconciled
  <1> QED
    BY <1>7, <1>9 DEF WakeStep

LEMMA UpdateTaskAwake ==
  ASSUME EdgeInv, OnCompletion, TypeOK', NEW t \in Tasks, NEW status \in Statuses \cup {"keep"},
         NEW owner \in Owners, NEW reason \in Reasons, reason # "dependency_wait",
         NEW given \in ReadyAt \cup {"unset"},
         UpdateTask(t, status, owner, reason, given), worker' = worker
  PROVE  WakeStep
  <1> DEFINE row == task[t]
             eff == IF owner # row.owner /\ status = "keep" /\ row.status \in Active
                    THEN "todo" ELSE status
             updated == IF eff = "keep" THEN row ELSE UpdateRow(row, eff, reason, given)
             moved == [updated EXCEPT !.owner = owner]
             tasks == [task EXCEPT ![t] = moved]
  <1>1. row \in Row
    BY DEF EdgeInv, TypeOK, StoreTypeOK
  <1>2. eff \in Statuses \cup {"keep"}
    BY DEF Statuses
  <1>3. /\ task' = IF eff = "completed" THEN ReconcileDependents(tasks, deps, t)
                   ELSE IF eff = "todo"
                   THEN [tasks EXCEPT ![t] = ReadinessAfterChange(tasks, deps, t)]
                   ELSE tasks
        /\ deps' = deps
    BY DEF UpdateTask
  <1>4. row = task[t]
    OBVIOUS
  <1> HIDE DEF row, eff
  <1>5. /\ updated \in Row
        /\ eff # "keep" => updated.status = eff /\ updated.reason = reason
        /\ eff = "keep" => updated = row
    BY <1>1, <1>2, UpdateRowFields
  <1> HIDE DEF updated
  <1>6. /\ moved \in Row /\ moved.status = updated.status /\ moved.reason = updated.reason
    BY <1>5 DEF Row
  <1> HIDE DEF moved
  <1>7. /\ tasks \in [Tasks -> Row] /\ tasks[t] = moved
        /\ \A u \in Tasks \ {t} : tasks[u] = task[u]
    BY <1>6 DEF EdgeInv, TypeOK, StoreTypeOK
  <1> HIDE DEF tasks
  <1>8. /\ eff = "completed" => tasks[t].status = "completed"
        /\ eff \notin {"completed", "keep"} => tasks[t].status # "completed" /\ ~Waiting(tasks[t])
        /\ eff = "keep" => /\ tasks[t].status = task[t].status
                           /\ Waiting(tasks[t]) => Waiting(task[t])
    BY <1>4, <1>5, <1>6, <1>7 DEF Waiting
  <1>9. OnCompletion' /\ \A w, d : Wakes(w, d) => Wakes(w, d)'
    BY <1>3 DEF OnCompletion, Wakes
  <1>10. CASE eff = "completed"
    <2>1. ~Waiting(tasks[t])
      BY <1>8, <1>10 DEF Waiting
    <2>2. \A u \in Tasks : StaysAwake(u)
      BY <1>3, <1>7, <1>9, <1>10, <2>1, ReconcilesDone
    <2> QED
      BY <1>9, <2>2 DEF WakeStep
  <1>11. CASE eff = "todo"
    <2>1. /\ task'[t] = ReadinessAfterChange(tasks, deps', t)
          /\ \A u \in Tasks \ {t} : task'[u] = tasks[u]
      BY <1>3, <1>7, <1>11
    <2>2. deps' \subseteq Edge
      BY DEF TypeOK, StoreTypeOK
    <2>3. tasks[t].status # "completed"
      BY <1>8, <1>11
    <2>4. \A u \in Tasks : StaysAwake(u)
      BY <1>3, <1>7, <1>9, <2>1, <2>2, <2>3, EdgesReconciled
    <2> QED
      BY <1>9, <2>4 DEF WakeStep
  <1>12. CASE eff \notin {"completed", "todo"}
    <2>1. \A u \in Tasks : /\ task'[u].status = "completed" => task[u].status = "completed"
                           /\ Waiting(task'[u]) => Waiting(task[u])
      BY <1>3, <1>7, <1>8, <1>12
    <2>2. \A u \in Tasks : StaysAwake(u)
      BY <1>3, <1>9, <2>1, NothingDone
    <2> QED
      BY <1>9, <2>2 DEF WakeStep
  <1> QED
    BY <1>10, <1>11, <1>12

LEMMA ReviewAwake ==
  ASSUME EdgeInv, OnCompletion, TypeOK', NEW t \in Tasks, worker' = worker,
         \/ \E reviewer, review : UpdateReviewPolicy(t, reviewer, review)
         \/ ApproveReview(t)
         \/ \E owner \in Owners : RequestChanges(t, owner)
  PROVE  WakeStep
  <1>1. deps' = deps /\ OnCompletion' /\ \A w, d : Wakes(w, d) => Wakes(w, d)'
    BY DEF UpdateReviewPolicy, ApproveReview, RequestChanges, OnCompletion, Wakes
  <1>2. task \in [Tasks -> Row]
    BY DEF EdgeInv, TypeOK, StoreTypeOK
  <1>3. ASSUME NEW reviewer, NEW review, UpdateReviewPolicy(t, reviewer, review)
        PROVE  \A u \in Tasks : StaysAwake(u)
    <2>1. \A u \in Tasks : task'[u].status = task[u].status /\ task'[u].reason = task[u].reason
      BY <1>2, <1>3 DEF UpdateReviewPolicy, Row
    <2> QED
      BY <1>1, <2>1, NothingDone DEF Waiting
  <1>4. ASSUME ApproveReview(t)
        PROVE  \A u \in Tasks : StaysAwake(u)
    <2> DEFINE approved == UpdateRow(task[t], "completed", "none", "unset")
               tasks == [task EXCEPT ![t] = approved]
    <2>1. task' = ReconcileDependents(tasks, deps, t)
      BY <1>4 DEF ApproveReview
    <2>2. approved \in Row /\ approved.status = "completed"
      BY <1>2, UpdateRowFields DEF Statuses, Terminal, Reasons, ReadyAt
    <2> HIDE DEF approved
    <2>3. /\ tasks \in [Tasks -> Row] /\ tasks[t] = approved
          /\ \A u \in Tasks \ {t} : tasks[u] = task[u]
      BY <1>2, <2>2
    <2> HIDE DEF tasks
    <2>4. ~Waiting(tasks[t])
      BY <2>2, <2>3 DEF Waiting
    <2>5. \A w \in Workers, d \in Tasks \ {t} : Wakes(w, d) => Wakes(w, d)'
      BY <1>1
    <2>6. deps' = deps
      BY <1>1
    <2> QED
      BY <2>1, <2>3, <2>4, <2>5, <2>6, ReconcilesDone
  <1>5. ASSUME NEW owner \in Owners, RequestChanges(t, owner)
        PROVE  \A u \in Tasks : StaysAwake(u)
    <2> DEFINE given == IF owner \in Employees THEN "due" ELSE "none"
               updated == UpdateRow(task[t], "blocked", "review_changes_requested", given)
               moved == [updated EXCEPT !.owner = owner]
    <2>1. updated \in Row /\ updated.status = "blocked"
          /\ updated.reason = "review_changes_requested"
      BY <1>2, UpdateRowFields DEF ReadyAt, Statuses, Reasons
    <2>2. task' = [task EXCEPT ![t] = moved]
      BY <1>5 DEF RequestChanges
    <2> HIDE DEF updated
    <2>3. moved.status = "blocked" /\ moved.reason = "review_changes_requested"
      BY <2>1 DEF Row
    <2> HIDE DEF moved
    <2>4. \A u \in Tasks : /\ task'[u].status = "completed" => task[u].status = "completed"
                           /\ Waiting(task'[u]) => Waiting(task[u])
      BY <1>2, <2>2, <2>3 DEF Waiting
    <2> QED
      BY <1>1, <2>4, NothingDone
  <1> QED
    BY <1>1, <1>3, <1>4, <1>5 DEF WakeStep

LEMMA DependencyAwake ==
  ASSUME EdgeInv, OnCompletion, TypeOK', SatisfiedOn \subseteq {"completed"},
         NEW t \in Tasks, NEW d \in Tasks, worker' = worker,
         (\E on \in SatisfiedOn : AddDependency(t, d, on)) \/ RemoveDependency(t, d)
  PROVE  WakeStep
  <1>1. task \in [Tasks -> Row] /\ deps' \subseteq Edge
    BY DEF EdgeInv, TypeOK, StoreTypeOK
  <1>2. /\ task' = [task EXCEPT ![t] = ReadinessAfterChange(task, deps', t)]
        /\ \A e \in deps' : e \in deps \/ (e.task = t /\ e.on = "completed")
        /\ \A e \in deps : e.task # t => e \in deps'
    <2>1. ASSUME NEW on \in SatisfiedOn, AddDependency(t, d, on)
          PROVE  /\ task' = [task EXCEPT ![t] = ReadinessAfterChange(task, deps', t)]
                 /\ \A e \in deps' : e \in deps \/ (e.task = t /\ e.on = "completed")
                 /\ deps \subseteq deps'
      <3> DEFINE new == [task |-> t, dep |-> d, on |-> on]
      <3>1. new.task = t /\ new.on = "completed"
        OBVIOUS
      <3>2. /\ deps' = deps \cup {new}
            /\ task' = [task EXCEPT ![t] = ReadinessAfterChange(task, deps \cup {new}, t)]
        BY <2>1 DEF AddDependency
      <3> HIDE DEF new
      <3> QED
        BY <3>1, <3>2
    <2>2. ASSUME RemoveDependency(t, d)
          PROVE  /\ task' = [task EXCEPT ![t] = ReadinessAfterChange(task, deps', t)]
                 /\ deps' \subseteq deps
                 /\ \A e \in deps : e.task # t => e \in deps'
      <3> DEFINE edges == {e \in deps : ~(e.task = t /\ e.dep = d)}
      <3>1. deps' = edges /\ task' = [task EXCEPT ![t] = ReadinessAfterChange(task, edges, t)]
        BY <2>2 DEF RemoveDependency
      <3>2. edges \subseteq deps /\ \A e \in deps : e.task # t => e \in edges
        OBVIOUS
      <3> HIDE DEF edges
      <3> QED
        BY <3>1, <3>2
    <2> QED
      BY <2>1, <2>2
  <1>3. OnCompletion'
    BY <1>2 DEF OnCompletion
  <1>4. \A u \in Tasks : StaysAwake(u)
    <2>1. /\ task'[t] = ReadinessAfterChange(task, deps', t)
          /\ \A u \in Tasks \ {t} : task'[u] = task[u]
      BY <1>1, <1>2
    <2>2. \A e \in deps \cup deps' : e.task # t => e \in deps /\ e \in deps'
      BY <1>2
    <2> QED
      BY <1>1, <1>3, <2>1, <2>2, EdgesReconciled
  <1> QED
    BY <1>3, <1>4 DEF WakeStep

LEMMA DelegateAwake ==
  ASSUME EdgeInv, OnCompletion, TypeOK', NEW t \in Tasks, NEW n \in Tasks,
         NEW owner \in Employees, NEW review \in ReviewFlags, NEW wait \in BOOLEAN,
         Delegate(t, n, owner, review, wait), worker' = worker
  PROVE  WakeStep
  <1> DEFINE row == NewRow("todo", owner, NoOwner, review, "due", "none")
             tasks == [task EXCEPT ![n] = row]
             new == [task |-> t, dep |-> n, on |-> "completed"]
             edges == IF wait THEN deps \cup {new} ELSE deps
  <1>1. row \in Row /\ row.status = "todo"
    <2>1. row.status = "todo" /\ "todo" \in Statuses
      BY DEF NewRow, Statuses
    <2> QED
      BY <2>1, NewRowType, ServiceAssumption
      DEF ServiceAssumption, Owners, ReadyAt, Reasons
  <1>2. /\ deps' = edges /\ Exists(t) /\ ~Exists(n)
        /\ task' = IF wait THEN [tasks EXCEPT ![t] = ReadinessAfterChange(tasks, edges, t)]
                   ELSE tasks
    BY DEF Delegate, Exists, Statuses, Active, Terminal
  <1> HIDE DEF row
  <1>3. /\ tasks \in [Tasks -> Row] /\ tasks[n] = row
        /\ \A u \in Tasks \ {n} : tasks[u] = task[u]
    BY <1>1 DEF EdgeInv, TypeOK, StoreTypeOK
  <1> HIDE DEF tasks
  <1>4. new.task = t /\ new.on = "completed"
    OBVIOUS
  <1> HIDE DEF new
  <1>5. OnCompletion' /\ deps' \subseteq Edge /\ \A w, d : Wakes(w, d) => Wakes(w, d)'
    BY <1>2, <1>4 DEF OnCompletion, TypeOK, StoreTypeOK, Wakes
  <1>6. tasks[n].status # "completed" /\ ~Waiting(tasks[n])
    BY <1>1, <1>3 DEF Waiting
  <1>7. CASE wait
    <2>1. /\ task'[t] = ReadinessAfterChange(tasks, deps', t)
          /\ \A u \in Tasks \ {t} : task'[u] = tasks[u]
      BY <1>2, <1>3, <1>7
    <2>2. \A e \in deps \cup deps' : e.task # t => e \in deps /\ e \in deps'
      BY <1>2, <1>4
    <2>3. \A u \in Tasks : StaysAwake(u)
      BY <1>3, <1>5, <1>6, <2>1, <2>2, EdgesReconciled
    <2> QED
      BY <1>5, <2>3 DEF WakeStep
  <1>8. CASE ~wait
    <2>1. \A u \in Tasks : /\ task'[u].status = "completed" => task[u].status = "completed"
                           /\ Waiting(task'[u]) => Waiting(task[u])
      BY <1>2, <1>3, <1>6, <1>8
    <2>2. \A u \in Tasks : StaysAwake(u)
      BY <1>2, <1>5, <1>8, <2>1, NothingDone
    <2> QED
      BY <1>5, <2>2 DEF WakeStep
  <1> QED
    BY <1>7, <1>8

\* Who waited for a deleted task is reconciled with what is left.
LEMMA DeleteRowsAwake ==
  ASSUME EdgeInv, OnCompletion, TypeOK', NEW ts \in SUBSET Tasks, NEW first,
         DeleteRows(ts, first), worker' = worker
  PROVE  WakeStep
  <1> DEFINE edges == {e \in deps : e.task \notin ts /\ e.dep \notin ts}
             others(u) == {e \in deps : e.task = u /\ e.dep # first[u]}
             begun(u) == [task EXCEPT ![u] = ReadinessAfterChange(task, others(u), u)]
  <1>1. /\ deps' = edges
        /\ task' = [u \in Tasks |->
                      IF u \in ts THEN DeletedRow
                      ELSE IF u \in Dependents(ts)
                           THEN ReadinessAfterChange(begun(u), edges, u)
                      ELSE task[u]]
    BY DEF DeleteRows
  <1>2. /\ task \in [Tasks -> Row]
        /\ \A e \in deps : e.task \in Tasks /\ e.dep \in Tasks
    BY DEF EdgeInv, TypeOK, StoreTypeOK, Edge
  <1>3. OnCompletion' /\ deps' \subseteq deps /\ \A w, d : Wakes(w, d) => Wakes(w, d)'
    BY <1>1 DEF OnCompletion, Wakes
  <1>4. ASSUME NEW u \in Tasks
        PROVE  /\ begun(u) \in [Tasks -> Row]
               /\ begun(u)[u].status = "completed" => task[u].status = "completed"
               /\ \A v \in Tasks \ {u} : begun(u)[v] = task[v]
    <2>1. /\ ReadinessAfterChange(task, others(u), u) \in Row
          /\ ReadinessAfterChange(task, others(u), u).status = "completed"
               => task[u].status = "completed"
      BY <1>2, ReadinessAfterChangeType, ReadinessFields
    <2> HIDE DEF others
    <2> QED
      BY <1>2, <2>1
  <1> HIDE DEF begun
  <1>5. ASSUME NEW u \in Tasks, ReadinessAfterChange(begun(u), edges, u).status = "completed"
        PROVE  task[u].status = "completed"
    BY <1>4, <1>5, ReadinessFields
  <1>6. \A u \in Tasks \ ts : task'[u].status = "completed" => task[u].status = "completed"
    BY <1>1, <1>5
  <1>7. ASSUME NEW u \in Tasks
        PROVE  StaysAwake(u)
    <2>1. CASE u \in ts
      BY <1>1, <2>1 DEF StaysAwake
    <2>2. CASE u \notin ts /\ u \in Dependents(ts)
      <3>1. task'[u] = ReadinessAfterChange(begun(u), edges, u)
        BY <1>1, <2>2
      <3>2. CASE Waiting(task'[u]) /\ \E e \in edges : e.task = u
        <4>1. PICK e \in edges : e.task = u /\ begun(u)[e.dep].status # e.on
          BY <1>4, <3>1, <3>2, ReadinessFields DEF AllSatisfied
        <4>2. e.on = "completed" /\ e.dep \in Tasks \ ts
          BY <1>2, <1>3 DEF OnCompletion
        <4>3. task'[e.dep].status # "completed"
          <5>1. CASE e.dep = u
            BY <3>2, <5>1 DEF Waiting
          <5>2. CASE e.dep # u
            BY <1>4, <1>6, <4>1, <4>2, <5>2
          <5> QED
            BY <5>1, <5>2
        <4> QED
          BY <1>1, <4>1, <4>3 DEF StaysAwake
      <3> QED
        BY <1>1, <3>2 DEF StaysAwake
    <2>3. CASE u \notin ts /\ u \notin Dependents(ts)
      <3>1. task'[u] = task[u]
        BY <1>1, <2>3
      <3>2. \A e \in deps : e.task = u => e \in edges /\ e.dep \in Tasks \ ts
        BY <1>2, <2>3 DEF Dependents
      <3> QED
        BY <1>1, <1>3, <1>6, <3>1, <3>2 DEF StaysAwake
    <2> QED
      BY <2>1, <2>2, <2>3
  <1> QED
    BY <1>3, <1>7 DEF WakeStep

LEMMA ServiceStepAwake ==
  ASSUME EdgeInv, OnCompletion, TypeOK', NEW t \in Tasks, ServiceStep(t), worker' = worker,
         SatisfiedOn \subseteq {"completed"}, "dependency_wait" \notin BlockReasons
  PROVE  WakeStep
  <1>1. CASE ServiceCreates(t)
    BY <1>1, CreateAwake DEF ServiceCreates
  <1>2. CASE ServiceUpdates(t)
    <2>1. PICK s \in Statuses \cup {"keep"}, o \in Owners, c \in Reasons,
               g \in ReadyAt \cup {"unset"} :
             c \in BlockReasons \cup {"none"} /\ UpdateTask(t, s, o, c, g)
      BY <1>2 DEF ServiceUpdates
    <2>2. c # "dependency_wait"
      BY <2>1
    <2> QED
      BY <2>1, <2>2, UpdateTaskAwake
  <1>3. CASE \E v \in Reviewers, b \in ReviewFlags : UpdateReviewPolicy(t, v, b)
    BY <1>3, ReviewAwake
  <1>4. CASE ApproveReview(t) \/ \E o \in Owners : RequestChanges(t, o)
    BY <1>4, ReviewAwake
  <1>5. CASE \E d \in Tasks, on \in SatisfiedOn : AddDependency(t, d, on)
    BY <1>5, DependencyAwake
  <1>6. CASE \E d \in Tasks : RemoveDependency(t, d)
    BY <1>6, DependencyAwake
  <1>7. CASE ServiceDelegates(t)
    BY <1>7, DelegateAwake DEF ServiceDelegates
  <1>8. CASE ServiceDeletes(t)
    BY <1>8, DeleteRowsAwake DEF ServiceDeletes
  <1> QED
    BY <1>1, <1>2, <1>3, <1>4, <1>5, <1>6, <1>7, <1>8, ServiceStepCases DEF EdgeInv, TypeOK

----------------------------------------------------------------------------
(* Steps of the runtime *)

\* Nothing is completed, nothing begins to wait.
LEMMA ClaimStepAwake ==
  ASSUME EdgeInv, NEW w \in Workers, ClaimStep(w)
  PROVE  \A u \in Tasks : /\ task'[u].status = "completed" => task[u].status = "completed"
                          /\ Waiting(task'[u]) => Waiting(task[u])
  <1> DEFINE Calm(tasks) ==
               \A u \in Tasks : /\ tasks[u].status = "completed" => task[u].status = "completed"
                                /\ Waiting(tasks[u]) => Waiting(task[u])
  <1>1. task \in [Tasks -> Row] /\ Guarded \in [Tasks -> Row]
    BY GuardedType DEF EdgeInv, TypeOK, StoreTypeOK
  <1>2. Calm(Guarded)
    <2>1. ASSUME NEW u \in Tasks
          PROVE  LET row == UpdateRow(task[u], "blocked", "invalid_plan_status", "none") IN
                 row.status = "blocked" /\ row.reason = "invalid_plan_status"
      BY <1>1, UpdateRowFields DEF Statuses, Reasons, ReadyAt
    <2> QED
      BY <2>1 DEF Guarded, Waiting
  <1>8. Before(w) \in [Tasks -> Row] /\ Calm(Before(w))
    BY <1>1, <1>2, BeforeType DEF EdgeInv, TypeOK
  <1>3. ASSUME NEW t \in Tasks, NEW row, row.status # "completed", ~Waiting(row),
               task' = [Before(w) EXCEPT ![t] = row]
        PROVE  Calm(task')
    BY <1>3, <1>8
  <1>4. ASSUME NEW c \in Selections(w), Claimable(c) PROVE c.task \in Tasks
    BY <1>4, SelectionFacts DEF EdgeInv
  <1>5. CASE ClaimNothing(w) \/ ClaimConflict(w) \/ SelectTask(w) \/ ClaimMissed(w)
    BY <1>2, <1>5 DEF ClaimNothing, ClaimConflict, SelectTask, ClaimMissed, storeVars
  <1>6. CASE ClaimRejected(w)
    <2>1. PICK t \in Tasks :
            task' = [Before(w) EXCEPT ![t] = [UpdateRow(Before(w)[t], "blocked", "other", "none")
                                                EXCEPT !.lastRun = NoToken]]
      BY <1>4, <1>6, <1>8 DEF ClaimRejected
    <2> DEFINE updated == UpdateRow(Before(w)[t], "blocked", "other", "none")
               row == [updated EXCEPT !.lastRun = NoToken]
    <2>2. updated \in Row /\ updated.status = "blocked" /\ updated.reason = "other"
      BY <1>8, UpdateRowFields DEF Statuses, Reasons, ReadyAt
    <2> HIDE DEF updated
    <2>3. row.status = "blocked" /\ row.reason = "other"
      BY <2>2 DEF Row
    <2>4. task' = [Before(w) EXCEPT ![t] = row]
      BY <2>1 DEF updated
    <2> HIDE DEF row
    <2> QED
      BY <1>3, <2>3, <2>4 DEF Waiting
  <1>7. CASE ClaimTask(w)
    <2>1. PICK c \in Selections(w) : Claimable(c) /\ task' = Attempt(w, c)
      BY <1>7 DEF ClaimTask
    <2> DEFINE t == c.task
               row == ClaimRow(Before(w)[t], issued + 1, c.executor, c.source)
    <2>4. t \in Tasks
      BY <1>4, <2>1
    <2>2. row.status = "claimed"
      BY <1>8, <2>4 DEF ClaimRow, Row
    <2>3. task' = [Before(w) EXCEPT ![t] = row]
      BY <1>8, <2>1, <2>4 DEF Attempt
    <2> HIDE DEF row
    <2> QED
      BY <1>3, <2>2, <2>3, <2>4 DEF Waiting
  <1> QED
    BY <1>5, <1>6, <1>7 DEF ClaimStep

LEMMA ReleasedFields ==
  ASSUME NEW row \in Row, NEW source, NEW ready
  PROVE  LET released == ReleaseRow(row, SweepTarget(source), ready) IN
         released.status # "completed" /\ ~Waiting(released)
  <1>1. ReleaseRow(row, SweepTarget(source), ready).status \in {"review", "todo"}
    <2>1. SweepTarget(source) \in {"review", "todo"}
      BY DEF SweepTarget
    <2> HIDE DEF SweepTarget
    <2> QED
      BY <2>1, ClearClaimType DEF ReleaseRow, Row
  <1> QED
    BY <1>1 DEF Waiting

LEMMA SweepAwake ==
  ASSUME EdgeInv, SweepExpiredClaims
  PROVE  \A u \in Tasks : StaysAwake(u)
  <1>1. \A u \in Tasks : /\ task'[u].status = "completed" => task[u].status = "completed"
                         /\ Waiting(task'[u]) => Waiting(task[u])
    BY ReleasedFields DEF SweepExpiredClaims, Swept, EdgeInv, TypeOK, StoreTypeOK
  <1>2. deps' = deps /\ \A w, d : Wakes(w, d) => Wakes(w, d)'
    BY DEF SweepExpiredClaims, Wakes
  <1> QED
    BY <1>1, <1>2, NothingDone

\* What the workers remember: a reason that a turn may give, or none.
WorkersFollow(w) ==
    /\ \A v \in Workers \ {w} : worker'[v] = worker[v]
    /\ worker'[w].reason \in {worker[w].reason, "none"}
       \/ \E o \in TurnOutcomes : worker'[w].reason = ClassifiedReason(o)

LEMMA ReasonsFollow ==
  ASSUME NoWaitOutcome, "dependency_wait" \notin TurnOutcomes, NEW w \in Workers,
         WorkersFollow(w)
  PROVE  NoWaitOutcome'
  BY RuntimeAssumption
  DEF RuntimeAssumption, NoWaitOutcome, WorkersFollow, ClassifiedReason

LEMMA WorkerReasons ==
  ASSUME TypeOK, NEW w \in Workers,
         ClaimStep(w) \/ Progress(w) \/ RefreshLease(w) \/ Disruption(w)
  PROVE  WorkersFollow(w)
  <1>1. worker \in [Workers -> WorkerState]
    BY DEF TypeOK, RuntimeTypeOK
  <1>2. CASE \E new : /\ worker' = [worker EXCEPT ![w] = new]
                      /\ \/ new.reason \in {worker[w].reason, "none"}
                         \/ \E o \in TurnOutcomes : new.reason = ClassifiedReason(o)
    BY <1>1, <1>2 DEF WorkersFollow
  <1>3. CASE worker' = worker
    BY <1>3 DEF WorkersFollow
  <1>4. Idle.reason = "none"
    BY DEF Idle
  <1>5. ASSUME NEW place PROVE [worker[w] EXCEPT !.place = place].reason = worker[w].reason
    BY <1>1 DEF WorkerState
  <1>6. CASE worker' = Failing(w)
    <2>1. worker' = [worker EXCEPT ![w] =
            [worker[w] EXCEPT !.place = "failing", !.result = "failed", !.reason = "none",
                              !.reconcile = FALSE]]
      BY <1>6 DEF Failing
    <2>2. [worker[w] EXCEPT !.place = "failing", !.result = "failed", !.reason = "none",
                            !.reconcile = FALSE].reason = "none"
      BY <1>1 DEF WorkerState
    <2> QED
      BY <1>2, <2>1, <2>2
  <1>7. CASE worker' = [worker EXCEPT ![w] = Idle]
    BY <1>2, <1>4, <1>7
  <1>8. CASE \E place : worker' = [worker EXCEPT ![w].place = place]
    <2>1. PICK place : worker' = [worker EXCEPT ![w] = [worker[w] EXCEPT !.place = place]]
      BY <1>8
    <2> QED
      BY <1>2, <1>5, <2>1
  <1>9. CASE ClaimTask(w)
    <2>1. PICK c : worker' = [worker EXCEPT ![w] =
            [Idle EXCEPT !.place = "claimed", !.task = c.task, !.token = issued + 1,
                         !.owner = task[c.task].owner,
                         !.executor = c.executor, !.source = c.source,
                         !.requiresReview = task[c.task].requiresReview]]
      BY <1>9 DEF ClaimTask
    <2>2. [Idle EXCEPT !.place = "claimed", !.task = c.task, !.token = issued + 1,
                       !.owner = task[c.task].owner,
                       !.executor = c.executor, !.source = c.source,
                       !.requiresReview = task[c.task].requiresReview].reason = "none"
      BY DEF Idle
    <2> QED
      BY <1>2, <2>1, <2>2
  <1>10. CASE TurnEnds(w)
    <2>1. PICK o \in TurnOutcomes : worker' = [worker EXCEPT ![w] =
            [worker[w] EXCEPT !.place = "outcome", !.result = Classified(worker[w], o),
                              !.reason = ClassifiedReason(o)]]
      BY <1>10 DEF TurnEnds
    <2>2. [worker[w] EXCEPT !.place = "outcome", !.result = Classified(worker[w], o),
                            !.reason = ClassifiedReason(o)].reason = ClassifiedReason(o)
      BY <1>1 DEF WorkerState
    <2> QED
      BY <1>2, <2>1, <2>2
  <1>11. CASE Finalize(w) \/ FinalizeLost(w)
    <2>1. \E new : /\ worker' = [worker EXCEPT ![w] = new]
                   /\ new = Idle \/ \E reconcile : new = Settling(worker[w], reconcile)
      BY <1>11 DEF Finalize, FinalizeLost
    <2>2. ASSUME NEW reconcile PROVE Settling(worker[w], reconcile).reason = worker[w].reason
      BY <1>1 DEF Settling, WorkerState
    <2> QED
      BY <1>2, <1>4, <2>1, <2>2
  <1>12. CASE BuildTarget(w)
    <2>1. \/ worker' = [worker EXCEPT ![w] = [worker[w] EXCEPT !.place = "executing"]]
          \/ worker' = [worker EXCEPT ![w] = Idle]
      BY <1>12 DEF BuildTarget
    <2> QED
      BY <1>2, <1>5, <1>7, <2>1
  <1>13. CASE RefreshLease(w) \/ ClaimNothing(w)
    BY <1>3, <1>13 DEF RefreshLease, ClaimNothing
  <1>17. CASE ClaimMissed(w) \/ ClaimConflict(w) \/ ClaimRejected(w)
    BY <1>7, <1>17 DEF ClaimMissed, ClaimConflict, ClaimRejected
  <1>18. CASE SelectTask(w)
    <2>1. PICK t : worker' = [worker EXCEPT ![w] = Selection(t)]
      BY <1>18 DEF SelectTask
    <2>2. Selection(t).reason = "none"
      BY DEF Selection, Idle
    <2> QED
      BY <1>2, <2>1, <2>2
  <1>14. CASE MarkStarted(w) \/ Cancelled(w)
    BY <1>8, <1>14 DEF MarkStarted, Cancelled
  <1>15. CASE LeaseLost(w) \/ SettleMissing(w) \/ TryRaises(w)
    BY <1>6, <1>7, <1>15 DEF LeaseLost, SettleMissing, TryRaises
  <1>16. CASE Settle(w) \/ Release(w) \/ Dies(w)
    BY <1>7, <1>16 DEF Settle, Release, Dies
  <1> QED
    BY <1>9, <1>10, <1>11, <1>12, <1>13, <1>14, <1>15, <1>16, <1>17, <1>18
    DEF ClaimStep, Progress, Disruption

\* A worker that completes a task will wake its dependents.
LEMMA FinalizeAwake ==
  ASSUME EdgeInv, NoWaitOutcome, NEW w \in Workers, Finalize(w)
  PROVE  \A u \in Tasks : StaysAwake(u)
  <1> DEFINE c == worker[w]
             row == FinalizeRow(task[c.task], c.result, c.reason,
                                Revisit(c.result, c.reason), c.token)
             settling == Settling(c, c.result = "completed")
  <1>1. /\ task \in [Tasks -> Row] /\ worker \in [Workers -> WorkerState]
        /\ c \in WorkerState /\ c.task \in Tasks
    BY DEF EdgeInv, TypeOK, StoreTypeOK, RuntimeTypeOK, WorkerState
  <1>2. row.status = c.result /\ row.reason = c.reason
    BY <1>1, ClearClaimType DEF FinalizeRow, Row
  <1>3. ~Waiting(row)
    BY <1>2 DEF Waiting, NoWaitOutcome
  <1>4. /\ settling.task = c.task /\ settling.place \in {"settling", "settlingInHandler"}
        /\ settling.reconcile = (c.result = "completed")
    BY <1>1 DEF Settling, WorkerState
  <1>5. /\ task' = [task EXCEPT ![c.task] = row] /\ deps' = deps
        /\ worker' = [worker EXCEPT ![w] = settling]
        /\ c.place \in {"outcome", "failing"}
    BY DEF Finalize
  <1> HIDE DEF row, settling
  <1>6. \A u \in Tasks \ {c.task} : task'[u] = task[u]
    BY <1>1, <1>5
  <1>7. /\ task'[c.task] = row
        /\ \A d \in Tasks : row.status = "completed" /\ d = c.task => Wakes(w, d)'
    BY <1>1, <1>2, <1>4, <1>5 DEF Wakes
  <1>8. ASSUME NEW v \in Workers, NEW d, Wakes(v, d)
        PROVE  Wakes(v, d)'
    <2>1. v # w
      BY <1>5, <1>8 DEF Wakes
    <2>2. worker'[v] = worker[v]
      BY <1>1, <1>5, <2>1
    <2> QED
      BY <1>8, <2>2 DEF Wakes
  <1>9. \A e \in deps : e.dep \in Tasks
    BY DEF EdgeInv, TypeOK, StoreTypeOK, Edge
  <1> HIDE DEF c
  <1> SUFFICES ASSUME NEW u \in Tasks
               PROVE  StaysAwake(u)
    OBVIOUS
  <1>10. CASE u = c.task
    BY <1>3, <1>7, <1>10 DEF StaysAwake
  <1>11. CASE u # c.task
    <2>1. task'[u] = task[u] /\ deps' = deps
      BY <1>5, <1>6, <1>11
    <2>2. ASSUME NEW e \in deps, task'[e.dep].status = "completed"
          PROVE  task[e.dep].status = "completed" \/ \E v \in Workers : Wakes(v, e.dep)'
      <3>1. CASE e.dep = c.task
        BY <1>7, <1>9, <2>2, <3>1
      <3>2. CASE e.dep # c.task
        BY <1>6, <1>9, <2>2, <3>2
      <3> QED
        BY <3>1, <3>2
    <2> QED
      BY <1>8, <2>1, <2>2 DEF StaysAwake
  <1> QED
    BY <1>10, <1>11

LEMMA SettleAwake ==
  ASSUME EdgeInv, OnCompletion, NEW w \in Workers, Settle(w)
  PROVE  \A u \in Tasks : StaysAwake(u)
  <1> DEFINE t == worker[w].task
  <1>1. /\ task \in [Tasks -> Row] /\ worker \in [Workers -> WorkerState] /\ t \in Tasks
    BY DEF EdgeInv, TypeOK, StoreTypeOK, RuntimeTypeOK, WorkerState
  <1>2. /\ deps' = deps /\ worker' = [worker EXCEPT ![w] = Idle]
        /\ task' = IF worker[w].reconcile THEN ReconcileDependents(task, deps, t) ELSE task
    BY DEF Settle
  <1>3. \A v \in Workers \ {w} : worker'[v] = worker[v]
    BY <1>1, <1>2
  <1>4. \A v \in Workers, d \in Tasks \ {t} : Wakes(v, d) => Wakes(v, d)'
    BY <1>3 DEF Wakes
  <1>5. CASE worker[w].reconcile
    BY <1>1, <1>2, <1>4, <1>5, ReconcilesDone
  <1>6. CASE ~worker[w].reconcile
    <2>1. \A v \in Workers, d \in Tasks : Wakes(v, d) => Wakes(v, d)'
      BY <1>3, <1>6 DEF Wakes
    <2> QED
      BY <1>2, <1>6, <2>1, NothingDone
  <1> QED
    BY <1>5, <1>6

LEMMA ProgressAwake ==
  ASSUME EdgeInv, OnCompletion, NoWaitOutcome, NEW w \in Workers, Progress(w)
  PROVE  \A u \in Tasks : StaysAwake(u)
  <1>1. /\ task \in [Tasks -> Row] /\ worker \in [Workers -> WorkerState]
        /\ worker[w].task \in Tasks /\ task[worker[w].task] \in Row
    BY DEF EdgeInv, TypeOK, StoreTypeOK, RuntimeTypeOK, WorkerState
  <1>2. CASE Finalize(w) \/ Settle(w)
    BY <1>2, FinalizeAwake, SettleAwake
  <1>3. CASE ~Finalize(w) /\ ~Settle(w)
    <2>1. deps' = deps /\ \A v \in Workers \ {w} : worker'[v] = worker[v]
      BY <1>1, <1>3, ProgressKeeps
      DEF Progress, MarkStarted, BuildTarget, LeaseLost, TurnEnds, FinalizeLost,
          SettleMissing, Release, Failing
    <2>2. ~SettleMissing(w) => worker[w].place \notin {"settling", "settlingInHandler"}
      BY <1>3 DEF Progress, MarkStarted, BuildTarget, LeaseLost, TurnEnds, FinalizeLost,
                  Release, At
    <2>3. SettleMissing(w) => ~Exists(worker[w].task)
      BY DEF SettleMissing
    <2>4. \A v \in Workers, d \in Tasks : Wakes(v, d) /\ Exists(d) => Wakes(v, d)'
      BY <2>1, <2>2, <2>3 DEF Wakes
    <2>5. \A u \in Tasks : /\ task'[u].status = "completed" => task[u].status = "completed"
                           /\ Waiting(task'[u]) => Waiting(task[u])
      <3>1. CASE MarkStarted(w)
        <4>1. \/ task' = [task EXCEPT ![worker[w].task].status = "running"]
              \/ task' = task
          BY <3>1 DEF MarkStarted, StartRow
        <4> QED
          BY <1>1, <4>1 DEF Row, Waiting
      <3>2. CASE FinalizeLost(w)
        <4> DEFINE c == worker[w]
                   row == IF task[c.task].token = c.token
                          THEN [ClearClaim(task[c.task]) EXCEPT !.lastRun = c.token]
                          ELSE task[c.task]
                   revisit == /\ row.status = "blocked" /\ row.ready = "none"
                              /\ row.reason = "external_poll"
                   kept == IF revisit THEN [row EXCEPT !.ready = "later"] ELSE row
        <4>1. c.token \in 0..MaxRuns
          BY DEF EdgeInv, TypeOK, RuntimeTypeOK, WorkerState
        <4>2. /\ row \in Row /\ row.status = task[c.task].status
              /\ row.reason = task[c.task].reason
          BY <1>1, <4>1, ClearClaimType DEF ClearClaim, Row
        <4>3. task' = [task EXCEPT ![c.task] = kept] \/ task' = task
          BY <3>2 DEF FinalizeLost
        <4>4. kept.status = task[c.task].status /\ kept.reason = task[c.task].reason
          <5> HIDE DEF row
          <5> QED
            BY <4>2 DEF Row
        <4> HIDE DEF kept
        <4> QED
          BY <1>1, <4>3, <4>4 DEF Waiting
      <3>3. CASE Release(w)
        <4> DEFINE row == ReleaseRow(task[worker[w].task], SweepTarget(worker[w]),
                                     IF worker[w].source = "review" THEN "none" ELSE "due")
        <4>1. row.status # "completed" /\ ~Waiting(row)
          BY <1>1, ReleasedFields
        <4>2. task' = [task EXCEPT ![worker[w].task] = row] \/ task' = task
          BY <3>3 DEF Release
        <4> HIDE DEF row
        <4> QED
          BY <1>1, <4>1, <4>2
      <3>4. CASE BuildTarget(w) \/ LeaseLost(w) \/ TurnEnds(w) \/ SettleMissing(w)
        BY <3>4 DEF BuildTarget, LeaseLost, TurnEnds, SettleMissing, storeVars
      <3> QED
        BY <1>3, <3>1, <3>2, <3>3, <3>4 DEF Progress
    <2> QED
      BY <2>1, <2>4, <2>5, NothingDone
  <1> QED
    BY <1>2, <1>3

LEMMA RuntimeStepAwake ==
  ASSUME EdgeInv, OnCompletion, NoWaitOutcome, NEW w \in Workers,
         ClaimStep(w) \/ Progress(w) \/ RefreshLease(w)
  PROVE  \A u \in Tasks : StaysAwake(u)
  <1>1. task \in [Tasks -> Row] /\ worker \in [Workers -> WorkerState]
    BY DEF EdgeInv, TypeOK, StoreTypeOK, RuntimeTypeOK
  <1>2. CASE ClaimStep(w)
    <2>1. deps' = deps
      BY <1>2, ClaimStepKeeps
    <2>2. \/ worker' = worker
          \/ /\ worker[w].place \in {"idle", "selected"}
             /\ \A v \in Workers \ {w} : worker'[v] = worker[v]
      BY <1>1, <1>2
      DEF ClaimStep, ClaimNothing, SelectTask, ClaimMissed, ClaimConflict, ClaimRejected,
          ClaimTask, Selections, At
    <2>3. \A v \in Workers, d \in Tasks : Wakes(v, d) => Wakes(v, d)'
      BY <2>2 DEF Wakes, At
    <2> QED
      BY <1>2, <2>1, <2>3, ClaimStepAwake, NothingDone
  <1>3. CASE RefreshLease(w)
    <2>1. /\ \A u \in Tasks : task'[u].status = task[u].status /\ task'[u].reason = task[u].reason
          /\ deps' = deps /\ \A v, d : Wakes(v, d) => Wakes(v, d)'
      BY <1>1, <1>3 DEF RefreshLease, Row, Wakes
    <2> QED
      BY <2>1, NothingDone DEF Waiting
  <1> QED
    BY <1>2, <1>3, ProgressAwake

LEMMA SurroundingsAwake ==
  ASSUME EdgeInv, EmployeeStep \/ ClockStep, worker' = worker
  PROVE  \A u \in Tasks : StaysAwake(u)
  <1>1. \A u \in Tasks : task'[u].status = task[u].status /\ task'[u].reason = task[u].reason
    BY DEF EmployeeStep, EmployeeStatusChanges, ClockStep, LeaseExpires, ReadyTimeComes,
           EdgeInv, TypeOK, StoreTypeOK, Row
  <1>2. deps' = deps /\ \A v, d : Wakes(v, d) => Wakes(v, d)'
    BY SurroundingsKeep DEF Wakes
  <1> QED
    BY <1>1, <1>2, NothingDone DEF Waiting

----------------------------------------------------------------------------
WakeInv == /\ OnCompletion /\ NoWaitOutcome
           /\ crashes = 0 => NoLostWakeup

LEMMA InitWakes == Init => WakeInv
  BY DEF Init, StoreInit, RuntimeInit, Idle, WakeInv, OnCompletion, NoWaitOutcome,
         NoLostWakeup

LEMMA NextWakes ==
  ASSUME SatisfiedOn \subseteq {"completed"},
         "dependency_wait" \notin TurnOutcomes \cup BlockReasons
  PROVE  EdgeInv /\ WakeInv /\ [Next]_vars => WakeInv'
  <1> SUFFICES ASSUME EdgeInv, WakeInv, [Next]_vars
               PROVE  WakeInv'
    OBVIOUS
  <1> USE DEF WakeInv
  <1>1. TypeOK' /\ crashes \in Nat
    BY NextType DEF EdgeInv, TypeOK, RuntimeTypeOK
  <1>2. CASE (\E t \in Tasks : ServiceStep(t)) /\ UNCHANGED runtimeVars
    <2>1. worker' = worker /\ crashes' = crashes
      BY <1>2 DEF runtimeVars
    <2>2. WakeStep
      BY <1>1, <1>2, <2>1, ServiceStepAwake
    <2>3. NoWaitOutcome'
      BY <2>1 DEF NoWaitOutcome
    <2> QED
      BY <2>1, <2>2, <2>3, AwakeKeeps DEF WakeStep
  <1>3. ASSUME NEW w \in Workers,
               ClaimStep(w) \/ Progress(w) \/ RefreshLease(w) \/ Disruption(w)
        PROVE  WakeInv'
    <2>1. OnCompletion'
      BY <1>3, RuntimeStepKeeps DEF OnCompletion
    <2>2. NoWaitOutcome'
      BY <1>3, WorkerReasons, ReasonsFollow DEF EdgeInv
    <2>3. CASE Disruption(w)
      BY <1>1, <2>1, <2>2, <2>3 DEF Disruption, TryRaises, Cancelled, Dies
    <2>4. CASE ~Disruption(w)
      <3>1. crashes' = crashes
        BY <1>3, <2>4
        DEF ClaimStep, ClaimNothing, SelectTask, ClaimMissed, ClaimConflict, ClaimRejected,
            ClaimTask, RefreshLease, Progress, MarkStarted, BuildTarget, LeaseLost, TurnEnds, Finalize, FinalizeLost,
            Settle, SettleMissing, Release
      <3> QED
        BY <1>3, <2>1, <2>2, <2>4, <3>1, RuntimeStepAwake, AwakeKeeps
    <2> QED
      BY <2>3, <2>4
  <1>4. CASE SweepExpiredClaims \/ ((EmployeeStep \/ ClockStep) /\ UNCHANGED runtimeVars)
    <2>1. deps' = deps /\ worker' = worker /\ crashes' = crashes
      BY <1>4, SweepKeeps, SurroundingsKeep DEF SweepExpiredClaims, runtimeVars
    <2>2. OnCompletion' /\ NoWaitOutcome'
      BY <2>1 DEF OnCompletion, NoWaitOutcome
    <2> QED
      BY <1>4, <2>1, <2>2, SweepAwake, SurroundingsAwake, AwakeKeeps
  <1>5. CASE UNCHANGED vars
    BY <1>5 DEF vars, storeVars, runtimeVars, OnCompletion, NoWaitOutcome, NoLostWakeup,
                AllSatisfied
  <1> QED
    BY <1>2, <1>3, <1>4, <1>5 DEF Next

\* As long as no worker was cancelled, killed or failed, no wake-up is lost, for
\* any number of tasks and workers and whatever is created, delegated, deleted,
\* reopened or re-linked meanwhile: who completes a task wakes its dependents in
\* the same transaction or is about to.  The hypotheses are what the property
\* needs of the callers: edges wait for completion (dependents are reconciled
\* then only), and nobody calls a task blocked by dependencies that it lacks.
THEOREM WakeupsKept ==
  ASSUME SatisfiedOn \subseteq {"completed"},
         "dependency_wait" \notin TurnOutcomes \cup BlockReasons
  PROVE  Spec => [](crashes = 0 => NoLostWakeup)
  <1>1. WakeInv => (crashes = 0 => NoLostWakeup)
    BY DEF WakeInv
  <1> QED
    BY <1>1, InitEdges, NextEdges, InitWakes, NextWakes, PTL DEF Spec
=============================================================================
