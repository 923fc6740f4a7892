----------------------- MODULE TaskFlowClaims_proofs -----------------------
(***************************************************************************)
(* Every claim of Task Flow is backed by the store, and what a worker      *)
(* remembers of its claim stays true of it.                                *)
(*                                                                         *)
(* Neither invariant is inductive alone.  A worker that gave up rewrites   *)
(* the run it was given, so one must know that this run is not the run of  *)
(* a claim on another task; and a new claim takes a run number that no row *)
(* and no worker knows yet.                                                *)
(*                                                                         *)
(* From this invariant follow that the claims are those of ClaimSlots, and *)
(* what no step may do: to a live claim, to a task whose claim was lost,   *)
(* to the lane of humans, to a task that asks for review.                  *)
(***************************************************************************)
EXTENDS TaskFlow_proofs

\* Workers that have not claimed the task they look at, if any.
Unclaimed(w) == worker[w].place \in {"idle", "selected"}

\* Run numbers are given out in order, and only workers with a claim hold one.
TokensIssued ==
    /\ \A r \in Runs : r > issued => run[r].status = "none"
    /\ \A w \in Workers :
         worker[w].token \in IF Unclaimed(w) THEN {NoToken} ELSE 1..issued

\* What a task was selected from is something it can be claimed from.
SelectionsFit == \A w \in Workers :
    At(w, "selected") => worker[w].source \in {"todo", "blocked", "review"}

ClaimInv == TypeOK /\ ClaimIsBacked /\ SnapshotsMatch /\ TokensIssued /\ SelectionsFit

\* How a row may differ after a step that makes no claim: it keeps its claim,
\* or it has none.
KeepsClaim(old, new) ==
    /\ new.token = old.token /\ new.claimOwner = old.claimOwner
    /\ new.source = old.source /\ new.lastRun = old.lastRun
    /\ old.token # NoToken /\ old.status \in Active => new.status \in Active
FreeRow(row) == row.token = NoToken /\ row.claimOwner = NoOwner
Inherits(old, new) == KeepsClaim(old, new) \/ FreeRow(new)

\* The step changes the record of no run but those of the tasks ts.
OnlyRunsOf(ts) ==
    \A r \in Runs :
        /\ run'[r].task = run[r].task
        /\ (run[r].task \notin ts \/ run[r].status = "none") => run'[r] = run[r]

\* No run changes its task or appears, and the runs of claims stay live.
RunsKept ==
    /\ \A r \in Runs : /\ run'[r].task = run[r].task
                       /\ run[r].status = "none" => run'[r].status = "none"
    /\ \A t \in Tasks : task'[t].token # NoToken =>
                            run'[task'[t].token].status \in LiveRun

\* A worker forgets its claim, remembers what it did, or selects a task.
KeepsSnapshot(w) ==
    \/ worker'[w] = worker[w] \/ worker'[w] = Idle
    \/ /\ worker'[w].place = "selected" /\ worker'[w].token = NoToken
       /\ worker'[w].source \in {"todo", "blocked", "review"}
    \/ /\ ~Unclaimed(w) /\ worker'[w].place \notin {"idle", "selected"}
       /\ worker'[w].token = worker[w].token /\ worker'[w].task = worker[w].task
       /\ worker'[w].executor = worker[w].executor

\* What every step does but the one that makes a claim.
QuietStep ==
    /\ issued' = issued /\ RunsKept
    /\ \A t \in Tasks : Inherits(task[t], task'[t])
    /\ \A w \in Workers : KeepsSnapshot(w)

----------------------------------------------------------------------------
(* Rows *)

LEMMA InheritsSelf ==
  ASSUME NEW a
  PROVE  Inherits(a, a)
  BY DEF Inherits, KeepsClaim

LEMMA InheritsTransitive ==
  ASSUME NEW a, NEW b, NEW c, Inherits(a, b), Inherits(b, c)
  PROVE  Inherits(a, c)
  BY DEF Inherits, KeepsClaim, FreeRow

LEMMA InheritsFree ==
  ASSUME NEW a, NEW b, FreeRow(a), Inherits(a, b)
  PROVE  FreeRow(b)
  BY DEF Inherits, KeepsClaim, FreeRow

LEMMA ClearClaimFree ==
  ASSUME NEW row \in Row
  PROVE  FreeRow(ClearClaim(row))
  BY DEF ClearClaim, FreeRow, Row

LEMMA UpdateRowInherits ==
  ASSUME NEW row \in Row, NEW status \in Statuses, NEW reason \in Reasons,
         NEW given \in ReadyAt \cup {"unset"}
  PROVE  /\ Inherits(row, UpdateRow(row, status, reason, given))
         /\ status \notin Active => FreeRow(UpdateRow(row, status, reason, given))
  <1> DEFINE ready == ReadyAfter(row, status, given)
  <1> HIDE DEF ready
  <1>1. CASE status \in Active
    <2>1. UpdateRow(row, status, reason, given)
            = [row EXCEPT !.status = status, !.reason = reason, !.ready = ready]
      BY <1>1 DEF UpdateRow, ready
    <2> QED
      BY <1>1, <2>1 DEF Inherits, KeepsClaim, Row
  <1>2. CASE status \notin Active
    <2>1. UpdateRow(row, status, reason, given)
            = [ClearClaim(row) EXCEPT !.status = status, !.reason = reason, !.ready = ready]
      BY <1>2 DEF UpdateRow, ready
    <2> QED
      BY <1>2, <2>1, ClearClaimFree, ClearClaimType DEF Inherits, FreeRow, Row
  <1> QED
    BY <1>1, <1>2

LEMMA PromoteInherits ==
  ASSUME NEW row \in Row
  PROVE  Inherits(row, Promote(row))
  BY UpdateRowInherits DEF Promote, Statuses, Reasons, ReadyAt

LEMMA ReadinessInherits ==
  ASSUME NEW tasks \in [Tasks -> Row], NEW edges, NEW t \in Tasks
  PROVE  Inherits(tasks[t], Readiness(tasks, edges, t))
  BY PromoteInherits, InheritsSelf DEF Readiness

LEMMA ReadinessAfterChangeInherits ==
  ASSUME NEW tasks \in [Tasks -> Row], NEW edges, NEW t \in Tasks
  PROVE  Inherits(tasks[t], ReadinessAfterChange(tasks, edges, t))
  <1>1. Inherits(tasks[t], UpdateRow(tasks[t], "blocked", "dependency_wait", "unset"))
    BY UpdateRowInherits DEF Statuses, Reasons, ReadyAt
  <1> QED
    BY <1>1, PromoteInherits, InheritsSelf DEF ReadinessAfterChange

LEMMA ReconcileDependentsInherits ==
  ASSUME NEW tasks \in [Tasks -> Row], NEW edges, NEW t \in Tasks, NEW u \in Tasks
  PROVE  Inherits(tasks[u], ReconcileDependents(tasks, edges, t)[u])
  BY ReadinessInherits, InheritsSelf DEF ReconcileDependents

LEMMA NewRowFree ==
  ASSUME NEW status, NEW owner, NEW reviewer, NEW review, NEW ready, NEW reason
  PROVE  FreeRow(NewRow(status, owner, reviewer, review, ready, reason))
  BY DEF NewRow, FreeRow

----------------------------------------------------------------------------
(* Operations of the service make no claim *)

LEMMA CreateInherits ==
  ASSUME StoreTypeOK, NEW t \in Tasks, NEW owner \in Owners, NEW reviewer \in Reviewers,
         NEW review \in ReviewFlags, NEW asked, NEW D \in SUBSET Tasks,
         Create(t, owner, reviewer, review, asked, D), NEW u \in Tasks
  PROVE  Inherits(task[u], task'[u])
  <1> DEFINE status == IF asked # "default" THEN asked
                       ELSE IF D = {} THEN "todo" ELSE "blocked"
             ready == IF D = {} /\ status = "todo" THEN "due" ELSE "none"
             reason == IF status = "blocked" THEN "dependency_wait" ELSE "none"
             row == NewRow(status, owner, reviewer, review, ready, reason)
             tasks == [task EXCEPT ![t] = row]
             edges == deps \cup {[task |-> t, dep |-> d, on |-> "completed"] : d \in D}
  <1>1. /\ task' = [tasks EXCEPT ![t] = Readiness(tasks, edges, t)]
        /\ FreeRow(row)
    BY NewRowFree DEF Create
  <1> HIDE DEF row
  <1>2. row \in Row
    <2>1. status \in Statuses
      BY DEF Create, Statuses
    <2>2. ready \in ReadyAt /\ reason \in Reasons
      BY DEF ReadyAt, Reasons
    <2>3. reviewer \in Owners \cup {NoOwner} /\ review \in BOOLEAN
      BY ServiceAssumption DEF ServiceAssumption
    <2> HIDE DEF status, ready, reason
    <2> QED
      BY <2>1, <2>2, <2>3, NewRowType DEF row
  <1>3. tasks \in [Tasks -> Row] /\ tasks[t] = row /\ (u # t => tasks[u] = task[u])
    BY <1>2 DEF StoreTypeOK
  <1> HIDE DEF tasks, edges
  <1>4. FreeRow(Readiness(tasks, edges, t))
    BY <1>1, <1>3, ReadinessInherits, InheritsFree
  <1> QED
    BY <1>1, <1>3, <1>4, InheritsSelf DEF Inherits

LEMMA UpdateTaskInherits ==
  ASSUME StoreTypeOK, NEW t \in Tasks, NEW status \in Statuses \cup {"keep"},
         NEW owner \in Owners, NEW reason \in Reasons,
         NEW given \in ReadyAt \cup {"unset"},
         UpdateTask(t, status, owner, reason, given), NEW u \in Tasks
  PROVE  Inherits(task[u], task'[u])
  <1> DEFINE row == task[t]
             eff == IF owner # row.owner /\ status = "keep" /\ row.status \in Active
                    THEN "todo" ELSE status
             updated == IF eff = "keep" THEN row ELSE UpdateRow(row, eff, reason, given)
             moved == [updated EXCEPT !.owner = owner]
             tasks == [task EXCEPT ![t] = moved]
  <1>1. row \in Row
    BY DEF StoreTypeOK
  <1>2. eff \in Statuses \cup {"keep"}
    BY DEF Statuses
  <1>3. task' = IF eff = "completed" THEN ReconcileDependents(tasks, deps, t)
                ELSE IF eff = "todo"
                THEN [tasks EXCEPT ![t] = ReadinessAfterChange(tasks, deps, t)]
                ELSE tasks
    BY DEF UpdateTask
  <1> HIDE DEF row, eff
  <1>4. updated \in Row /\ Inherits(row, updated)
    BY <1>1, <1>2, UpdateRowType, UpdateRowInherits, InheritsSelf
  <1> HIDE DEF updated
  <1>5. moved \in Row /\ Inherits(row, moved)
    BY <1>4 DEF Row, Inherits, KeepsClaim, FreeRow
  <1> HIDE DEF moved
  <1>6. tasks \in [Tasks -> Row] /\ Inherits(task[u], tasks[u])
    BY <1>5, InheritsSelf DEF StoreTypeOK, row
  <1> HIDE DEF tasks
  <1>7. Inherits(tasks[u], task'[u])
    BY <1>3, <1>6, ReconcileDependentsInherits, ReadinessAfterChangeInherits, InheritsSelf
  <1> QED
    BY <1>6, <1>7, InheritsTransitive

LEMMA ApproveReviewInherits ==
  ASSUME StoreTypeOK, NEW t \in Tasks, ApproveReview(t), NEW u \in Tasks
  PROVE  Inherits(task[u], task'[u])
  <1> DEFINE approved == UpdateRow(task[t], "completed", "none", "unset")
             tasks == [task EXCEPT ![t] = approved]
  <1>1. task' = ReconcileDependents(tasks, deps, t)
    BY DEF ApproveReview
  <1>2. approved \in Row /\ Inherits(task[t], approved)
    BY UpdateRowType, UpdateRowInherits DEF StoreTypeOK, Statuses, Terminal, Reasons
  <1> HIDE DEF approved
  <1>3. tasks \in [Tasks -> Row] /\ Inherits(task[u], tasks[u])
    BY <1>2, InheritsSelf DEF StoreTypeOK
  <1> HIDE DEF tasks
  <1> QED
    BY <1>1, <1>3, ReconcileDependentsInherits, InheritsTransitive

LEMMA RequestChangesInherits ==
  ASSUME StoreTypeOK, NEW t \in Tasks, NEW owner \in Owners, RequestChanges(t, owner),
         NEW u \in Tasks
  PROVE  Inherits(task[u], task'[u])
  <1> DEFINE given == IF owner \in Employees THEN "due" ELSE "none"
             updated == UpdateRow(task[t], "blocked", "review_changes_requested", given)
             moved == [updated EXCEPT !.owner = owner]
  <1>1. updated \in Row /\ Inherits(task[t], updated)
    BY UpdateRowType, UpdateRowInherits DEF StoreTypeOK, Statuses, Reasons, ReadyAt
  <1>2. task' = [task EXCEPT ![t] = moved]
    BY DEF RequestChanges
  <1> HIDE DEF updated
  <1>3. Inherits(task[t], moved)
    BY <1>1 DEF Row, Inherits, KeepsClaim, FreeRow
  <1> HIDE DEF moved
  <1> QED
    BY <1>2, <1>3, InheritsSelf DEF StoreTypeOK

LEMMA DependencyInherits ==
  ASSUME StoreTypeOK, NEW t \in Tasks, NEW edges,
         task' = [task EXCEPT ![t] = ReadinessAfterChange(task, edges, t)], NEW u \in Tasks
  PROVE  Inherits(task[u], task'[u])
  BY ReadinessAfterChangeInherits, InheritsSelf DEF StoreTypeOK

LEMMA DelegateInherits ==
  ASSUME StoreTypeOK, NEW t \in Tasks, NEW n \in Tasks, NEW owner \in Employees,
         NEW review \in ReviewFlags, NEW wait \in BOOLEAN,
         Delegate(t, n, owner, review, wait), NEW u \in Tasks
  PROVE  Inherits(task[u], task'[u])
  <1> DEFINE row == NewRow("todo", owner, NoOwner, review, "due", "none")
             tasks == [task EXCEPT ![n] = row]
             edges == IF wait THEN deps \cup {[task |-> t, dep |-> n, on |-> "completed"]}
                      ELSE deps
  <1>1. row \in Row /\ FreeRow(row)
    BY NewRowType, NewRowFree, ServiceAssumption
    DEF ServiceAssumption, Owners, Statuses, ReadyAt, Reasons
  <1>2. task' = IF wait THEN [tasks EXCEPT ![t] = ReadinessAfterChange(tasks, edges, t)]
                ELSE tasks
    BY DEF Delegate
  <1> HIDE DEF row
  <1>3. tasks \in [Tasks -> Row] /\ Inherits(task[u], tasks[u])
    BY <1>1, InheritsSelf DEF StoreTypeOK, Inherits
  <1> HIDE DEF tasks, edges
  <1>4. Inherits(tasks[u], task'[u])
    BY <1>2, <1>3, ReadinessAfterChangeInherits, InheritsSelf
  <1> QED
    BY <1>3, <1>4, InheritsTransitive

\* Deleted tasks have no claim, and only their runs are deleted.
LEMMA DeleteRowsInherits ==
  ASSUME StoreTypeOK, NEW ts \in SUBSET Tasks, NEW first, DeleteRows(ts, first)
  PROVE  /\ \A u \in Tasks : Inherits(task[u], task'[u])
         /\ \A t \in ts : FreeRow(task'[t]) /\ task[t].status \notin Active
         /\ OnlyRunsOf(ts)
  <1> DEFINE edges == {e \in deps : e.task \notin ts /\ e.dep \notin ts}
             others(u) == {e \in deps : e.task = u /\ e.dep # first[u]}
             once(u) == ReadinessAfterChange(task, others(u), u)
             begun(u) == [task EXCEPT ![u] = once(u)]
  <1>1. DeletedRow \in Row /\ FreeRow(DeletedRow)
    BY NewRowType, NewRowFree DEF DeletedRow, Owners, NoRow, ReadyAt, Reasons
  <1>2. task' = [u \in Tasks |->
                   IF u \in ts THEN DeletedRow
                   ELSE IF u \in Dependents(ts)
                        THEN ReadinessAfterChange(begun(u), edges, u)
                   ELSE task[u]]
    BY DEF DeleteRows
  <1>3. ASSUME NEW u \in Tasks
        PROVE  Inherits(task[u], ReadinessAfterChange(begun(u), edges, u))
    <2>1. once(u) \in Row /\ Inherits(task[u], once(u))
      BY ReadinessAfterChangeType, ReadinessAfterChangeInherits DEF StoreTypeOK
    <2> HIDE DEF once, edges
    <2>2. begun(u) \in [Tasks -> Row] /\ begun(u)[u] = once(u)
      BY <2>1 DEF StoreTypeOK
    <2>3. Inherits(begun(u)[u], ReadinessAfterChange(begun(u), edges, u))
      BY <2>2, ReadinessAfterChangeInherits
    <2> QED
      BY <2>1, <2>2, <2>3, InheritsTransitive
  <1> HIDE DEF begun, edges
  <1>4. \A u \in Tasks : Inherits(task[u], task'[u])
    BY <1>1, <1>2, <1>3, InheritsSelf DEF Inherits
  <1>5. \A t \in ts : FreeRow(task'[t]) /\ task[t].status \notin Active
    BY <1>1, <1>2 DEF DeleteRows
  <1>6. OnlyRunsOf(ts)
    BY DEF DeleteRows, StoreTypeOK, RunRow, OnlyRunsOf
  <1> QED
    BY <1>4, <1>5, <1>6

\* What an operation of the service does to claims and runs.
LEMMA ServiceStepInherits ==
  ASSUME StoreTypeOK, NEW t \in Tasks, ServiceStep(t)
  PROVE  /\ \A u \in Tasks : Inherits(task[u], task'[u])
         /\ issued' = issued
         /\ \E ts \in SUBSET Tasks :
               OnlyRunsOf(ts) /\ \A u \in ts : FreeRow(task'[u]) /\ task[u].status \notin Active
  <1> DEFINE FreeOnly == \E ts \in SUBSET Tasks :
                            /\ OnlyRunsOf(ts)
                            /\ \A u \in ts : FreeRow(task'[u]) /\ task[u].status \notin Active
  <1>1. run' = run => FreeOnly
    <2> SUFFICES ASSUME run' = run
                 PROVE  FreeOnly
      OBVIOUS
    <2>1. OnlyRunsOf({}) /\ \A u \in {} : FreeRow(task'[u]) /\ task[u].status \notin Active
      BY DEF OnlyRunsOf
    <2>2. {} \in SUBSET Tasks
      OBVIOUS
    <2> QED
      BY <2>1, <2>2
  <1> HIDE DEF FreeOnly
  <1> SUFFICES (\A u \in Tasks : Inherits(task[u], task'[u])) /\ issued' = issued /\ FreeOnly
    BY DEF FreeOnly
  <1>2. CASE ServiceCreates(t)
    <2>1. PICK o \in Owners, v \in Reviewers, b \in ReviewFlags, D \in SUBSET (Tasks \ {t}) :
             \E s : Create(t, o, v, b, s, D)
      BY <1>2 DEF ServiceCreates
    <2>2. PICK s : Create(t, o, v, b, s, D)
      BY <2>1
    <2>3. run' = run /\ issued' = issued
      BY <2>2 DEF Create
    <2>4. \A u \in Tasks : Inherits(task[u], task'[u])
      BY <2>2, CreateInherits
    <2> QED
      BY <1>1, <2>3, <2>4
  <1>3. CASE ServiceUpdates(t)
    <2>1. PICK s \in Statuses \cup {"keep"}, o \in Owners, c \in Reasons,
               g \in ReadyAt \cup {"unset"} : UpdateTask(t, s, o, c, g)
      BY <1>3 DEF ServiceUpdates
    <2>2. run' = run /\ issued' = issued
      BY <2>1 DEF UpdateTask
    <2>3. \A u \in Tasks : Inherits(task[u], task'[u])
      BY <2>1, UpdateTaskInherits
    <2> QED
      BY <1>1, <2>2, <2>3
  <1>4. CASE \E v \in Reviewers, b \in ReviewFlags : UpdateReviewPolicy(t, v, b)
    <2>1. PICK v \in Reviewers, b \in ReviewFlags : UpdateReviewPolicy(t, v, b)
      BY <1>4
    <2>2. task' = [task EXCEPT ![t] = [task[t] EXCEPT !.reviewer = v, !.requiresReview = b]]
      BY <2>1 DEF UpdateReviewPolicy, StoreTypeOK
    <2>3. Inherits(task[t], [task[t] EXCEPT !.reviewer = v, !.requiresReview = b])
      BY DEF Inherits, KeepsClaim, StoreTypeOK, Row
    <2> QED
      BY <1>1, <2>1, <2>2, <2>3, InheritsSelf DEF UpdateReviewPolicy, StoreTypeOK
  <1>5. CASE ApproveReview(t)
    BY <1>1, <1>5, ApproveReviewInherits DEF ApproveReview
  <1>6. CASE \E o \in Owners : RequestChanges(t, o)
    BY <1>1, <1>6, RequestChangesInherits DEF RequestChanges
  <1>7. CASE \/ \E d \in Tasks, on \in SatisfiedOn : AddDependency(t, d, on)
             \/ \E d \in Tasks : RemoveDependency(t, d)
    <2>1. run' = run /\ issued' = issued
      BY <1>7 DEF AddDependency, RemoveDependency
    <2>2. PICK edges : task' = [task EXCEPT ![t] = ReadinessAfterChange(task, edges, t)]
      BY <1>7 DEF AddDependency, RemoveDependency
    <2> QED
      BY <1>1, <2>1, <2>2, DependencyInherits
  <1>8. CASE ServiceDelegates(t)
    <2>1. PICK n \in Tasks, o \in Employees, b \in ReviewFlags, wait \in BOOLEAN :
             Delegate(t, n, o, b, wait)
      BY <1>8 DEF ServiceDelegates
    <2>2. run' = run /\ issued' = issued
      BY <2>1 DEF Delegate
    <2>3. \A u \in Tasks : Inherits(task[u], task'[u])
      BY <2>1, DelegateInherits
    <2> QED
      BY <1>1, <2>2, <2>3
  <1>9. CASE ServiceDeletes(t)
    <2>1. PICK ts \in SUBSET Tasks : \E first : DeleteRows(ts, first)
      BY <1>9 DEF ServiceDeletes
    <2>2. PICK first : DeleteRows(ts, first)
      BY <2>1
    <2>3. issued' = issued
      BY <2>2 DEF DeleteRows
    <2> QED
      BY <2>2, <2>3, DeleteRowsInherits DEF FreeOnly
  <1> QED
    BY <1>2, <1>3, <1>4, <1>5, <1>6, <1>7, <1>8, <1>9, ServiceStepCases

----------------------------------------------------------------------------
(* Steps that make no claim *)

LEMMA BackedToken ==
  ASSUME ClaimInv, NEW t \in Tasks, task[t].token # NoToken
  PROVE  /\ task[t].token \in Runs /\ task[t].status \in Active
         /\ task[t].claimOwner \in Employees /\ task[t].lastRun = task[t].token
         /\ run[task[t].token].task = t /\ run[task[t].token].status \in LiveRun
         /\ task[t].token <= issued
  <1>1. task[t].token \in Runs
    BY StoreAssumption DEF StoreAssumption, ClaimInv, TypeOK, StoreTypeOK, Row, Runs, NoToken
  <1>2. /\ task[t].status \in Active
        /\ task[t].claimOwner \in Employees /\ task[t].lastRun = task[t].token
        /\ run[task[t].token].task = t /\ run[task[t].token].status \in LiveRun
    BY DEF ClaimInv, ClaimIsBacked
  <1>3. ~(task[t].token > issued)
    BY <1>1, <1>2 DEF ClaimInv, TokensIssued, LiveRun
  <1> QED
    BY <1>1, <1>2, <1>3, StoreAssumption
    DEF StoreAssumption, ClaimInv, TypeOK, StoreTypeOK, Runs

LEMMA BusyToken ==
  ASSUME ClaimInv, NEW w \in Workers, ~Unclaimed(w)
  PROVE  /\ worker[w].token # NoToken /\ worker[w].token \in Runs
         /\ worker[w].task \in Tasks /\ run[worker[w].token].task = worker[w].task
  <1>1. worker[w].token \in 1..issued
    BY DEF ClaimInv, TokensIssued
  <1>2. worker[w].token \in Runs /\ worker[w].token # NoToken
    BY <1>1, StoreAssumption
    DEF StoreAssumption, ClaimInv, TypeOK, StoreTypeOK, Runs, NoToken
  <1> QED
    BY <1>2 DEF ClaimInv, SnapshotsMatch, TypeOK, RuntimeTypeOK, WorkerState

LEMMA QuietStepClaims ==
  ASSUME ClaimInv, TypeOK', QuietStep
  PROVE  ClaimInv'
  <1> USE DEF QuietStep
  <1>1. ClaimIsBacked'
    <2> SUFFICES ASSUME NEW t \in Tasks
                 PROVE  IF task'[t].token = NoToken THEN task'[t].claimOwner = NoOwner
                        ELSE /\ task'[t].status \in Active
                             /\ task'[t].claimOwner \in Employees
                             /\ task'[t].source \in {"todo", "blocked", "review"}
                             /\ task'[t].lastRun = task'[t].token
                             /\ run'[task'[t].token].task = t
                             /\ run'[task'[t].token].status \in LiveRun
      BY DEF ClaimIsBacked
    <2>1. CASE FreeRow(task'[t])
      BY <2>1 DEF FreeRow
    <2>2. CASE KeepsClaim(task[t], task'[t]) /\ task[t].token = NoToken
      BY <2>2 DEF KeepsClaim, ClaimInv, ClaimIsBacked
    <2>3. CASE KeepsClaim(task[t], task'[t]) /\ task[t].token # NoToken
      <3>1. task[t].token \in Runs /\ run[task[t].token].task = t /\ task[t].status \in Active
        BY <2>3, BackedToken
      <3>2. run'[task'[t].token].task = t /\ run'[task'[t].token].status \in LiveRun
        BY <2>3, <3>1 DEF KeepsClaim, RunsKept
      <3> QED
        BY <2>3, <3>1, <3>2 DEF KeepsClaim, ClaimInv, ClaimIsBacked
    <2> QED
      BY <2>1, <2>2, <2>3 DEF Inherits
  <1>2. \A w \in Workers :
          /\ worker'[w].token # NoToken =>
               /\ ~Unclaimed(w) /\ worker'[w].place \notin {"idle", "selected"}
               /\ worker'[w].token = worker[w].token
               /\ worker'[w].task = worker[w].task
               /\ worker'[w].executor = worker[w].executor
          /\ worker'[w].place \in {"idle", "selected"} => worker'[w].token = NoToken
          /\ worker'[w].place \notin {"idle", "selected"} => worker'[w].token # NoToken
    BY BusyToken DEF KeepsSnapshot, ClaimInv, TokensIssued, Idle, Unclaimed
  <1>3. SnapshotsMatch'
    <2> SUFFICES ASSUME NEW w \in Workers, worker'[w].token # NoToken
                 PROVE  /\ run'[worker'[w].token].task = worker'[w].task
                        /\ \A v \in Workers \ {w} : worker'[v].token # worker'[w].token
                        /\ task'[worker'[w].task].token = worker'[w].token =>
                             task'[worker'[w].task].claimOwner = worker'[w].executor
      BY DEF SnapshotsMatch
    <2>1. /\ worker[w].token # NoToken /\ worker[w].token \in Runs
          /\ worker[w].task \in Tasks /\ run[worker[w].token].task = worker[w].task
      BY <1>2, BusyToken
    <2>2. run'[worker'[w].token].task = worker'[w].task
      BY <1>2, <2>1 DEF RunsKept
    <2>3. \A v \in Workers \ {w} : worker'[v].token # worker'[w].token
      BY <1>2, <2>1 DEF ClaimInv, SnapshotsMatch
    <2>4. ASSUME task'[worker'[w].task].token = worker'[w].token
          PROVE  task'[worker'[w].task].claimOwner = worker'[w].executor
      <3>1. Inherits(task[worker[w].task], task'[worker[w].task])
        BY <2>1
      <3>2. task'[worker[w].task].token = worker[w].token
        BY <1>2, <2>4
      <3>3. KeepsClaim(task[worker[w].task], task'[worker[w].task])
        BY <2>1, <3>1, <3>2 DEF Inherits, FreeRow
      <3>4. task[worker[w].task].claimOwner = worker[w].executor
        BY <2>1, <3>2, <3>3 DEF KeepsClaim, ClaimInv, SnapshotsMatch
      <3> QED
        BY <1>2, <3>3, <3>4 DEF KeepsClaim
    <2> QED
      BY <2>2, <2>3, <2>4
  <1>4. TokensIssued'
    <2>1. \A r \in Runs : r > issued' => run'[r].status = "none"
      BY DEF RunsKept, ClaimInv, TokensIssued
    <2>2. ASSUME NEW w \in Workers
          PROVE  worker'[w].token \in IF worker'[w].place \in {"idle", "selected"}
                                     THEN {NoToken} ELSE 1..issued'
      BY <1>2 DEF ClaimInv, TokensIssued
    <2> QED
      BY <2>1, <2>2 DEF TokensIssued, Unclaimed
  <1>5. SelectionsFit'
    BY DEF SelectionsFit, KeepsSnapshot, Idle, At, ClaimInv
  <1> QED
    BY <1>1, <1>3, <1>4, <1>5 DEF ClaimInv

\* A worker's record of the end of its run touches no claim but its own.
LEMMA RunRecorded ==
  ASSUME ClaimInv, TypeOK', NEW w \in Workers, ~Unclaimed(w), NEW status,
         run' = SetRun(run, worker[w].token, status),
         \A t \in Tasks : Inherits(task[t], task'[t]),
         task'[worker[w].task].token # worker[w].token
  PROVE  RunsKept
  <1> DEFINE c == worker[w]
  <1>1. c.token \in Runs /\ c.task \in Tasks /\ run[c.token].task = c.task
    BY BusyToken
  <1>2. \A r \in Runs : /\ run'[r].task = run[r].task
                        /\ r # c.token => run'[r] = run[r]
                        /\ run[r].status = "none" => run'[r] = run[r]
    BY <1>1 DEF SetRun, ClaimInv, TypeOK, StoreTypeOK, RunRow
  <1>3. ASSUME NEW t \in Tasks, task'[t].token # NoToken
        PROVE  run'[task'[t].token].status \in LiveRun
    <2>1. KeepsClaim(task[t], task'[t])
      BY <1>3 DEF Inherits, FreeRow
    <2>2. /\ task'[t].token = task[t].token /\ task[t].token \in Runs
          /\ run[task[t].token].task = t /\ run[task[t].token].status \in LiveRun
      BY <1>3, <2>1, BackedToken DEF KeepsClaim
    <2>3. task[t].token # c.token
      BY <1>1, <2>2
    <2> QED
      BY <1>2, <2>2, <2>3
  <1> QED
    BY <1>2, <1>3 DEF RunsKept

LEMMA RunsUntouched ==
  ASSUME ClaimInv, run' = run, \A t \in Tasks : Inherits(task[t], task'[t])
  PROVE  RunsKept
  <1>1. ASSUME NEW t \in Tasks, task'[t].token # NoToken
        PROVE  run'[task'[t].token].status \in LiveRun
    <2>1. KeepsClaim(task[t], task'[t])
      BY <1>1 DEF Inherits, FreeRow
    <2> QED
      BY <1>1, <2>1, BackedToken DEF KeepsClaim
  <1> QED
    BY <1>1 DEF RunsKept

LEMMA ServiceStepQuiet ==
  ASSUME ClaimInv, TypeOK', NEW t \in Tasks, ServiceStep(t), UNCHANGED runtimeVars
  PROVE  QuietStep
  <1>1. /\ \A u \in Tasks : Inherits(task[u], task'[u])
        /\ issued' = issued
        /\ \E ts \in SUBSET Tasks : OnlyRunsOf(ts) /\ \A u \in ts : FreeRow(task'[u])
    BY ServiceStepInherits DEF ClaimInv, TypeOK
  <1>2. PICK ts \in SUBSET Tasks : OnlyRunsOf(ts) /\ \A u \in ts : FreeRow(task'[u])
    BY <1>1
  <1>3. ASSUME NEW u \in Tasks, task'[u].token # NoToken
        PROVE  run'[task'[u].token].status \in LiveRun
    <2>1. KeepsClaim(task[u], task'[u]) /\ u \notin ts
      BY <1>1, <1>2, <1>3 DEF Inherits, FreeRow
    <2>2. /\ task[u].token \in Runs /\ run[task[u].token].task = u
          /\ run[task[u].token].status \in LiveRun /\ task'[u].token = task[u].token
      BY <1>3, <2>1, BackedToken DEF KeepsClaim
    <2> QED
      BY <1>2, <2>1, <2>2 DEF OnlyRunsOf
  <1>4. RunsKept
    BY <1>2, <1>3 DEF OnlyRunsOf, RunsKept
  <1>5. \A w \in Workers : KeepsSnapshot(w)
    BY DEF runtimeVars, KeepsSnapshot
  <1> QED
    BY <1>1, <1>4, <1>5 DEF QuietStep

----------------------------------------------------------------------------
(* Steps of the runtime *)

LEMMA ReleaseRowFree ==
  ASSUME NEW row \in Row, NEW status, NEW ready
  PROVE  FreeRow(ReleaseRow(row, status, ready))
  BY ClearClaimFree, ClearClaimType DEF ReleaseRow, FreeRow, Row

LEMMA FinalizeRowFree ==
  ASSUME NEW row \in Row, NEW status, NEW reason, NEW ready, NEW r
  PROVE  FreeRow(FinalizeRow(row, status, reason, ready, r))
  BY ClearClaimFree, ClearClaimType DEF FinalizeRow, FreeRow, Row

LEMMA SweepQuiet ==
  ASSUME ClaimInv, TypeOK', SweepExpiredClaims
  PROVE  QuietStep
  <1>1. /\ task' = [t \in Tasks |-> IF t \in Expired THEN Swept(task[t]) ELSE task[t]]
        /\ run' = [r \in Runs |-> IF \E t \in Expired : task[t].lastRun = r
                                  THEN SetRun(run, r, "cancelled")[r] ELSE run[r]]
        /\ UNCHANGED <<issued, worker>>
    BY DEF SweepExpiredClaims
  <1>2. \A t \in Expired : t \in Tasks /\ task[t].token # NoToken
    BY DEF Expired
  <1>3. \A t \in Expired : FreeRow(task'[t])
    BY <1>1, <1>2, ReleaseRowFree DEF Swept, ClaimInv, TypeOK, StoreTypeOK
  <1>4. \A t \in Tasks : Inherits(task[t], task'[t])
    BY <1>1, <1>3, InheritsSelf DEF Inherits
  <1>5. \A r \in Runs : run'[r].task = run[r].task
                        /\ (run[r].status = "none" => run'[r] = run[r])
    BY <1>1 DEF SetRun, ClaimInv, TypeOK, StoreTypeOK, RunRow
  <1>6. ASSUME NEW t \in Tasks, task'[t].token # NoToken
        PROVE  run'[task'[t].token].status \in LiveRun
    <2>1. t \notin Expired /\ task'[t] = task[t]
      BY <1>1, <1>3, <1>6 DEF FreeRow
    <2>2. /\ task[t].token \in Runs /\ run[task[t].token].task = t
          /\ run[task[t].token].status \in LiveRun
      BY <1>6, <2>1, BackedToken
    <2>3. ASSUME NEW u \in Expired
          PROVE  task[u].lastRun # task[t].token
      BY <1>2, <2>1, <2>2, BackedToken
    <2> QED
      BY <1>1, <2>1, <2>2, <2>3
  <1>7. RunsKept
    BY <1>5, <1>6 DEF RunsKept
  <1> QED
    BY <1>1, <1>4, <1>7 DEF KeepsSnapshot, QuietStep

\* The guard and a rejected claim leave every task without a claim as it is.
LEMMA GuardedInherits ==
  ASSUME ClaimInv, NEW t \in Tasks
  PROVE  Inherits(task[t], Guarded[t])
  BY UpdateRowInherits, InheritsSelf
  DEF Guarded, AiPlanTasks, ClaimInv, TypeOK, StoreTypeOK, Statuses, Reasons, ReadyAt

\* Steps of a worker that change neither tasks nor runs.
LEMMA WorkerMoves ==
  ASSUME ClaimInv, TypeOK', UNCHANGED storeVars, NEW w \in Workers, KeepsSnapshot(w),
         \A v \in Workers \ {w} : worker'[v] = worker[v]
  PROVE  QuietStep
  <1>1. \A v \in Workers : KeepsSnapshot(v)
    BY DEF KeepsSnapshot
  <1>2. task' = task /\ run' = run /\ issued' = issued
    BY DEF storeVars
  <1> QED
    BY <1>1, <1>2, InheritsSelf, RunsUntouched DEF QuietStep

LEMMA IdleKeeps ==
  ASSUME ClaimInv, NEW w \in Workers, worker' = [worker EXCEPT ![w] = Idle]
  PROVE  KeepsSnapshot(w) /\ \A v \in Workers \ {w} : worker'[v] = worker[v]
  BY DEF KeepsSnapshot, ClaimInv, TypeOK, RuntimeTypeOK

LEMMA BeforeInherits ==
  ASSUME ClaimInv, NEW w, NEW t \in Tasks
  PROVE  Inherits(task[t], Before(w)[t])
  BY GuardedInherits, InheritsSelf DEF Before

LEMMA ClaimRejectedQuiet ==
  ASSUME ClaimInv, TypeOK', NEW w \in Workers, ClaimRejected(w)
  PROVE  QuietStep
  <1>1. PICK c \in Selections(w) :
          /\ Claimable(c)
          /\ task' = [Before(w) EXCEPT ![c.task] = [UpdateRow(@, "blocked", "other", "none")
                                                      EXCEPT !.lastRun = NoToken]]
    BY DEF ClaimRejected
  <1>2. c.task \in Tasks /\ Before(w) \in [Tasks -> Row]
    BY <1>1, SelectionFacts, BeforeType DEF ClaimInv, TypeOK
  <1> DEFINE t == c.task
             updated == UpdateRow(Before(w)[t], "blocked", "other", "none")
  <1>3. updated \in Row /\ FreeRow(updated)
    BY <1>2, UpdateRowType, UpdateRowInherits DEF Statuses, Reasons, ReadyAt, Active
  <1>4. task' = [Before(w) EXCEPT ![t] = [updated EXCEPT !.lastRun = NoToken]]
    BY <1>1, <1>2
  <1> HIDE DEF updated
  <1>5. FreeRow(task'[t])
    BY <1>2, <1>3, <1>4 DEF FreeRow, Row
  <1>6. \A u \in Tasks : Inherits(task[u], task'[u])
    BY <1>2, <1>4, <1>5, BeforeInherits DEF Inherits
  <1>7. run' = run /\ issued' = issued /\ worker' = [worker EXCEPT ![w] = Idle]
    BY DEF ClaimRejected
  <1>8. \A v \in Workers : KeepsSnapshot(v)
    BY <1>7, IdleKeeps DEF KeepsSnapshot
  <1> QED
    BY <1>6, <1>7, <1>8, RunsUntouched DEF QuietStep

LEMMA SelectionSource ==
  ASSUME ClaimInv, NEW w \in Workers, NEW c \in Selections(w), Claimable(c)
  PROVE  c.source \in {"todo", "blocked", "review"}
  <1>1. CASE At(w, "selected") /\ c = worker[w]
    BY <1>1 DEF ClaimInv, SelectionsFit
  <1>2. CASE \E t \in Shortlist(Guarded) : c = Selection(t)
    <2>1. PICK t \in Shortlist(Guarded) : c = Selection(t)
      BY <1>2
    <2>2. /\ t \in Tasks /\ task[t] \in Row /\ task[t].status \in {"todo", "blocked", "review"}
          /\ ClaimOwner(task[t]) \in Owners
      BY GuardedShortlist DEF ClaimInv, TypeOK, StoreTypeOK, Owners
    <2> QED
      BY <2>1, <2>2, SelectionType DEF Statuses
  <1> QED
    BY <1>1, <1>2, SelectionFacts DEF ClaimInv

LEMMA ClaimTaskClaims ==
  ASSUME ClaimInv, TypeOK', NEW w \in Workers, ClaimTask(w)
  PROVE  ClaimInv'
  <1> DEFINE r == issued + 1
  <1>1. PICK c \in Selections(w) :
          /\ Claimable(c) /\ task' = Attempt(w, c)
          /\ run' = [run EXCEPT ![r] = [task |-> c.task, status |-> "claimed"]]
          /\ worker' = [worker EXCEPT ![w] =
               [Idle EXCEPT !.place = "claimed", !.task = c.task, !.token = r,
                            !.owner = task[c.task].owner,
                            !.executor = c.executor, !.source = c.source,
                            !.requiresReview = task[c.task].requiresReview]]
          /\ issued' = r
    BY DEF ClaimTask
  <1> DEFINE t == c.task
  <1>2. /\ t \in Tasks /\ task[t].status \in {"todo", "blocked", "review"}
        /\ c.executor \in Employees
    BY <1>1, SelectionFacts DEF ClaimInv
  <1>13. c.source \in {"todo", "blocked", "review"}
    BY <1>1, SelectionSource
  <1>3. r \in Runs /\ r # NoToken /\ issued \in 0..MaxRuns /\ issued \in Nat
    BY StoreAssumption
    DEF StoreAssumption, ClaimTask, ClaimInv, TypeOK, StoreTypeOK, Runs, NoToken
  <1>4. task'[t] = ClaimRow(task[t], r, c.executor, c.source)
        /\ \A u \in Tasks \ {t} : task'[u] = Before(w)[u]
    BY <1>1, <1>2, BeforeType, AttemptType DEF ClaimTask, ClaimInv, TypeOK
  <1>5. \A u \in Tasks \ {t} : Inherits(task[u], task'[u])
    BY <1>4, BeforeInherits
  <1>6. /\ run'[r] = [task |-> t, status |-> "claimed"]
        /\ \A q \in Runs \ {r} : run'[q] = run[q]
    BY <1>1, <1>3 DEF ClaimInv, TypeOK, StoreTypeOK
  <1>7. ASSUME NEW u \in Tasks, task[u].token # NoToken
        PROVE  task[u].token \in Runs \ {r}
    BY <1>3, <1>7, BackedToken DEF Runs
  <1>8. ASSUME NEW v \in Workers, worker[v].token # NoToken
        PROVE  worker[v].token \in Runs \ {r} /\ worker[v].task \in Tasks
               /\ ~Unclaimed(v)
    <2>1. ~Unclaimed(v) /\ worker[v].token \in 1..issued
      BY <1>8 DEF ClaimInv, TokensIssued
    <2> QED
      BY <1>3, <2>1, BusyToken
  <1>9. /\ worker'[w].place = "claimed" /\ worker'[w].task = t /\ worker'[w].token = r
        /\ worker'[w].executor = c.executor
        /\ \A v \in Workers \ {w} : worker'[v] = worker[v]
    BY <1>1 DEF Idle, ClaimInv, TypeOK, RuntimeTypeOK
  <1> HIDE DEF r
  <1>10. ClaimIsBacked'
    <2> SUFFICES ASSUME NEW u \in Tasks
                 PROVE  IF task'[u].token = NoToken THEN task'[u].claimOwner = NoOwner
                        ELSE /\ task'[u].status \in Active
                             /\ task'[u].claimOwner \in Employees
                             /\ task'[u].source \in {"todo", "blocked", "review"}
                             /\ task'[u].lastRun = task'[u].token
                             /\ run'[task'[u].token].task = u
                             /\ run'[task'[u].token].status \in LiveRun
      BY DEF ClaimIsBacked
    <2>1. CASE u = t
      <3>1. task[t] \in Row
        BY <1>2 DEF ClaimInv, TypeOK, StoreTypeOK
      <3>2. /\ task'[t].status = "claimed" /\ task'[t].token = r
            /\ task'[t].claimOwner = c.executor
            /\ task'[t].source = c.source /\ task'[t].lastRun = r
        BY <1>4, <3>1 DEF ClaimRow, Row
      <3> QED
        BY <1>2, <1>3, <1>6, <1>13, <2>1, <3>2 DEF Active, LiveRun
    <2>2. CASE u # t /\ FreeRow(task'[u])
      BY <2>2 DEF FreeRow
    <2>3. CASE u # t /\ KeepsClaim(task[u], task'[u]) /\ task[u].token = NoToken
      BY <2>3 DEF KeepsClaim, ClaimInv, ClaimIsBacked
    <2>4. CASE u # t /\ KeepsClaim(task[u], task'[u]) /\ task[u].token # NoToken
      <3>1. /\ task[u].token \in Runs \ {r} /\ task[u].status \in Active
            /\ run[task[u].token].task = u /\ run[task[u].token].status \in LiveRun
        BY <1>7, <2>4, BackedToken
      <3>2. run'[task'[u].token] = run[task[u].token]
        BY <1>6, <2>4, <3>1 DEF KeepsClaim
      <3> QED
        BY <2>4, <3>1, <3>2 DEF KeepsClaim, ClaimInv, ClaimIsBacked
    <2> QED
      BY <1>5, <2>1, <2>2, <2>3, <2>4 DEF Inherits
  <1>11. SnapshotsMatch'
    <2> SUFFICES ASSUME NEW v \in Workers, worker'[v].token # NoToken
                 PROVE  /\ run'[worker'[v].token].task = worker'[v].task
                        /\ \A x \in Workers \ {v} : worker'[x].token # worker'[v].token
                        /\ task'[worker'[v].task].token = worker'[v].token =>
                             task'[worker'[v].task].claimOwner = worker'[v].executor
      BY DEF SnapshotsMatch
    <2>1. CASE v = w
      <3>1. \A x \in Workers \ {w} : worker'[x].token # r
        BY <1>3, <1>8, <1>9
      <3>2. task'[t].claimOwner = c.executor
        BY <1>2, <1>4 DEF ClaimRow, ClaimInv, TypeOK, StoreTypeOK, Row
      <3> QED
        BY <1>6, <1>9, <2>1, <3>1, <3>2
    <2>2. CASE v # w
      <3>1. /\ worker'[v] = worker[v] /\ worker[v].token # NoToken
            /\ worker[v].token \in Runs \ {r} /\ worker[v].task \in Tasks
        BY <1>8, <1>9, <2>2
      <3>2. run'[worker'[v].token].task = worker'[v].task
        BY <1>6, <3>1 DEF ClaimInv, SnapshotsMatch
      <3>3. \A x \in Workers \ {v} : worker'[x].token # worker'[v].token
        BY <1>9, <3>1 DEF ClaimInv, SnapshotsMatch
      <3>4. ASSUME task'[worker[v].task].token = worker[v].token
            PROVE  task'[worker[v].task].claimOwner = worker[v].executor
        <4>1. worker[v].task # t
          <5>1. task'[t].token = r
            BY <1>2, <1>4 DEF ClaimRow, ClaimInv, TypeOK, StoreTypeOK, Row
          <5> QED
            BY <3>1, <3>4, <5>1
        <4>2. KeepsClaim(task[worker[v].task], task'[worker[v].task])
          BY <1>5, <3>1, <3>4, <4>1 DEF Inherits, FreeRow
        <4> QED
          BY <3>1, <3>4, <4>2 DEF KeepsClaim, ClaimInv, SnapshotsMatch
      <3> QED
        BY <3>1, <3>2, <3>3, <3>4
    <2> QED
      BY <2>1, <2>2
  <1>12. TokensIssued'
    <2>1. \A q \in Runs : q > issued' => run'[q].status = "none"
      <3>1. ASSUME NEW q \in Runs, q > issued'
            PROVE  q # r /\ q > issued
        BY <1>1, <1>3, <3>1 DEF Runs, r
      <3> QED
        BY <1>6, <3>1 DEF ClaimInv, TokensIssued
    <2>2. ASSUME NEW v \in Workers
          PROVE  worker'[v].token \in IF worker'[v].place \in {"idle", "selected"}
                                     THEN {NoToken} ELSE 1..issued'
      <3>1. CASE v = w
        BY <1>1, <1>3, <1>9, <3>1 DEF r
      <3>2. CASE v # w
        <4>1. worker[v].token \in IF worker[v].place \in {"idle", "selected"}
                                  THEN {NoToken} ELSE 1..issued
          BY DEF ClaimInv, TokensIssued, Unclaimed
        <4> QED
          BY <1>1, <1>3, <1>9, <3>2, <4>1 DEF r
      <3> QED
        BY <3>1, <3>2
    <2> QED
      BY <2>1, <2>2 DEF TokensIssued, Unclaimed
  <1>14. SelectionsFit'
    BY <1>9 DEF SelectionsFit, At, ClaimInv
  <1> QED
    BY <1>10, <1>11, <1>12, <1>14 DEF ClaimInv

LEMMA ClaimStepQuiet ==
  ASSUME ClaimInv, TypeOK', NEW w \in Workers, ClaimStep(w), ~ClaimTask(w)
  PROVE  QuietStep
  <1>1. CASE ClaimNothing(w)
    <2>1. \A t \in Tasks : Inherits(task[t], task'[t])
      BY <1>1, GuardedInherits DEF ClaimNothing
    <2> QED
      BY <1>1, <2>1, RunsUntouched DEF ClaimNothing, KeepsSnapshot, QuietStep
  <1>2. CASE ClaimConflict(w) \/ ClaimMissed(w)
    BY <1>2, IdleKeeps, WorkerMoves DEF ClaimConflict, ClaimMissed
  <1>3. CASE ClaimRejected(w)
    BY <1>3, ClaimRejectedQuiet
  <1>4. CASE SelectTask(w)
    <2>1. PICK t \in Shortlist(task) : worker' = [worker EXCEPT ![w] = Selection(t)]
      BY <1>4 DEF SelectTask
    <2>2. /\ t \in Tasks /\ task[t] \in Row /\ task[t].status \in {"todo", "blocked", "review"}
          /\ ClaimOwner(task[t]) \in Owners
      BY DEF Shortlist, Candidates, Runnable, Owners, ClaimInv, TypeOK, StoreTypeOK
    <2>3. KeepsSnapshot(w) /\ \A v \in Workers \ {w} : worker'[v] = worker[v]
      BY <2>1, <2>2, SelectionType DEF KeepsSnapshot, Statuses, ClaimInv, TypeOK, RuntimeTypeOK
    <2> QED
      BY <1>4, <2>3, WorkerMoves DEF SelectTask
  <1> QED
    BY <1>1, <1>2, <1>3, <1>4 DEF ClaimStep

LEMMA FailingKeeps ==
  ASSUME ClaimInv, NEW w \in Workers, ~Unclaimed(w), worker' = Failing(w)
  PROVE  KeepsSnapshot(w) /\ \A v \in Workers \ {w} : worker'[v] = worker[v]
  BY DEF KeepsSnapshot, Failing, ClaimInv, TypeOK, RuntimeTypeOK, WorkerState

LEMMA PlaceKeeps ==
  ASSUME ClaimInv, NEW w \in Workers, ~Unclaimed(w), NEW p \in Places \ {"idle", "selected"},
         worker' = [worker EXCEPT ![w] = [worker[w] EXCEPT !.place = p]]
  PROVE  KeepsSnapshot(w) /\ \A v \in Workers \ {w} : worker'[v] = worker[v]
  BY DEF KeepsSnapshot, ClaimInv, TypeOK, RuntimeTypeOK, WorkerState

LEMMA TurnEndsKeeps ==
  ASSUME ClaimInv, NEW w \in Workers, TurnEnds(w)
  PROVE  KeepsSnapshot(w) /\ \A v \in Workers \ {w} : worker'[v] = worker[v]
  <1>1. PICK o \in TurnOutcomes :
          worker' = [worker EXCEPT ![w] =
            [worker[w] EXCEPT !.place = "outcome", !.result = Classified(worker[w], o),
                              !.reason = ClassifiedReason(o)]]
    BY DEF TurnEnds, ClaimInv, TypeOK, RuntimeTypeOK
  <1> QED
    BY <1>1 DEF TurnEnds, At, KeepsSnapshot, ClaimInv, TypeOK, RuntimeTypeOK, WorkerState, Unclaimed

LEMMA MarkStartedQuiet ==
  ASSUME ClaimInv, TypeOK', NEW w \in Workers, MarkStarted(w)
  PROVE  QuietStep
  <1> DEFINE c == worker[w]
  <1>1. ~Unclaimed(w) /\ c.task \in Tasks /\ c.token \in Runs
        /\ run[c.token].task = c.task
    BY BusyToken DEF MarkStarted, At, Unclaimed
  <1>2. \A v \in Workers : KeepsSnapshot(v)
    BY <1>1 DEF MarkStarted, KeepsSnapshot, ClaimInv, TypeOK, RuntimeTypeOK, WorkerState
  <1>3. CASE task[c.task].token = c.token /\ task[c.task].status = "claimed"
    <2>1. task' = [task EXCEPT ![c.task].status = "running"]
          /\ run' = SetRun(run, c.token, "running") /\ issued' = issued
      BY <1>3 DEF MarkStarted, StartRow
    <2>2. Inherits(task[c.task], [task[c.task] EXCEPT !.status = "running"])
      BY <1>1 DEF Inherits, KeepsClaim, Active, ClaimInv, TypeOK, StoreTypeOK, Row
    <2>3. \A t \in Tasks : Inherits(task[t], task'[t])
      BY <1>1, <2>1, <2>2, InheritsSelf DEF ClaimInv, TypeOK, StoreTypeOK
    <2>4. \A r \in Runs : /\ run'[r].task = run[r].task
                          /\ run[r].status = "none" => run'[r].status = "none"
                          /\ run[r].status \in LiveRun => run'[r].status \in LiveRun
      BY <2>1 DEF SetRun, LiveRun, ClaimInv, TypeOK, StoreTypeOK, RunRow
    <2>5. ASSUME NEW t \in Tasks, task'[t].token # NoToken
          PROVE  run'[task'[t].token].status \in LiveRun
      <3>1. KeepsClaim(task[t], task'[t])
        BY <2>3, <2>5 DEF Inherits, FreeRow
      <3> QED
        BY <2>4, <2>5, <3>1, BackedToken DEF KeepsClaim
    <2>6. RunsKept
      BY <2>4, <2>5 DEF RunsKept
    <2> QED
      BY <1>2, <2>1, <2>3, <2>6 DEF QuietStep
  <1>4. CASE ~(task[c.task].token = c.token /\ task[c.task].status = "claimed")
    <2>1. UNCHANGED <<task, run, issued>>
      BY <1>4 DEF MarkStarted, StartRow
    <2> QED
      BY <1>2, <2>1, InheritsSelf, RunsUntouched DEF QuietStep
  <1> QED
    BY <1>3, <1>4

\* Persisting an outcome or giving up ends the worker's own claim at most.
LEMMA EndsOwnClaim ==
  ASSUME ClaimInv, TypeOK', NEW w \in Workers, ~Unclaimed(w), NEW row, NEW status,
         issued' = issued, run' = SetRun(run, worker[w].token, status),
         task' = [task EXCEPT ![worker[w].task] = row],
         Inherits(task[worker[w].task], row), row.token # worker[w].token,
         KeepsSnapshot(w), \A v \in Workers \ {w} : worker'[v] = worker[v]
  PROVE  QuietStep
  <1>1. worker[w].task \in Tasks
    BY BusyToken
  <1>2. \A t \in Tasks : Inherits(task[t], task'[t])
    BY <1>1, InheritsSelf DEF ClaimInv, TypeOK, StoreTypeOK
  <1>3. task'[worker[w].task].token # worker[w].token
    BY <1>1 DEF ClaimInv, TypeOK, StoreTypeOK
  <1>4. RunsKept
    BY <1>2, <1>3, RunRecorded
  <1>5. \A v \in Workers : KeepsSnapshot(v)
    BY DEF KeepsSnapshot
  <1> QED
    BY <1>2, <1>4, <1>5 DEF QuietStep

LEMMA FinalizeQuiet ==
  ASSUME ClaimInv, TypeOK', NEW w \in Workers, Finalize(w)
  PROVE  QuietStep
  <1> DEFINE c == worker[w]
             row == FinalizeRow(task[c.task], c.result, c.reason,
                                Revisit(c.result, c.reason), c.token)
  <1>1. ~Unclaimed(w) /\ c.task \in Tasks /\ c.token # NoToken
    BY BusyToken DEF Finalize, At, Unclaimed
  <1>2. FreeRow(row)
    BY <1>1, FinalizeRowFree DEF ClaimInv, TypeOK, StoreTypeOK
  <1>3. /\ task' = [task EXCEPT ![c.task] = row]
        /\ run' = SetRun(run, c.token, c.result) /\ issued' = issued
        /\ worker' = [worker EXCEPT ![w] = Settling(c, c.result = "completed")]
    BY DEF Finalize
  <1>4. KeepsSnapshot(w) /\ \A v \in Workers \ {w} : worker'[v] = worker[v]
    BY <1>1, <1>3 DEF KeepsSnapshot, Settling, ClaimInv, TypeOK, RuntimeTypeOK, WorkerState
  <1> HIDE DEF row
  <1> QED
    BY <1>1, <1>2, <1>3, <1>4, EndsOwnClaim DEF FreeRow, Inherits

LEMMA FinalizeLostQuiet ==
  ASSUME ClaimInv, TypeOK', NEW w \in Workers, FinalizeLost(w)
  PROVE  QuietStep
  <1> DEFINE c == worker[w]
             row == IF task[c.task].token = c.token
                    THEN [ClearClaim(task[c.task]) EXCEPT !.lastRun = c.token]
                    ELSE task[c.task]
             revisit == /\ row.status = "blocked" /\ row.ready = "none"
                        /\ row.reason = "external_poll"
             kept == IF revisit THEN [row EXCEPT !.ready = "later"] ELSE row
             recorded == IF kept.status \in Active THEN "cancelled" ELSE RunStatusFor(kept, c)
  <1>1. ~Unclaimed(w) /\ c.task \in Tasks /\ c.token # NoToken /\ task[c.task] \in Row
    BY BusyToken DEF FinalizeLost, At, ClaimInv, TypeOK, StoreTypeOK, Unclaimed
  <1>2. row \in Row /\ Inherits(task[c.task], row) /\ row.token # c.token
    <2>1. CASE task[c.task].token = c.token
      <3>1. ClearClaim(task[c.task]) \in Row /\ FreeRow(ClearClaim(task[c.task]))
        BY <1>1, ClearClaimType, ClearClaimFree
      <3>2. c.token \in 0..MaxRuns
        BY DEF ClaimInv, TypeOK, RuntimeTypeOK, WorkerState
      <3> QED
        BY <1>1, <2>1, <3>1, <3>2 DEF FreeRow, Inherits, Row
    <2>2. CASE task[c.task].token # c.token
      BY <1>1, <2>2, InheritsSelf
    <2> QED
      BY <2>1, <2>2
  <1>3. /\ IF Exists(c.task)
           THEN task' = [task EXCEPT ![c.task] = kept] /\ run' = SetRun(run, c.token, recorded)
           ELSE UNCHANGED <<task, run>>
        /\ worker' = [worker EXCEPT ![w] = IF kept.status = "completed"
                                           THEN Settling(c, TRUE) ELSE Idle]
        /\ issued' = issued
    BY DEF FinalizeLost
  <1> HIDE DEF row
  <1>4. Inherits(task[c.task], kept) /\ kept.token # c.token
    BY <1>2 DEF Inherits, KeepsClaim, FreeRow, Row
  <1> HIDE DEF kept, recorded
  <1>5. KeepsSnapshot(w) /\ \A v \in Workers \ {w} : worker'[v] = worker[v]
    BY <1>1, <1>3 DEF KeepsSnapshot, Settling, ClaimInv, TypeOK, RuntimeTypeOK, WorkerState
  <1>6. CASE Exists(c.task)
    BY <1>1, <1>3, <1>4, <1>5, <1>6, EndsOwnClaim
  <1>7. CASE ~Exists(c.task)
    BY <1>3, <1>5, <1>7, InheritsSelf, RunsUntouched DEF KeepsSnapshot, QuietStep
  <1> QED
    BY <1>6, <1>7

LEMMA SettleQuiet ==
  ASSUME ClaimInv, TypeOK', NEW w \in Workers, Settle(w)
  PROVE  QuietStep
  <1>1. worker[w].task \in Tasks
    BY DEF ClaimInv, TypeOK, RuntimeTypeOK, WorkerState
  <1>2. \A t \in Tasks : Inherits(task[t], task'[t])
    BY <1>1, ReconcileDependentsInherits, InheritsSelf
    DEF Settle, ClaimInv, TypeOK, StoreTypeOK
  <1>3. run' = run /\ issued' = issued /\ \A v \in Workers : KeepsSnapshot(v)
    BY DEF Settle, KeepsSnapshot, ClaimInv, TypeOK, RuntimeTypeOK
  <1> QED
    BY <1>2, <1>3, RunsUntouched DEF QuietStep

LEMMA ReleaseQuiet ==
  ASSUME ClaimInv, TypeOK', NEW w \in Workers, Release(w)
  PROVE  QuietStep
  <1> DEFINE c == worker[w]
             row == ReleaseRow(task[c.task], SweepTarget(c),
                               IF c.source = "review" THEN "none" ELSE "due")
  <1>1. ~Unclaimed(w) /\ c.task \in Tasks /\ c.token # NoToken
    BY BusyToken DEF Release, At, Unclaimed
  <1>2. FreeRow(row)
    BY <1>1, ReleaseRowFree DEF ClaimInv, TypeOK, StoreTypeOK
  <1>3. /\ task' = IF Owns(w) THEN [task EXCEPT ![c.task] = row] ELSE task
        /\ run' = SetRun(run, c.token, "cancelled") /\ issued' = issued
        /\ worker' = [worker EXCEPT ![w] = Idle]
    BY DEF Release
  <1>4. KeepsSnapshot(w) /\ \A v \in Workers \ {w} : worker'[v] = worker[v]
    BY <1>3 DEF KeepsSnapshot, ClaimInv, TypeOK, RuntimeTypeOK
  <1> HIDE DEF row
  <1>5. CASE Owns(w)
    BY <1>1, <1>2, <1>3, <1>4, <1>5, EndsOwnClaim DEF FreeRow, Inherits
  <1>6. CASE ~Owns(w)
    <2>1. task[c.task].token # c.token
      BY <1>1, <1>6, BackedToken DEF Owns, HoldsClaim
    <2>2. task' = [task EXCEPT ![c.task] = task[c.task]]
      BY <1>3, <1>6 DEF ClaimInv, TypeOK, StoreTypeOK
    <2> QED
      BY <1>1, <1>3, <1>4, <2>1, <2>2, InheritsSelf, EndsOwnClaim
  <1> QED
    BY <1>5, <1>6

LEMMA ProgressQuiet ==
  ASSUME ClaimInv, TypeOK', NEW w \in Workers, Progress(w)
  PROVE  QuietStep
  <1>1. CASE MarkStarted(w)
    BY <1>1, MarkStartedQuiet
  <1>2. CASE BuildTarget(w)
    <2>1. ~Unclaimed(w) /\ "executing" \in Places \ {"idle", "selected"}
      BY <1>2 DEF BuildTarget, At, Places, Unclaimed
    <2>2. UNCHANGED storeVars
      BY <1>2 DEF BuildTarget
    <2>3. CASE worker' = [worker EXCEPT ![w] = Idle]
      BY <2>2, <2>3, IdleKeeps, WorkerMoves
    <2>4. CASE worker' = [worker EXCEPT ![w] = [worker[w] EXCEPT !.place = "executing"]]
      BY <2>1, <2>2, <2>4, PlaceKeeps, WorkerMoves
    <2> QED
      BY <1>2, <2>3, <2>4 DEF BuildTarget
  <1>3. CASE LeaseLost(w)
    BY <1>3, FailingKeeps, WorkerMoves DEF LeaseLost, At, Unclaimed
  <1>4. CASE TurnEnds(w)
    BY <1>4, TurnEndsKeeps, WorkerMoves DEF TurnEnds
  <1>5. CASE Finalize(w)
    BY <1>5, FinalizeQuiet
  <1>6. CASE FinalizeLost(w)
    BY <1>6, FinalizeLostQuiet
  <1>7. CASE Settle(w)
    BY <1>7, SettleQuiet
  <1>8. CASE SettleMissing(w)
    <2>1. UNCHANGED storeVars /\ ~Unclaimed(w)
          /\ (worker' = Failing(w) \/ worker' = [worker EXCEPT ![w] = Idle])
      BY <1>8 DEF SettleMissing, At, Unclaimed
    <2> QED
      BY <2>1, FailingKeeps, IdleKeeps, WorkerMoves
  <1>9. CASE Release(w)
    BY <1>9, ReleaseQuiet
  <1> QED
    BY <1>1, <1>2, <1>3, <1>4, <1>5, <1>6, <1>7, <1>8, <1>9 DEF Progress

LEMMA DisruptionQuiet ==
  ASSUME ClaimInv, TypeOK', NEW w \in Workers, Disruption(w)
  PROVE  QuietStep
  <1>1. UNCHANGED storeVars /\ (InTry(w) => ~Unclaimed(w))
    BY DEF Disruption, TryRaises, Cancelled, Dies, InTry, Unclaimed
  <1>2. CASE TryRaises(w)
    BY <1>1, <1>2, FailingKeeps, WorkerMoves DEF TryRaises
  <1>3. CASE Cancelled(w)
    <2>1. worker' = [worker EXCEPT ![w] = [worker[w] EXCEPT !.place = "releasing"]]
      BY <1>3 DEF Cancelled, ClaimInv, TypeOK, RuntimeTypeOK, WorkerState
    <2>2. "releasing" \in Places \ {"idle", "selected"}
      BY DEF Places
    <2>3. ~Unclaimed(w)
      BY <1>1, <1>3 DEF Cancelled
    <2> QED
      BY <1>1, <2>1, <2>2, <2>3, PlaceKeeps, WorkerMoves
  <1>4. CASE Dies(w)
    BY <1>1, <1>4, IdleKeeps, WorkerMoves DEF Dies
  <1> QED
    BY <1>2, <1>3, <1>4 DEF Disruption

LEMMA RefreshLeaseQuiet ==
  ASSUME ClaimInv, TypeOK', NEW w \in Workers, RefreshLease(w)
  PROVE  QuietStep
  <1>1. worker[w].task \in Tasks
    BY DEF ClaimInv, TypeOK, RuntimeTypeOK, WorkerState
  <1>2. \A t \in Tasks : Inherits(task[t], task'[t])
    BY <1>1 DEF RefreshLease, Inherits, KeepsClaim, ClaimInv, TypeOK, StoreTypeOK, Row
  <1> QED
    BY <1>2, RunsUntouched DEF RefreshLease, KeepsSnapshot, QuietStep

LEMMA SurroundingsQuiet ==
  ASSUME ClaimInv, TypeOK', EmployeeStep \/ ClockStep, UNCHANGED runtimeVars
  PROVE  QuietStep
  <1>1. run' = run /\ issued' = issued /\ worker' = worker
    BY DEF EmployeeStep, EmployeeStatusChanges, ClockStep, LeaseExpires, ReadyTimeComes,
           runtimeVars
  <1>2. CASE EmployeeStep
    BY <1>1, <1>2, InheritsSelf, RunsUntouched
    DEF EmployeeStep, EmployeeStatusChanges, KeepsSnapshot, QuietStep
  <1>3. CASE ClockStep
    <2>1. PICK t \in Tasks : LeaseExpires(t) \/ ReadyTimeComes(t)
      BY <1>3 DEF ClockStep
    <2>2. \A u \in Tasks : Inherits(task[u], task'[u])
      BY <2>1 DEF LeaseExpires, ReadyTimeComes, Inherits, KeepsClaim, ClaimInv,
                  TypeOK, StoreTypeOK, Row
    <2> QED
      BY <1>1, <2>2, RunsUntouched DEF KeepsSnapshot, QuietStep
  <1> QED
    BY <1>2, <1>3

LEMMA NextQuiet ==
  ASSUME ClaimInv, TypeOK', [Next]_vars
  PROVE  QuietStep \/ \E w \in Workers : ClaimTask(w)
  <1>1. CASE (\E t \in Tasks : ServiceStep(t)) /\ UNCHANGED runtimeVars
    BY <1>1, ServiceStepQuiet
  <1>2. ASSUME NEW w \in Workers,
               ClaimStep(w) \/ Progress(w) \/ RefreshLease(w) \/ Disruption(w)
        PROVE  QuietStep \/ ClaimTask(w)
    BY <1>2, ClaimStepQuiet, ProgressQuiet, RefreshLeaseQuiet, DisruptionQuiet
  <1>3. CASE SweepExpiredClaims
    BY <1>3, SweepQuiet
  <1>4. CASE (EmployeeStep \/ ClockStep) /\ UNCHANGED runtimeVars
    BY <1>4, SurroundingsQuiet
  <1>5. CASE UNCHANGED vars
    BY <1>5, InheritsSelf, RunsUntouched
    DEF vars, storeVars, runtimeVars, KeepsSnapshot, QuietStep
  <1> QED
    BY <1>1, <1>2, <1>3, <1>4, <1>5 DEF Next

----------------------------------------------------------------------------
LEMMA InitFree ==
  ASSUME Init
  PROVE  \A t \in Tasks : FreeRow(task[t])
  <1>1. \A row \in OriginalRows \cup {AbsentRow} : FreeRow(row)
    <2>1. FreeRow(AbsentRow)
      BY NewRowFree DEF AbsentRow
    <2>2. ASSUME NEW row \in OriginalRows
          PROVE  FreeRow(row)
      <3>1. PICK s \in OriginalStatuses, o \in Owners, v \in Reviewers, b \in ReviewFlags :
               row = NewRow(s, o, v, b, IF s = "todo" THEN "due" ELSE "none", "none")
        BY DEF OriginalRows
      <3> QED
        BY <3>1, NewRowFree
    <2> QED
      BY <2>1, <2>2
  <1>2. \A t \in Tasks : task[t] \in OriginalRows \cup {AbsentRow}
    BY DEF Init, StoreInit
  <1> QED
    BY <1>1, <1>2

LEMMA InitClaims ==
  ASSUME Init
  PROVE  ClaimInv
  <1>1. TypeOK
    BY InitType
  <1>2. \A t \in Tasks : FreeRow(task[t])
    BY InitFree
  <1>3. \A w \in Workers : worker[w].token = NoToken /\ worker[w].place = "idle"
    BY DEF Init, RuntimeInit, Idle
  <1>4. ClaimIsBacked /\ SnapshotsMatch
    BY <1>2, <1>3 DEF FreeRow, ClaimIsBacked, SnapshotsMatch
  <1>5. TokensIssued /\ SelectionsFit
    BY <1>3 DEF TokensIssued, SelectionsFit, Unclaimed, At, Init, StoreInit
  <1> QED
    BY <1>1, <1>4, <1>5 DEF ClaimInv

LEMMA NextClaims == ClaimInv /\ [Next]_vars => ClaimInv'
  <1> SUFFICES ASSUME ClaimInv, [Next]_vars
               PROVE  ClaimInv'
    OBVIOUS
  <1>1. TypeOK'
    BY NextType DEF ClaimInv
  <1> QED
    BY <1>1, NextQuiet, QuietStepClaims, ClaimTaskClaims

\* In every reachable state a claim token, the executor's name, the status, the
\* run and what it was claimed from agree, however many tasks, employees and
\* workers there are: no path that ends a claim (update, finalize, release,
\* expiry, deletion) forgets a column or leaves the run of a claim closed.
THEOREM ClaimsBacked == Spec => []ClaimIsBacked
  <1>1. ClaimInv => ClaimIsBacked
    BY DEF ClaimInv
  <1> QED
    BY <1>1, InitClaims, NextClaims, PTL DEF Spec

\* No two workers ever hold the same claim, and what a worker copied from the
\* task when it claimed it (task and executor) is right for as long as the claim
\* lasts, although nobody locks the task while the turn runs.
THEOREM SnapshotsFit == Spec => []SnapshotsMatch
  <1>1. ClaimInv => SnapshotsMatch
    BY DEF ClaimInv
  <1> QED
    BY <1>1, InitClaims, NextClaims, PTL DEF Spec
-----------------------------------------------------------------------------
(* The claim columns are the holders of the slots of ClaimSlots: the one step *)
(* that makes a claim acquires a slot, every other releases some or none.     *)

Free == [token |-> NoToken, executor |-> NoOwner]
Slot(row) == [token |-> row.token, executor |-> row.claimOwner]

\* A slot is free exactly when the task carries no claim token.
LEMMA SlotFree ==
  ASSUME ClaimInv, NEW t \in Tasks
  PROVE  Slot(task[t]) = Free <=> task[t].token = NoToken
  BY DEF Slot, Free, ClaimInv, ClaimIsBacked

LEMMA QuietStepReleases ==
  ASSUME ClaimInv, QuietStep
  PROVE  \E S \in SUBSET Tasks : Slots!Release(S)
  <1>0. PICK S \in SUBSET Tasks :
          S = {t \in Tasks : task[t].token # NoToken /\ task'[t].token = NoToken}
    OBVIOUS
  <1>1. \A t \in S : Slot(task[t]) # Free
    BY <1>0, SlotFree
  <1>2. \A t \in S : Slot(task'[t]) = Free
    BY <1>0, BackedToken DEF QuietStep, Inherits, KeepsClaim, FreeRow, Slot, Free
  <1>3. \A t \in Tasks \ S : Slot(task'[t]) = Slot(task[t])
    BY <1>0 DEF QuietStep, Inherits, KeepsClaim, FreeRow, Slot, ClaimInv, ClaimIsBacked
  <1>4. issued' = issued
    BY DEF QuietStep
  <1>5. Slots!Release(S)
    BY <1>1, <1>2, <1>3, <1>4 DEF Slots!Release, Slot, Free
  <1> QED
    BY <1>5

LEMMA ClaimTaskAcquires ==
  ASSUME ClaimInv, NEW w \in Workers, ClaimTask(w)
  PROVE  \E t \in Tasks, e \in Employees : Slots!Acquire(t, e)
  <1>1. PICK c \in Selections(w) :
          Claimable(c) /\ IndexesHold(Attempt(w, c)) /\ task' = Attempt(w, c)
    BY DEF ClaimTask
  <1> DEFINE t == c.task
  <1>2. /\ t \in Tasks /\ task[t] \in Row
        /\ task[t].status \in {"todo", "blocked", "review"}
        /\ c.executor \in Employees
    BY <1>1, SelectionFacts DEF ClaimInv
  <1>3. PICK e \in Employees : e = c.executor
    BY <1>2
  <1>4. /\ task'[t] = ClaimRow(task[t], issued + 1, e, c.source)
        /\ \A u \in Tasks \ {t} : task'[u] \in {task[u], Guarded[u]}
        /\ task' \in [Tasks -> Row]
    BY <1>1, <1>2, <1>3, BeforeType, AttemptType DEF ClaimTask, ClaimInv, TypeOK
  <1>5. /\ task'[t].status = "claimed" /\ task'[t].token = issued + 1
        /\ task'[t].claimOwner = e
    BY <1>2, <1>4 DEF ClaimRow, Row
  <1>6. task[t].token = NoToken
    BY <1>2, BackedToken DEF Active
  <1>7. \A u \in Tasks \ {t} :
          /\ Slot(task'[u]) = Slot(task[u])
          /\ task[u].token # NoToken => task'[u] = task[u]
    <2> SUFFICES ASSUME NEW u \in Tasks \ {t}
                 PROVE  /\ Slot(task'[u]) = Slot(task[u])
                        /\ task[u].token # NoToken => task'[u] = task[u]
      OBVIOUS
    <2>1. CASE task'[u] = task[u]
      BY <2>1
    <2>2. CASE task'[u] = Guarded[u] /\ Guarded[u] # task[u]
      <3>1. /\ task[u].status = "plan"
            /\ Guarded[u] = UpdateRow(task[u], "blocked", "invalid_plan_status", "none")
        BY <2>2 DEF Guarded, AiPlanTasks
      <3>2. task[u].token = NoToken
        BY <3>1, BackedToken DEF Active
      <3>3. FreeRow(Guarded[u])
        BY <3>1, UpdateRowInherits
        DEF Statuses, Reasons, ReadyAt, Active, ClaimInv, TypeOK, StoreTypeOK
      <3> QED
        BY <2>2, <3>2, <3>3 DEF Slot, FreeRow, ClaimInv, ClaimIsBacked
    <2> QED
      BY <1>4, <2>1, <2>2
  <1>8. \A u \in Tasks : Slot(task[u]) # Free => task[u].claimOwner # e
    <2> SUFFICES ASSUME NEW u \in Tasks, task[u].token # NoToken
                 PROVE  task[u].claimOwner # e
      BY SlotFree
    <2>1. u # t
      BY <1>6
    <2>2. task'[u] = task[u] /\ task[u].status \in Active
      BY <1>7, <2>1, BackedToken
    <2>3. (t # u /\ task'[t].status \in Active /\ task'[u].status \in Active) =>
             (task'[t].claimOwner \in Employees => task'[t].claimOwner # task'[u].claimOwner)
      BY <1>1, <1>2 DEF IndexesHold
    <2> QED
      BY <1>2, <1>3, <1>5, <2>1, <2>2, <2>3 DEF Active
  <1>9. issued < MaxRuns /\ issued' = issued + 1
    BY DEF ClaimTask
  <1>10. Slots!Acquire(t, e)
    <2>1. Slot(task[t]) = Free
      BY <1>2, <1>6, SlotFree
    <2>2. Slot(task'[t]) = [token |-> issued + 1, executor |-> e]
      BY <1>5 DEF Slot
    <2>3. [x \in Tasks |-> Slot(task'[x])]
            = [[x \in Tasks |-> Slot(task[x])] EXCEPT ![t] = [token |-> issued + 1, executor |-> e]]
      BY <1>2, <1>7, <2>2
    <2>4. \A u \in Tasks : Slot(task[u]) # Free => Slot(task[u]).executor # e
      BY <1>8 DEF Slot
    <2> QED
      BY <1>2, <1>9, <2>1, <2>3, <2>4 DEF Slots!Acquire, Slot, Free
  <1> QED
    BY <1>2, <1>10

\* Claims behave as ClaimSlots promises, for any number of tasks, employees and
\* workers: a task and an employee have at most one claim at a time, every claim
\* gets a token of its own, and a claim that ended never comes back.
THEOREM ClaimsImplementSlots == Spec => ClaimsAreSlots
  <1>1. Init => Slots!Init
    <2> SUFFICES ASSUME Init
                 PROVE  Slots!Init
      OBVIOUS
    <2>1. \A t \in Tasks : task[t].token = NoToken /\ task[t].claimOwner = NoOwner
      BY InitFree DEF FreeRow
    <2>2. issued = 0
      BY DEF Init, StoreInit
    <2> QED
      BY <2>1, <2>2 DEF Slots!Init
  <1>2. ClaimInv /\ [Next]_vars => [Slots!Next]_(Slots!slotVars)
    BY NextClaims, NextQuiet, QuietStepReleases, ClaimTaskAcquires
    DEF ClaimInv, Slots!Next
  <1> QED
    BY <1>1, <1>2, InitClaims, NextClaims, PTL DEF Spec, ClaimsAreSlots, Slots!Spec

----------------------------------------------------------------------------
(* What a step may do to the lane, the owner and the policy of a task *)

\* A task of an AI owner in the lane of humans.
AiPlan(row) == row.status = "plan" /\ row.owner \in Employees
Steady(old, new) ==
    new.requiresReview = old.requiresReview /\ (AiPlan(new) => AiPlan(old))

LEMMA SteadySelf ==
  ASSUME NEW row
  PROVE  Steady(row, row)
  BY DEF Steady

LEMMA SteadyTransitive ==
  ASSUME NEW a, NEW b, NEW c, Steady(a, b), Steady(b, c)
  PROVE  Steady(a, c)
  BY DEF Steady

LEMMA UpdatedFields ==
  ASSUME NEW row \in Row, NEW status \in Statuses, NEW reason \in Reasons,
         NEW given \in ReadyAt \cup {"unset"}
  PROVE  /\ UpdateRow(row, status, reason, given).status = status
         /\ UpdateRow(row, status, reason, given).owner = row.owner
         /\ UpdateRow(row, status, reason, given).requiresReview = row.requiresReview
  <1> DEFINE base == IF status \in Active THEN row ELSE ClearClaim(row)
             ready == ReadyAfter(row, status, given)
  <1>1. base \in Row /\ base.owner = row.owner /\ base.requiresReview = row.requiresReview
    BY ClearClaimType DEF ClearClaim, Row
  <1>2. UpdateRow(row, status, reason, given)
          = [base EXCEPT !.status = status, !.reason = reason, !.ready = ready]
    BY DEF UpdateRow
  <1> HIDE DEF base, ready
  <1> QED
    BY <1>1, <1>2 DEF Row

LEMMA UpdatedSteady ==
  ASSUME NEW row \in Row, NEW status \in Statuses \ {"plan"}, NEW reason \in Reasons,
         NEW given \in ReadyAt \cup {"unset"}
  PROVE  Steady(row, UpdateRow(row, status, reason, given))
  BY UpdatedFields DEF Steady, AiPlan

LEMMA PromotedSteady ==
  ASSUME NEW row \in Row
  PROVE  Steady(row, Promote(row)) /\ Promote(row).status = "todo"
  BY UpdatedSteady, UpdatedFields DEF Promote, Statuses, Reasons, ReadyAt

LEMMA ReadinessSteady ==
  ASSUME NEW tasks \in [Tasks -> Row], NEW edges, NEW t \in Tasks
  PROVE  Steady(tasks[t], Readiness(tasks, edges, t))
  BY PromotedSteady, SteadySelf DEF Readiness

LEMMA ReadinessAfterChangeSteady ==
  ASSUME NEW tasks \in [Tasks -> Row], NEW edges, NEW t \in Tasks
  PROVE  Steady(tasks[t], ReadinessAfterChange(tasks, edges, t))
  <1>1. Steady(tasks[t], UpdateRow(tasks[t], "blocked", "dependency_wait", "unset"))
    BY UpdatedSteady DEF Statuses, Reasons, ReadyAt
  <1> QED
    BY <1>1, PromotedSteady, SteadySelf DEF ReadinessAfterChange

LEMMA ReconcileDependentsSteady ==
  ASSUME NEW tasks \in [Tasks -> Row], NEW edges, NEW t \in Tasks, NEW u \in Tasks
  PROVE  Steady(tasks[u], ReconcileDependents(tasks, edges, t)[u])
  BY ReadinessSteady, SteadySelf DEF ReconcileDependents

\* A new row is in the lane of humans only under a human owner.
LEMMA CreateSteady ==
  ASSUME StoreTypeOK, NEW t \in Tasks, NEW owner \in Owners, NEW reviewer \in Reviewers,
         NEW review \in ReviewFlags, NEW asked, NEW D \in SUBSET Tasks,
         Create(t, owner, reviewer, review, asked, D), NEW u \in Tasks
  PROVE  /\ AiPlan(task'[u]) => AiPlan(task[u])
         /\ task[u].status # "absent" => task'[u] = task[u]
  <1> DEFINE status == IF asked # "default" THEN asked
                       ELSE IF D = {} THEN "todo" ELSE "blocked"
             ready == IF D = {} /\ status = "todo" THEN "due" ELSE "none"
             reason == IF status = "blocked" THEN "dependency_wait" ELSE "none"
             row == NewRow(status, owner, reviewer, review, ready, reason)
             tasks == [task EXCEPT ![t] = row]
             edges == deps \cup {[task |-> t, dep |-> d, on |-> "completed"] : d \in D}
  <1>1. /\ task' = [tasks EXCEPT ![t] = Readiness(tasks, edges, t)]
        /\ task[t].status = "absent" /\ PlanAllowed(status, owner)
    BY DEF Create
  <1>2. ~AiPlan(row)
    BY <1>1, StoreAssumption DEF StoreAssumption, PlanAllowed, AiPlan, NewRow
  <1>3. row \in Row
    <2>1. status \in Statuses
      BY DEF Create, Statuses
    <2>2. ready \in ReadyAt /\ reason \in Reasons
      BY DEF ReadyAt, Reasons
    <2>3. reviewer \in Owners \cup {NoOwner} /\ review \in BOOLEAN
      BY ServiceAssumption DEF ServiceAssumption
    <2> HIDE DEF status, ready, reason
    <2> QED
      BY <2>1, <2>2, <2>3, NewRowType DEF row
  <1> HIDE DEF row
  <1>4. tasks \in [Tasks -> Row] /\ tasks[t] = row /\ (u # t => tasks[u] = task[u])
    BY <1>3 DEF StoreTypeOK
  <1> HIDE DEF tasks, edges
  <1>5. ~AiPlan(Readiness(tasks, edges, t))
    BY <1>2, <1>4, ReadinessSteady DEF Steady
  <1> QED
    BY <1>1, <1>4, <1>5

LEMMA UpdateTaskSteady ==
  ASSUME StoreTypeOK, NEW t \in Tasks, NEW status \in Statuses \cup {"keep"},
         NEW owner \in Owners, NEW reason \in Reasons,
         NEW given \in ReadyAt \cup {"unset"},
         UpdateTask(t, status, owner, reason, given), NEW u \in Tasks
  PROVE  Steady(task[u], task'[u])
  <1> DEFINE row == task[t]
             eff == IF owner # row.owner /\ status = "keep" /\ row.status \in Active
                    THEN "todo" ELSE status
             after == IF eff = "keep" THEN row.status ELSE eff
             updated == IF eff = "keep" THEN row ELSE UpdateRow(row, eff, reason, given)
             moved == [updated EXCEPT !.owner = owner]
             tasks == [task EXCEPT ![t] = moved]
  <1>1. row \in Row
    BY DEF StoreTypeOK
  <1>2. eff \in Statuses \cup {"keep"} /\ "keep" \notin Statuses
    BY DEF Statuses, Active, Terminal
  <1>3. /\ PlanAllowed(after, owner)
        /\ task' = IF eff = "completed" THEN ReconcileDependents(tasks, deps, t)
                   ELSE IF eff = "todo"
                   THEN [tasks EXCEPT ![t] = ReadinessAfterChange(tasks, deps, t)]
                   ELSE tasks
    BY DEF UpdateTask
  <1> HIDE DEF row, eff
  <1>4. /\ updated \in Row /\ updated.status = after
        /\ updated.requiresReview = row.requiresReview
    BY <1>1, <1>2, UpdateRowType, UpdatedFields
  <1> HIDE DEF updated, after
  <1>5. moved \in Row /\ Steady(row, moved)
    BY <1>3, <1>4, StoreAssumption DEF StoreAssumption, Row, Steady, AiPlan, PlanAllowed
  <1> HIDE DEF moved
  <1>6. tasks \in [Tasks -> Row] /\ Steady(task[u], tasks[u])
    BY <1>5, SteadySelf DEF StoreTypeOK, row
  <1> HIDE DEF tasks
  <1>7. Steady(tasks[u], task'[u])
    BY <1>3, <1>6, ReconcileDependentsSteady, ReadinessAfterChangeSteady, SteadySelf
  <1> QED
    BY <1>6, <1>7, SteadyTransitive

LEMMA ReviewSteady ==
  ASSUME StoreTypeOK, NEW t \in Tasks, NEW u \in Tasks,
         ApproveReview(t) \/ \E o \in Owners : RequestChanges(t, o)
  PROVE  Steady(task[u], task'[u])
  <1>0. task[t] \in Row /\ task \in [Tasks -> Row]
    BY DEF StoreTypeOK
  <1>1. CASE ApproveReview(t)
    <2> DEFINE approved == UpdateRow(task[t], "completed", "none", "unset")
               tasks == [task EXCEPT ![t] = approved]
    <2>1. task' = ReconcileDependents(tasks, deps, t)
      BY <1>1 DEF ApproveReview
    <2>2. approved \in Row /\ Steady(task[t], approved)
      BY <1>0, UpdateRowType, UpdatedSteady DEF Statuses, Terminal, Reasons
    <2> HIDE DEF approved
    <2>3. tasks \in [Tasks -> Row] /\ Steady(task[u], tasks[u])
      BY <1>0, <2>2, SteadySelf
    <2> HIDE DEF tasks
    <2> QED
      BY <2>1, <2>3, ReconcileDependentsSteady, SteadyTransitive
  <1>2. ASSUME NEW owner \in Owners, RequestChanges(t, owner)
        PROVE  Steady(task[u], task'[u])
    <2> DEFINE given == IF owner \in Employees THEN "due" ELSE "none"
               updated == UpdateRow(task[t], "blocked", "review_changes_requested", given)
               moved == [updated EXCEPT !.owner = owner]
    <2>1. /\ updated \in Row /\ updated.status = "blocked"
          /\ updated.requiresReview = task[t].requiresReview
      BY <1>0, UpdateRowType, UpdatedFields DEF Statuses, Reasons, ReadyAt
    <2>2. task' = [task EXCEPT ![t] = moved]
      BY <1>2 DEF RequestChanges
    <2> HIDE DEF updated
    <2>3. Steady(task[t], moved)
      BY <2>1 DEF Row, Steady, AiPlan
    <2> HIDE DEF moved
    <2> QED
      BY <1>0, <2>2, <2>3, SteadySelf
  <1> QED
    BY <1>1, <1>2

LEMMA DelegateSteady ==
  ASSUME StoreTypeOK, NEW t \in Tasks, NEW n \in Tasks, NEW owner \in Employees,
         NEW review \in ReviewFlags, NEW wait \in BOOLEAN,
         Delegate(t, n, owner, review, wait), NEW u \in Tasks
  PROVE  /\ AiPlan(task'[u]) => AiPlan(task[u])
         /\ task[u].status # "absent" => Steady(task[u], task'[u])
  <1> DEFINE row == NewRow("todo", owner, NoOwner, review, "due", "none")
             tasks == [task EXCEPT ![n] = row]
             edges == IF wait THEN deps \cup {[task |-> t, dep |-> n, on |-> "completed"]}
                      ELSE deps
  <1>1. row \in Row /\ ~AiPlan(row)
    <2>1. row.status = "todo"
      BY DEF NewRow
    <2> QED
      BY <2>1, NewRowType, ServiceAssumption
      DEF ServiceAssumption, Owners, Statuses, ReadyAt, Reasons, AiPlan
  <1>2. /\ task' = IF wait THEN [tasks EXCEPT ![t] = ReadinessAfterChange(tasks, edges, t)]
                   ELSE tasks
        /\ task[n].status = "absent"
    BY DEF Delegate
  <1> HIDE DEF row
  <1>3. /\ tasks \in [Tasks -> Row]
        /\ AiPlan(tasks[u]) => AiPlan(task[u])
        /\ task[u].status # "absent" => Steady(task[u], tasks[u])
    BY <1>1, <1>2, SteadySelf DEF StoreTypeOK
  <1> HIDE DEF tasks, edges
  <1>4. Steady(tasks[u], task'[u])
    BY <1>2, <1>3, ReadinessAfterChangeSteady, SteadySelf
  <1> QED
    BY <1>3, <1>4, SteadyTransitive DEF Steady

LEMMA DeleteRowsSteady ==
  ASSUME StoreTypeOK, NEW ts \in SUBSET Tasks, NEW first, DeleteRows(ts, first), NEW u \in Tasks
  PROVE  /\ AiPlan(task'[u]) => AiPlan(task[u])
         /\ task[u].status \in Active => Steady(task[u], task'[u])
  <1> DEFINE edges == {e \in deps : e.task \notin ts /\ e.dep \notin ts}
             others(x) == {e \in deps : e.task = x /\ e.dep # first[x]}
             once(x) == ReadinessAfterChange(task, others(x), x)
             begun(x) == [task EXCEPT ![x] = once(x)]
  <1>1. ~AiPlan(DeletedRow)
    BY DEF DeletedRow, NewRow, AiPlan
  <1>2. /\ task' = [x \in Tasks |->
                      IF x \in ts THEN DeletedRow
                      ELSE IF x \in Dependents(ts)
                           THEN ReadinessAfterChange(begun(x), edges, x)
                      ELSE task[x]]
        /\ u \in ts => task[u].status \notin Active
    BY DEF DeleteRows
  <1>3. Steady(task[u], ReadinessAfterChange(begun(u), edges, u))
    <2>1. once(u) \in Row /\ Steady(task[u], once(u))
      BY ReadinessAfterChangeType, ReadinessAfterChangeSteady DEF StoreTypeOK
    <2> HIDE DEF once, edges
    <2>2. begun(u) \in [Tasks -> Row] /\ begun(u)[u] = once(u)
      BY <2>1 DEF StoreTypeOK
    <2>3. Steady(begun(u)[u], ReadinessAfterChange(begun(u), edges, u))
      BY <2>2, ReadinessAfterChangeSteady
    <2> QED
      BY <2>1, <2>2, <2>3, SteadyTransitive
  <1> HIDE DEF begun, edges
  <1> QED
    BY <1>1, <1>2, <1>3, SteadySelf DEF Steady

LEMMA ServiceStepSteady ==
  ASSUME StoreTypeOK, NEW t \in Tasks, ServiceStep(t), NEW u \in Tasks
  PROVE  /\ AiPlan(task'[u]) => AiPlan(task[u])
         /\ (task[u].status \in Active /\ "policy" \notin Operations) =>
               task'[u].requiresReview = task[u].requiresReview
  <1> DEFINE Kept == /\ AiPlan(task'[u]) => AiPlan(task[u])
                     /\ (task[u].status \in Active /\ "policy" \notin Operations) =>
                           task'[u].requiresReview = task[u].requiresReview
  <1>0. task \in [Tasks -> Row] /\ "absent" \notin Active
    BY DEF StoreTypeOK, Active
  <1>1. Steady(task[u], task'[u]) => Kept
    BY DEF Steady
  <1>2. CASE ServiceCreates(t)
    <2>1. PICK o \in Owners, v \in Reviewers, b \in ReviewFlags, D \in SUBSET (Tasks \ {t}) :
             \E s : Create(t, o, v, b, s, D)
      BY <1>2 DEF ServiceCreates
    <2> QED
      BY <1>0, <2>1, CreateSteady
  <1>3. CASE ServiceUpdates(t)
    BY <1>1, <1>3, UpdateTaskSteady DEF ServiceUpdates
  <1>4. CASE /\ "policy" \in Operations
             /\ \E v \in Reviewers, b \in ReviewFlags : UpdateReviewPolicy(t, v, b)
    <2>1. PICK v \in Reviewers, b \in ReviewFlags :
             task' = [task EXCEPT ![t] = [task[t] EXCEPT !.reviewer = v, !.requiresReview = b]]
      BY <1>4 DEF UpdateReviewPolicy, StoreTypeOK
    <2>2. AiPlan([task[t] EXCEPT !.reviewer = v, !.requiresReview = b]) => AiPlan(task[t])
      BY <1>0 DEF AiPlan, Row
    <2> QED
      BY <1>0, <1>4, <2>1, <2>2
  <1>5. CASE ApproveReview(t) \/ \E o \in Owners : RequestChanges(t, o)
    BY <1>1, <1>5, ReviewSteady
  <1>6. CASE \/ \E d \in Tasks, on \in SatisfiedOn : AddDependency(t, d, on)
             \/ \E d \in Tasks : RemoveDependency(t, d)
    <2>1. PICK edges : task' = [task EXCEPT ![t] = ReadinessAfterChange(task, edges, t)]
      BY <1>6 DEF AddDependency, RemoveDependency
    <2> QED
      BY <1>0, <1>1, <2>1, ReadinessAfterChangeSteady, SteadySelf
  <1>7. CASE ServiceDelegates(t)
    BY <1>0, <1>7, DelegateSteady DEF ServiceDelegates, Steady
  <1>8. CASE ServiceDeletes(t)
    BY <1>8, DeleteRowsSteady DEF ServiceDeletes, Steady
  <1> QED
    BY <1>2, <1>3, <1>4, <1>5, <1>6, <1>7, <1>8, ServiceStepCases

----------------------------------------------------------------------------
(* What a worker may do to a task *)

SameClaim(old, new) ==
    /\ new.status = old.status /\ new.owner = old.owner
    /\ new.token = old.token /\ new.requiresReview = old.requiresReview

\* A step of worker w leaves a task as it is but for lease and ready time,
\* wakes it, or moves the task w holds a claim of.
WorkerEffect(w, t) ==
    \/ SameClaim(task[t], task'[t])
    \/ /\ Waiting(task[t]) /\ task'[t].status = "todo"
       /\ task'[t].requiresReview = task[t].requiresReview
    \/ /\ t = worker[w].task /\ task[t].token = worker[w].token /\ worker[w].token # NoToken
       /\ worker'[w] # worker[w]
       /\ task'[t].requiresReview = task[t].requiresReview
       /\ task'[t].status \in {"running", "todo", "review", worker[w].result}

LEMMA ClearedFields ==
  ASSUME NEW row \in Row
  PROVE  /\ ClearClaim(row) \in Row /\ ClearClaim(row).requiresReview = row.requiresReview
         /\ ClearClaim(row).status = row.status /\ ClearClaim(row).owner = row.owner
  BY ClearClaimType DEF ClearClaim, Row

LEMMA MarkStartedEffect ==
  ASSUME ClaimInv, NEW w \in Workers, MarkStarted(w), NEW t \in Tasks
  PROVE  WorkerEffect(w, t)
  <1> DEFINE c == worker[w]
  <1>1. c.task \in Tasks /\ c.token # NoToken
    BY BusyToken DEF MarkStarted, At, Unclaimed
  <1>2. CASE task[c.task].token = c.token /\ task[c.task].status = "claimed"
    <2>1. task' = [task EXCEPT ![c.task].status = "running"]
      BY <1>2 DEF MarkStarted, StartRow
    <2>2. worker'[w].place = "started" /\ worker[w].place = "claimed"
      BY <1>2 DEF MarkStarted, At, ClaimInv, TypeOK, RuntimeTypeOK, WorkerState
    <2>3. task[t] \in Row /\ task[c.task] \in Row
      BY <1>1 DEF ClaimInv, TypeOK, StoreTypeOK
    <2>4. CASE t = c.task
      <3>1. task'[t].status = "running" /\ task'[t].requiresReview = task[t].requiresReview
        BY <2>1, <2>3, <2>4 DEF ClaimInv, TypeOK, StoreTypeOK, Row
      <3>2. worker'[w] # worker[w]
        BY <2>2
      <3> QED
        BY <1>1, <1>2, <2>4, <3>1, <3>2 DEF WorkerEffect
    <2>5. CASE t # c.task
      BY <2>1, <2>5 DEF WorkerEffect, SameClaim, ClaimInv, TypeOK, StoreTypeOK
    <2> QED
      BY <2>4, <2>5
  <1>3. CASE ~(task[c.task].token = c.token /\ task[c.task].status = "claimed")
    BY <1>3 DEF MarkStarted, WorkerEffect, SameClaim
  <1> QED
    BY <1>2, <1>3

LEMMA FinalizeEffect ==
  ASSUME ClaimInv, NEW w \in Workers, Finalize(w), NEW t \in Tasks
  PROVE  WorkerEffect(w, t)
  <1> DEFINE c == worker[w]
             cleared == ClearClaim(task[c.task])
             ready == Revisit(c.result, c.reason)
             row == [cleared EXCEPT !.status = c.result, !.reason = c.reason,
                                    !.ready = ready, !.lastRun = c.token]
  <1>1. /\ c.task \in Tasks /\ c.token # NoToken /\ task[c.task].token = c.token
        /\ c.place \in {"outcome", "failing"}
    BY BusyToken DEF Finalize, At, Owns, HoldsClaim, Unclaimed
  <1>2. /\ task' = [task EXCEPT ![c.task] = row]
        /\ worker' = [worker EXCEPT ![w] = Settling(c, c.result = "completed")]
    BY DEF Finalize, FinalizeRow
  <1>3. worker'[w].place \in {"settling", "settlingInHandler"}
    BY <1>1, <1>2 DEF Settling, ClaimInv, TypeOK, RuntimeTypeOK, WorkerState
  <1>4. cleared \in Row /\ cleared.requiresReview = task[c.task].requiresReview
    BY <1>1, ClearedFields DEF ClaimInv, TypeOK, StoreTypeOK
  <1> HIDE DEF cleared, ready
  <1>5. row.status = c.result /\ row.requiresReview = task[c.task].requiresReview
    BY <1>4 DEF Row
  <1> HIDE DEF row
  <1>6. worker'[w] # worker[w]
    BY <1>1, <1>3
  <1>7. CASE t = c.task
    <2>1. task'[t] = row
      BY <1>1, <1>2, <1>7 DEF ClaimInv, TypeOK, StoreTypeOK
    <2> QED
      BY <1>1, <1>5, <1>6, <1>7, <2>1 DEF WorkerEffect
  <1>8. CASE t # c.task
    BY <1>2, <1>8 DEF WorkerEffect, SameClaim, ClaimInv, TypeOK, StoreTypeOK
  <1> QED
    BY <1>7, <1>8

\* A worker that lost its claim changes no more than a ready time.
LEMMA FinalizeLostEffect ==
  ASSUME ClaimInv, NEW w \in Workers, FinalizeLost(w), NEW t \in Tasks
  PROVE  /\ SameClaim(task[t], task'[t])
         /\ task'[t].expired = task[t].expired /\ task'[t].reason = task[t].reason
  <1> DEFINE c == worker[w]
             row == IF task[c.task].token = c.token
                    THEN [ClearClaim(task[c.task]) EXCEPT !.lastRun = c.token]
                    ELSE task[c.task]
             revisit == /\ row.status = "blocked" /\ row.ready = "none"
                        /\ row.reason = "external_poll"
             kept == IF revisit THEN [row EXCEPT !.ready = "later"] ELSE row
  <1>1. c.task \in Tasks /\ c.token # NoToken /\ task[c.task] \in Row
    BY BusyToken DEF FinalizeLost, At, ClaimInv, TypeOK, StoreTypeOK, Unclaimed
  <1>2. task[c.task].token # c.token
    BY <1>1, BackedToken DEF FinalizeLost, Owns, HoldsClaim
  <1>3. row = task[c.task]
    BY <1>2
  <1>4. task' = [task EXCEPT ![c.task] = kept] \/ task' = task
    BY DEF FinalizeLost
  <1> HIDE DEF row
  <1>5. /\ SameClaim(task[c.task], kept)
        /\ kept.expired = task[c.task].expired /\ kept.reason = task[c.task].reason
    BY <1>1, <1>3 DEF SameClaim, Row
  <1> HIDE DEF kept
  <1> QED
    BY <1>1, <1>4, <1>5 DEF SameClaim, ClaimInv, TypeOK, StoreTypeOK

LEMMA SettleEffect ==
  ASSUME ClaimInv, NEW w \in Workers, Settle(w), NEW t \in Tasks
  PROVE  WorkerEffect(w, t)
  <1>1. task[t] \in Row
    BY DEF ClaimInv, TypeOK, StoreTypeOK
  <1>2. task'[t] = task[t] \/ (Waiting(task[t]) /\ task'[t] = Promote(task[t]))
    BY DEF Settle, ReconcileDependents, Readiness
  <1> QED
    BY <1>1, <1>2, PromotedSteady DEF WorkerEffect, SameClaim, Steady

LEMMA ReleaseEffect ==
  ASSUME ClaimInv, NEW w \in Workers, Release(w), NEW t \in Tasks
  PROVE  WorkerEffect(w, t) /\ (~Owns(w) => task' = task)
  <1> DEFINE c == worker[w]
             cleared == ClearClaim(task[c.task])
             ready == IF c.source = "review" THEN "none" ELSE "due"
             row == [cleared EXCEPT !.status = SweepTarget(c), !.ready = ready,
                                    !.reason = "none"]
  <1>1. c.task \in Tasks /\ c.token # NoToken /\ c.place = "releasing"
    BY BusyToken DEF Release, At, Unclaimed
  <1>2. /\ task' = IF Owns(w) THEN [task EXCEPT ![c.task] = row] ELSE task
        /\ worker' = [worker EXCEPT ![w] = Idle]
    BY DEF Release, ReleaseRow
  <1>3. worker'[w].place = "idle"
    BY <1>2 DEF Idle, ClaimInv, TypeOK, RuntimeTypeOK
  <1>4. cleared \in Row /\ cleared.requiresReview = task[c.task].requiresReview
    BY <1>1, ClearedFields DEF ClaimInv, TypeOK, StoreTypeOK
  <1> HIDE DEF cleared, ready
  <1>5. row.status \in {"todo", "review"} /\ row.requiresReview = task[c.task].requiresReview
    BY <1>4 DEF Row, SweepTarget
  <1> HIDE DEF row
  <1>6. worker'[w] # worker[w]
    BY <1>1, <1>3
  <1>7. CASE Owns(w) /\ t = c.task
    <2>1. task'[t] = row /\ task[t].token = c.token
      BY <1>1, <1>2, <1>7 DEF Owns, HoldsClaim, ClaimInv, TypeOK, StoreTypeOK
    <2> QED
      BY <1>1, <1>5, <1>6, <1>7, <2>1 DEF WorkerEffect
  <1>8. CASE ~Owns(w) \/ t # c.task
    BY <1>2, <1>8 DEF WorkerEffect, SameClaim, ClaimInv, TypeOK, StoreTypeOK
  <1> QED
    BY <1>2, <1>7, <1>8

LEMMA WorkerStepEffect ==
  ASSUME ClaimInv, NEW w \in Workers, Progress(w) \/ RefreshLease(w) \/ Disruption(w),
         NEW t \in Tasks
  PROVE  WorkerEffect(w, t)
  <1>1. UNCHANGED storeVars => WorkerEffect(w, t)
    BY DEF storeVars, WorkerEffect, SameClaim
  <1>2. CASE Progress(w)
    BY <1>1, <1>2, MarkStartedEffect, FinalizeEffect, FinalizeLostEffect, SettleEffect,
       ReleaseEffect
    DEF Progress, BuildTarget, LeaseLost, TurnEnds, SettleMissing, WorkerEffect
  <1>3. CASE RefreshLease(w)
    BY <1>3 DEF RefreshLease, WorkerEffect, SameClaim, ClaimInv, TypeOK, StoreTypeOK, Row
  <1>4. CASE Disruption(w)
    BY <1>1, <1>4 DEF Disruption, TryRaises, Cancelled, Dies
  <1> QED
    BY <1>2, <1>3, <1>4

----------------------------------------------------------------------------
(* What a step may do to a worker *)

\* Nothing but its own steps changes a worker.
LEMMA OwnSteps ==
  ASSUME ClaimInv, [Next]_vars, NEW w \in Workers, worker'[w] # worker[w]
  PROVE  ClaimStep(w) \/ Progress(w) \/ Disruption(w)
  <1> DEFINE Own(v) == ClaimStep(v) \/ Progress(v) \/ Disruption(v)
  <1>0. worker \in [Workers -> WorkerState]
    BY DEF ClaimInv, TypeOK, RuntimeTypeOK
  <1>1. worker' # worker
    OBVIOUS
  <1>2. ~ \/ (\E t \in Tasks : ServiceStep(t)) /\ UNCHANGED runtimeVars
          \/ SweepExpiredClaims
          \/ (EmployeeStep \/ ClockStep) /\ UNCHANGED runtimeVars
          \/ UNCHANGED vars
    BY <1>1 DEF runtimeVars, SweepExpiredClaims, vars
  <1>3. PICK v \in Workers : ClaimStep(v) \/ Progress(v) \/ RefreshLease(v) \/ Disruption(v)
    BY <1>2 DEF Next
  <1>4. Own(v)
    BY <1>1, <1>3 DEF RefreshLease
  <1>5. \E c : worker' = [worker EXCEPT ![v] = c]
    <2>1. CASE ClaimStep(v)
      BY <1>1, <2>1 DEF ClaimStep, ClaimNothing, SelectTask, ClaimMissed, ClaimConflict,
                        ClaimRejected, ClaimTask
    <2>2. CASE Progress(v)
      <3>1. CASE MarkStarted(v)
        BY <1>0, <3>1 DEF MarkStarted
      <3>2. CASE BuildTarget(v) \/ LeaseLost(v) \/ TurnEnds(v) \/ SettleMissing(v)
        BY <1>0, <3>2 DEF BuildTarget, LeaseLost, TurnEnds, SettleMissing, Failing
      <3>3. CASE Finalize(v) \/ FinalizeLost(v) \/ Settle(v) \/ Release(v)
        BY <3>3 DEF Finalize, FinalizeLost, Settle, Release
      <3> QED
        BY <2>2, <3>1, <3>2, <3>3 DEF Progress
    <2>3. CASE Disruption(v)
      BY <1>0, <2>3 DEF Disruption, TryRaises, Cancelled, Dies, Failing
    <2> QED
      BY <1>4, <2>1, <2>2, <2>3
  <1>6. v = w
    BY <1>0, <1>5
  <1> QED
    BY <1>4, <1>6

\* What a worker is about to persist was classified by the policy it copied.
OutcomeOK(c) ==
    /\ c.result \in {"review", "completed", "failed", "blocked"}
    /\ c.result = "completed" => ~c.requiresReview
OutcomesFit == \A w \in Workers : OutcomeOK(worker[w])

LEMMA ClassifiedFits ==
  ASSUME NEW c, NEW o
  PROVE  /\ Classified(c, o) \in {"review", "completed", "failed", "blocked"}
         /\ Classified(c, o) = "completed" => ~c.requiresReview
  BY DEF Classified

LEMMA IdleFits == OutcomeOK(Idle)
  BY DEF OutcomeOK, Idle

LEMMA OutcomeKept ==
  ASSUME ClaimInv, OutcomesFit, NEW w \in Workers,
         ClaimStep(w) \/ Progress(w) \/ Disruption(w)
  PROVE  /\ OutcomeOK(worker'[w])
         /\ \/ ClaimTask(w) \/ worker'[w].token = NoToken
            \/ worker'[w].requiresReview = worker[w].requiresReview
  <1> DEFINE c == worker[w]
             Kept(d) == OutcomeOK(d) /\ d.requiresReview = c.requiresReview
  <1>0. c \in WorkerState /\ OutcomeOK(c) /\ worker \in [Workers -> WorkerState]
    BY DEF ClaimInv, TypeOK, RuntimeTypeOK, OutcomesFit
  <1> HIDE DEF c
  <1>1. \A p : Kept([c EXCEPT !.place = p])
    BY <1>0 DEF OutcomeOK, WorkerState
  <1>2. Kept([c EXCEPT !.place = "failing", !.result = "failed", !.reason = "none",
                       !.reconcile = FALSE])
    BY <1>0 DEF OutcomeOK, WorkerState
  <1>3. ASSUME NEW r \in {"review", "completed", "failed", "blocked"}, NEW q,
               r = "completed" => ~c.requiresReview
        PROVE  Kept([c EXCEPT !.place = "outcome", !.result = r, !.reason = q])
    BY <1>0, <1>3 DEF OutcomeOK, WorkerState
  <1>4. \A b : Kept(Settling(c, b))
    BY <1>0 DEF OutcomeOK, WorkerState, Settling
  <1> HIDE DEF Kept
  <1>5. CASE ClaimStep(w)
    <2>1. CASE ClaimTask(w) \/ SelectTask(w)
      <3>1. worker'[w].result = "failed" /\ (SelectTask(w) => worker'[w].token = NoToken)
        BY <1>0, <2>1 DEF ClaimTask, SelectTask, Selection, Idle
      <3> QED
        BY <2>1, <3>1 DEF OutcomeOK
    <2>2. CASE ClaimMissed(w) \/ ClaimConflict(w) \/ ClaimRejected(w)
      <3>1. worker'[w] = Idle
        BY <1>0, <2>2 DEF ClaimMissed, ClaimConflict, ClaimRejected
      <3> QED
        BY <3>1, IdleFits DEF Idle
    <2>3. CASE ClaimNothing(w)
      BY <1>0, <2>3 DEF ClaimNothing, c
    <2> QED
      BY <1>5, <2>1, <2>2, <2>3 DEF ClaimStep
  <1>6. CASE Progress(w)
    <2>1. worker'[w] = Idle \/ Kept(worker'[w])
      <3>1. CASE MarkStarted(w)
        BY <1>0, <1>1, <3>1 DEF MarkStarted, c
      <3>2. CASE BuildTarget(w)
        BY <1>0, <1>1, <3>2 DEF BuildTarget, c
      <3>3. CASE LeaseLost(w) \/ SettleMissing(w)
        BY <1>0, <1>2, <3>3 DEF LeaseLost, SettleMissing, Failing, c
      <3>4. CASE TurnEnds(w)
        <4>1. PICK o \in TurnOutcomes :
                worker'[w] = [c EXCEPT !.place = "outcome", !.result = Classified(c, o),
                                       !.reason = ClassifiedReason(o)]
          BY <1>0, <3>4 DEF TurnEnds, c
        <4>2. \A r, q : (/\ r \in {"review", "completed", "failed", "blocked"}
                         /\ r = "completed" => ~c.requiresReview)
                 => Kept([c EXCEPT !.place = "outcome", !.result = r, !.reason = q])
          BY <1>3
        <4>3. /\ Classified(c, o) \in {"review", "completed", "failed", "blocked"}
              /\ Classified(c, o) = "completed" => ~c.requiresReview
          BY ClassifiedFits
        <4>4. Kept([c EXCEPT !.place = "outcome", !.result = Classified(c, o),
                             !.reason = ClassifiedReason(o)])
          BY <4>2, <4>3
        <4> QED
          BY <4>1, <4>4
      <3>5. CASE Finalize(w) \/ FinalizeLost(w)
        <4>1. \E b : worker'[w] = Settling(c, b) \/ worker'[w] = Idle
          <5>1. CASE Finalize(w)
            BY <1>0, <5>1 DEF Finalize, c
          <5>2. CASE FinalizeLost(w)
            <6>1. \E new \in {Settling(c, TRUE), Idle} : worker' = [worker EXCEPT ![w] = new]
              BY <5>2 DEF FinalizeLost, c
            <6> QED
              BY <1>0, <6>1
          <5> QED
            BY <3>5, <5>1, <5>2
        <4> QED
          BY <1>4, <4>1
      <3>6. CASE Settle(w) \/ Release(w)
        BY <1>0, <3>6 DEF Settle, Release
      <3> QED
        BY <1>6, <3>1, <3>2, <3>3, <3>4, <3>5, <3>6 DEF Progress
    <2> QED
      BY <2>1, IdleFits DEF Kept, Idle, c
  <1>7. CASE Disruption(w)
    <2>1. worker'[w] = Idle \/ Kept(worker'[w])
      BY <1>0, <1>1, <1>2, <1>7 DEF Disruption, TryRaises, Cancelled, Dies, Failing, c
    <2> QED
      BY <2>1, IdleFits DEF Kept, Idle, c
  <1> QED
    BY <1>5, <1>6, <1>7

LEMMA InitOutcomes ==
  ASSUME Init
  PROVE  OutcomesFit
  BY IdleFits DEF Init, RuntimeInit, OutcomesFit

LEMMA NextOutcomes == ClaimInv /\ OutcomesFit /\ [Next]_vars => OutcomesFit'
  BY OwnSteps, OutcomeKept DEF OutcomesFit

----------------------------------------------------------------------------
(* What any step may do to a task *)

ClaimEffect(t) ==
    /\ task[t].token = NoToken /\ task'[t].status \in {"blocked", "claimed"}
    /\ task'[t].requiresReview = task[t].requiresReview

SweepEffect(t) ==
    /\ task[t].expired /\ task'[t].status \in {"todo", "review"}
    /\ task'[t].requiresReview = task[t].requiresReview

LEMMA GuardedEffect ==
  ASSUME ClaimInv, NEW t \in Tasks
  PROVE  \/ Guarded[t] = task[t]
         \/ /\ task[t].token = NoToken /\ Guarded[t].status = "blocked"
            /\ Guarded[t].requiresReview = task[t].requiresReview
  <1>1. task[t] \in Row
    BY DEF ClaimInv, TypeOK, StoreTypeOK
  <1>2. CASE t \in AiPlanTasks
    <2>1. task[t].token = NoToken
      BY <1>2, BackedToken DEF AiPlanTasks, Active
    <2>2. Guarded[t] = UpdateRow(task[t], "blocked", "invalid_plan_status", "none")
      BY <1>2 DEF Guarded
    <2> QED
      BY <1>1, <2>1, <2>2, UpdatedFields DEF Statuses, Reasons, ReadyAt
  <1>3. CASE t \notin AiPlanTasks
    BY <1>3 DEF Guarded
  <1> QED
    BY <1>2, <1>3

LEMMA ClaimStepEffect ==
  ASSUME ClaimInv, NEW w \in Workers, ClaimStep(w), NEW t \in Tasks
  PROVE  task'[t] = task[t] \/ ClaimEffect(t)
  <1>0. task \in [Tasks -> Row] /\ Before(w) \in [Tasks -> Row]
    BY BeforeType DEF ClaimInv, TypeOK, StoreTypeOK
  <1>1. \A tasks \in {task, Guarded} :
           task'[t] = tasks[t] => task'[t] = task[t] \/ ClaimEffect(t)
    BY GuardedEffect DEF ClaimEffect
  <1>2. ASSUME NEW c \in Selections(w), Claimable(c)
        PROVE  /\ c.task \in Tasks /\ Before(w)[c.task] = task[c.task]
               /\ task[c.task].token = NoToken /\ task[c.task] \in Row
    BY <1>2, SelectionFacts, BackedToken DEF ClaimInv, Active
  <1>3. CASE ClaimNothing(w) \/ ClaimConflict(w) \/ ClaimMissed(w) \/ SelectTask(w)
    BY <1>1, <1>3 DEF ClaimNothing, ClaimConflict, ClaimMissed, SelectTask, storeVars
  <1>4. CASE ClaimRejected(w)
    <2>1. PICK c \in Selections(w) :
            /\ Claimable(c)
            /\ task' = [Before(w) EXCEPT ![c.task] = [UpdateRow(@, "blocked", "other", "none")
                                                        EXCEPT !.lastRun = NoToken]]
      BY <1>4 DEF ClaimRejected
    <2> DEFINE row == UpdateRow(task[t], "blocked", "other", "none")
    <2>2. CASE c.task = t
      <3>1. row \in Row /\ row.status = "blocked" /\ row.requiresReview = task[t].requiresReview
        BY <1>0, UpdateRowType, UpdatedFields DEF Statuses, Reasons, ReadyAt
      <3>2. task'[t] = [row EXCEPT !.lastRun = NoToken]
        BY <1>0, <1>2, <2>1, <2>2
      <3> HIDE DEF row
      <3> QED
        BY <1>2, <2>1, <2>2, <3>1, <3>2 DEF ClaimEffect, Row
    <2>3. CASE c.task # t
      BY <1>0, <1>1, <2>1, <2>3, BeforeType DEF ClaimInv, TypeOK
    <2> QED
      BY <2>2, <2>3
  <1>5. CASE ClaimTask(w)
    <2>1. PICK c \in Selections(w) : Claimable(c) /\ task' = Attempt(w, c)
      BY <1>5 DEF ClaimTask
    <2>2. CASE c.task = t
      <3>1. task'[t] = ClaimRow(task[t], issued + 1, c.executor, c.source)
        BY <1>0, <1>2, <2>1, <2>2 DEF Attempt
      <3>2. task'[t].status = "claimed" /\ task'[t].requiresReview = task[t].requiresReview
        BY <1>0, <3>1 DEF ClaimRow, Row
      <3> QED
        BY <1>2, <2>1, <2>2, <3>2 DEF ClaimEffect
    <2>3. CASE c.task # t
      <3>1. task'[t] = Before(w)[t]
        BY <1>0, <2>1, <2>3 DEF Attempt
      <3> QED
        BY <1>1, <3>1, BeforeType DEF ClaimInv, TypeOK
    <2> QED
      BY <2>2, <2>3
  <1> QED
    BY <1>3, <1>4, <1>5 DEF ClaimStep

LEMMA SweepStepEffect ==
  ASSUME ClaimInv, SweepExpiredClaims, NEW t \in Tasks
  PROVE  task'[t] = task[t] \/ SweepEffect(t)
  <1> DEFINE cleared == ClearClaim(task[t])
             status == SweepTarget(task[t])
             ready == IF task[t].source = "review" THEN "none" ELSE "due"
             row == [cleared EXCEPT !.status = status, !.ready = ready, !.reason = "none"]
  <1>1. task'[t] = IF t \in Expired THEN row ELSE task[t]
    BY DEF SweepExpiredClaims, Swept, ReleaseRow
  <1>2. cleared \in Row /\ cleared.requiresReview = task[t].requiresReview
    BY ClearedFields DEF ClaimInv, TypeOK, StoreTypeOK
  <1>3. status \in {"todo", "review"}
    BY DEF SweepTarget
  <1> HIDE DEF cleared, status, ready
  <1> QED
    BY <1>1, <1>2, <1>3 DEF Expired, SweepEffect, Row

LEMMA SurroundingsEffect ==
  ASSUME ClaimInv, EmployeeStep \/ ClockStep, NEW t \in Tasks
  PROVE  SameClaim(task[t], task'[t])
  BY DEF EmployeeStep, EmployeeStatusChanges, ClockStep, LeaseExpires, ReadyTimeComes,
         SameClaim, ClaimInv, TypeOK, StoreTypeOK, Row

LEMMA StepEffect ==
  ASSUME ClaimInv, [Next]_vars, NEW t \in Tasks
  PROVE  \/ (\E u \in Tasks : ServiceStep(u)) /\ worker' = worker
         \/ SameClaim(task[t], task'[t])
         \/ \E w \in Workers : WorkerEffect(w, t)
         \/ ClaimEffect(t)
         \/ SweepEffect(t) /\ worker' = worker
  <1>1. task'[t] = task[t] => SameClaim(task[t], task'[t])
    BY DEF SameClaim
  <1>2. CASE (\E u \in Tasks : ServiceStep(u)) /\ UNCHANGED runtimeVars
    BY <1>2 DEF runtimeVars
  <1>3. ASSUME NEW w \in Workers,
               ClaimStep(w) \/ Progress(w) \/ RefreshLease(w) \/ Disruption(w)
        PROVE  SameClaim(task[t], task'[t]) \/ WorkerEffect(w, t) \/ ClaimEffect(t)
    BY <1>1, <1>3, ClaimStepEffect, WorkerStepEffect
  <1>4. CASE SweepExpiredClaims
    BY <1>1, <1>4, SweepStepEffect DEF SweepExpiredClaims
  <1>5. CASE EmployeeStep \/ ClockStep
    BY <1>5, SurroundingsEffect
  <1>6. CASE UNCHANGED vars
    BY <1>1, <1>6 DEF vars, storeVars
  <1> QED
    BY <1>2, <1>3, <1>4, <1>5, <1>6 DEF Next

----------------------------------------------------------------------------
(* What no step may do *)

LEMMA LiveClaimStep ==
  ASSUME ClaimInv, [Next]_vars, NEW t \in Tasks,
         task[t].token # NoToken, ~task[t].expired, task'[t].token # task[t].token
  PROVE  \/ worker' = worker /\ run'[task[t].token] = run[task[t].token]
         \/ \E w \in Workers : worker[w].token = task[t].token /\ worker'[w] # worker[w]
  <1>1. /\ task[t].token \in Runs /\ task[t].status \in Active
        /\ run[task[t].token].task = t
    BY BackedToken
  <1>2. ASSUME NEW u \in Tasks, ServiceStep(u)
        PROVE  run'[task[t].token] = run[task[t].token]
    <2>1. PICK ts \in SUBSET Tasks : OnlyRunsOf(ts) /\ \A x \in ts : task[x].status \notin Active
      BY <1>2, ServiceStepInherits DEF ClaimInv, TypeOK
    <2> QED
      BY <1>1, <2>1 DEF OnlyRunsOf
  <1>3. \A w \in Workers : WorkerEffect(w, t) =>
           SameClaim(task[t], task'[t]) \/ (worker[w].token = task[t].token /\ worker'[w] # worker[w])
    BY <1>1 DEF WorkerEffect, Waiting, Active
  <1> QED
    BY <1>2, <1>3, StepEffect DEF SameClaim, ClaimEffect, SweepEffect

\* A claim whose lease has not run out is ended by nobody but its worker or an
\* operation of the service: the sweep, the claims of other workers, their late
\* outcomes and releases leave it alone, whatever they read before.
THEOREM LiveClaimsRespected == Spec => LiveClaimRespected
  <1>1. ClaimInv /\ [Next]_vars =>
          [\A t \in Tasks :
             (/\ task[t].token # NoToken /\ ~task[t].expired
              /\ task'[t].token # task[t].token) =>
                 \/ worker' = worker /\ run'[task[t].token] = run[task[t].token]
                 \/ \E w \in Workers : worker[w].token = task[t].token /\ worker'[w] # worker[w]
          ]_vars
    BY LiveClaimStep
  <1> QED
    BY <1>1, InitClaims, NextClaims, PTL DEF Spec, LiveClaimRespected

LEMMA StaleWorkerStep ==
  ASSUME ClaimInv, [Next]_vars, NEW w \in Workers,
         worker[w].place \in {"outcome", "failing", "releasing"}, worker'[w] # worker[w],
         task[worker[w].task].token # worker[w].token, NEW t \in Tasks
  PROVE  /\ task'[t].status = task[t].status /\ task'[t].token = task[t].token
         /\ task'[t].expired = task[t].expired /\ task'[t].reason = task[t].reason
  <1>1. ~ClaimStep(w)
    BY DEF ClaimStep, ClaimNothing, SelectTask, ClaimMissed, ClaimConflict, ClaimRejected,
           ClaimTask, Selections, At
  <1>2. CASE Disruption(w)
    BY <1>2 DEF Disruption, TryRaises, Cancelled, Dies, storeVars
  <1>3. CASE Progress(w)
    <2>1. FinalizeLost(w) \/ Release(w)
      BY <1>3 DEF Progress, MarkStarted, BuildTarget, LeaseLost, TurnEnds, Finalize,
                  Settle, SettleMissing, At, Owns, HoldsClaim
    <2>2. CASE FinalizeLost(w)
      BY <2>2, FinalizeLostEffect DEF SameClaim
    <2>3. CASE Release(w)
      BY <2>3, ReleaseEffect DEF Owns, HoldsClaim
    <2> QED
      BY <2>1, <2>2, <2>3
  <1> QED
    BY <1>1, <1>2, <1>3, OwnSteps

\* A worker that lost its claim while its turn ran changes no status, claim,
\* lease or reason when it persists its outcome or releases for retry, even if
\* another worker holds the task by now.
THEOREM StaleWorkersHarmless == Spec => StaleWorkerHarmless
  <1>1. ClaimInv /\ [Next]_vars =>
          [\A w \in Workers :
             (/\ worker[w].place \in {"outcome", "failing", "releasing"}
              /\ worker'[w] # worker[w]
              /\ task[worker[w].task].token # worker[w].token) =>
                 \A t \in Tasks :
                     /\ task'[t].status = task[t].status
                     /\ task'[t].token = task[t].token
                     /\ task'[t].expired = task[t].expired
                     /\ task'[t].reason = task[t].reason
          ]_vars
    BY StaleWorkerStep
  <1> QED
    BY <1>1, InitClaims, NextClaims, PTL DEF Spec, StaleWorkerHarmless

LEMMA PlanLaneStep ==
  ASSUME ClaimInv, OutcomesFit, [Next]_vars, NEW t \in Tasks, AiPlan(task'[t])
  PROVE  AiPlan(task[t])
  <1>1. ASSUME NEW u \in Tasks, ServiceStep(u)
        PROVE  AiPlan(task[t])
    BY <1>1, ServiceStepSteady DEF ClaimInv, TypeOK
  <1>2. ASSUME NEW w \in Workers, WorkerEffect(w, t)
        PROVE  AiPlan(task[t])
    BY <1>2 DEF WorkerEffect, SameClaim, AiPlan, OutcomesFit, OutcomeOK
  <1> QED
    BY <1>1, <1>2, StepEffect DEF SameClaim, ClaimEffect, SweepEffect, AiPlan

\* No step of anybody puts a task of an AI owner into the lane of humans: not an
\* update of the status, not a change of the owner, not the outcome of a turn.
THEOREM PlanLaneKept == Spec => PlanLaneStaysHuman
  <1>1. ClaimInv /\ OutcomesFit /\ [Next]_vars =>
          [\A t \in Tasks :
             (task'[t].status = "plan" /\ task'[t].owner \in Employees) =>
                 (task[t].status = "plan" /\ task[t].owner \in Employees)]_vars
    BY PlanLaneStep DEF AiPlan
  <1> QED
    BY <1>1, InitClaims, NextClaims, InitOutcomes, NextOutcomes, PTL
    DEF Spec, PlanLaneStaysHuman

\* Whatever the policy has become since: who completes a task holds its claim
\* and copied a policy that asks for no review.
LEMMA CompletedByCopy ==
  ASSUME ClaimInv, OutcomesFit, [Next]_vars, NEW t \in Tasks,
         task[t].status # "completed", task'[t].status = "completed", worker' # worker
  PROVE  \E w \in Workers : /\ t = worker[w].task /\ task[t].token = worker[w].token
                            /\ worker[w].token # NoToken /\ ~worker[w].requiresReview
  <1>1. PICK w \in Workers : WorkerEffect(w, t)
    BY StepEffect DEF SameClaim, ClaimEffect, SweepEffect
  <1>2. /\ t = worker[w].task /\ task[t].token = worker[w].token /\ worker[w].token # NoToken
        /\ worker[w].result = "completed"
    BY <1>1 DEF WorkerEffect, SameClaim
  <1> QED
    BY <1>2 DEF OutcomesFit, OutcomeOK

\* As long as a claim lasts, its worker's copy of the review policy is right.
PolicyCopied == \A w \in Workers :
    (worker[w].token # NoToken /\ task[worker[w].task].token = worker[w].token) =>
        task[worker[w].task].requiresReview = worker[w].requiresReview

LEMMA PolicyKept ==
  ASSUME ClaimInv, [Next]_vars, "policy" \notin Operations, NEW t \in Tasks,
         task[t].token # NoToken
  PROVE  task'[t].requiresReview = task[t].requiresReview
  <1>1. task[t].status \in Active
    BY BackedToken
  <1>2. ASSUME NEW u \in Tasks, ServiceStep(u)
        PROVE  task'[t].requiresReview = task[t].requiresReview
    BY <1>1, <1>2, ServiceStepSteady DEF ClaimInv, TypeOK
  <1> QED
    BY <1>2, StepEffect DEF SameClaim, WorkerEffect, ClaimEffect, SweepEffect

LEMMA NextPolicyCopied ==
  ASSUME ClaimInv, OutcomesFit, PolicyCopied, [Next]_vars, "policy" \notin Operations
  PROVE  PolicyCopied'
  <1>0. TypeOK'
    BY NextType DEF ClaimInv
  <1> SUFFICES ASSUME NEW w \in Workers, worker'[w].token # NoToken,
                      task'[worker'[w].task].token = worker'[w].token
               PROVE  task'[worker'[w].task].requiresReview = worker'[w].requiresReview
    BY DEF PolicyCopied
  <1>1. CASE QuietStep
    <2>1. /\ worker'[w].token = worker[w].token /\ worker'[w].task = worker[w].task
          /\ ~Unclaimed(w)
      BY <1>1 DEF QuietStep, KeepsSnapshot, Idle, Unclaimed, ClaimInv, TokensIssued
    <2>2. worker[w].task \in Tasks /\ worker[w].token # NoToken
      BY <2>1, BusyToken
    <2>3. KeepsClaim(task[worker[w].task], task'[worker[w].task])
      BY <1>1, <2>1, <2>2 DEF QuietStep, Inherits, FreeRow
    <2>4. task[worker[w].task].requiresReview = worker[w].requiresReview
          /\ task[worker[w].task].token # NoToken
      BY <2>1, <2>2, <2>3 DEF KeepsClaim, PolicyCopied
    <2>5. task'[worker[w].task].requiresReview = task[worker[w].task].requiresReview
      BY <2>2, <2>4, PolicyKept
    <2>6. worker'[w].requiresReview = worker[w].requiresReview
      <3>1. ~ClaimTask(w)
        BY <2>1, SelectionFacts DEF ClaimTask, Unclaimed, ClaimInv
      <3>2. worker'[w].token # NoToken /\ worker'[w] # worker[w] =>
               ClaimStep(w) \/ Progress(w) \/ Disruption(w)
        BY OwnSteps
      <3> QED
        BY <2>1, <2>2, <3>1, <3>2, OutcomeKept
    <2> QED
      BY <2>1, <2>4, <2>5, <2>6
  <1>2. ASSUME NEW v \in Workers, ClaimTask(v)
        PROVE  task'[worker'[w].task].requiresReview = worker'[w].requiresReview
    <2>1. PICK c \in Selections(v) :
            /\ Claimable(c) /\ task' = Attempt(v, c)
            /\ worker' = [worker EXCEPT ![v] =
                 [Idle EXCEPT !.place = "claimed", !.task = c.task, !.token = issued + 1,
                              !.owner = task[c.task].owner,
                              !.executor = c.executor, !.source = c.source,
                              !.requiresReview = task[c.task].requiresReview]]
      BY <1>2 DEF ClaimTask
    <2> DEFINE t == c.task
    <2>2. /\ t \in Tasks /\ Before(v)[t] = task[t] /\ task[t] \in Row
          /\ task \in [Tasks -> Row] /\ Before(v) \in [Tasks -> Row]
      BY <2>1, SelectionFacts, BeforeType DEF ClaimInv, TypeOK, StoreTypeOK
    <2>3. task'[t] = ClaimRow(task[t], issued + 1, c.executor, c.source)
      BY <2>1, <2>2 DEF Attempt
    <2>4. task'[t].requiresReview = task[t].requiresReview /\ task'[t].token = issued + 1
      BY <2>2, <2>3 DEF ClaimRow, Row
    <2>5. CASE w = v
      <3>1. worker'[w].task = t /\ worker'[w].requiresReview = task[t].requiresReview
        BY <2>1, <2>5 DEF Idle, ClaimInv, TypeOK, RuntimeTypeOK
      <3> QED
        BY <2>4, <3>1
    <2>6. CASE w # v
      <3>1. worker'[w] = worker[w]
        BY <2>1, <2>6 DEF ClaimInv, TypeOK, RuntimeTypeOK
      <3>2. worker[w].token \in 1..issued /\ ~Unclaimed(w)
        BY <3>1 DEF ClaimInv, TokensIssued
      <3>3. worker[w].token # issued + 1
        <4>1. issued \in Nat
          BY StoreAssumption DEF StoreAssumption, ClaimInv, TypeOK, StoreTypeOK
        <4> QED
          BY <3>2, <4>1
      <3>4. worker[w].task # t /\ worker[w].task \in Tasks
        BY <2>4, <3>1, <3>2, <3>3, BusyToken
      <3>5. task'[worker[w].task] = Before(v)[worker[w].task]
        BY <2>1, <2>2, <3>4 DEF Attempt
      <3>6. Before(v)[worker[w].task] = task[worker[w].task]
        <4>1. Inherits(task[worker[w].task], Before(v)[worker[w].task])
          BY <3>4, BeforeInherits
        <4>2. task[worker[w].task].token # NoToken
          BY <3>1, <3>4, <3>5, <4>1 DEF Inherits, KeepsClaim, FreeRow
        <4> QED
          BY <3>4, <4>2, GuardedEffect DEF Before
      <3> QED
        BY <3>1, <3>5, <3>6 DEF PolicyCopied
    <2> QED
      BY <2>5, <2>6
  <1> QED
    BY <1>0, <1>1, <1>2, NextQuiet

\* As long as nobody edits the review policy of a task while a worker executes
\* it, no worker completes a task that asks for review: completion is left to
\* the reviewer, although the worker decides from a copy made at the claim.
THEOREM ReviewsPrecedeCompletion ==
  ASSUME "policy" \notin Operations
  PROVE  Spec => ReviewedBeforeDone
  <1>1. ClaimInv /\ OutcomesFit /\ PolicyCopied /\ [Next]_vars =>
          [\A t \in Tasks :
             (/\ task[t].status # "completed" /\ task'[t].status = "completed"
              /\ task[t].requiresReview) => worker' = worker]_vars
    BY CompletedByCopy DEF PolicyCopied
  <1>2. Init => PolicyCopied
    BY DEF Init, RuntimeInit, Idle, PolicyCopied
  <1>3. ClaimInv /\ OutcomesFit /\ PolicyCopied /\ [Next]_vars => PolicyCopied'
    BY NextPolicyCopied
  <1> QED
    BY <1>1, <1>2, <1>3, InitClaims, NextClaims, InitOutcomes, NextOutcomes, PTL
    DEF Spec, ReviewedBeforeDone
=============================================================================
