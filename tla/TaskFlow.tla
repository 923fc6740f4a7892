------------------------------ MODULE TaskFlow ------------------------------
(***************************************************************************)
(* Task Flow as a whole: the service and the background runtime on one     *)
(* store, the clock and the employee descriptors, and what the system      *)
(* promises.                                                               *)
(***************************************************************************)
EXTENDS TaskFlowService, TaskFlowRuntime

CONSTANT Operations     \* the service operations an instance exercises

vars == <<storeVars, runtimeVars>>

Init == StoreInit /\ RuntimeInit

\* Whom an update may leave the task with.
NextOwners(t) == IF "reassign" \in Operations THEN Owners ELSE {task[t].owner}

ServiceStep(t) ==
    \/ /\ "create" \in Operations
       /\ \E o \in Owners, v \in Reviewers, b \in ReviewFlags,
             D \in SUBSET (Tasks \ {t}) : Create(t, o, v, b, "default", D)
    \/ /\ "create_as" \in Operations
       /\ \E o \in Owners, v \in Reviewers, b \in ReviewFlags,
             s \in {"plan", "todo"},
             D \in SUBSET (Tasks \ {t}) : Create(t, o, v, b, s, D)
    \/ \E s \in SetStatuses, o \in NextOwners(t) : UpdateTask(t, s, o, "none", "unset")
    \/ \E c \in BlockReasons, g \in {"unset", "later"}, o \in NextOwners(t) :
          BlockTask(t, o, c, g)
    \/ \E o \in NextOwners(t) \ {task[t].owner} : UpdateTask(t, "keep", o, "none", "unset")
    \/ /\ "policy" \in Operations
       /\ \E v \in Reviewers, b \in ReviewFlags : UpdateReviewPolicy(t, v, b)
    \/ "review" \in Operations /\ ApproveReview(t)
    \/ /\ "review" \in Operations
       /\ \E o \in {task[t].owner, ClaimOwner(task[t])} : RequestChanges(t, o)
    \/ /\ "depend" \in Operations
       /\ \E d \in Tasks, on \in SatisfiedOn : AddDependency(t, d, on)
    \/ "undepend" \in Operations /\ \E d \in Tasks : RemoveDependency(t, d)
    \/ /\ "delegate" \in Operations
       /\ \E n \in Tasks, o \in Employees, b \in ReviewFlags, wait \in BOOLEAN :
             Delegate(t, n, o, b, wait)
    \/ "delete" \in Operations /\ Delete(t)
    \/ "delete_flow" \in Operations /\ \E ts \in SUBSET Tasks : t \in ts /\ DeleteFlow(ts)

ClaimStep(w) ==
    \/ ClaimNothing(w) \/ SelectTask(w) \/ ClaimMissed(w)
    \/ ClaimConflict(w) \/ ClaimRejected(w) \/ ClaimTask(w)

\* What a worker does of its own accord once it holds a claim.
Progress(w) ==
    \/ MarkStarted(w) \/ BuildTarget(w) \/ LeaseLost(w) \/ TurnEnds(w)
    \/ Finalize(w) \/ FinalizeLost(w) \/ Settle(w) \/ SettleMissing(w)
    \/ Release(w)

Disruption(w) == TryRaises(w) \/ Cancelled(w) \/ Dies(w)

EmployeeStep ==
    /\ "employees" \in Operations
    /\ \E e \in Employees : EmployeeStatusChanges(e)

ClockStep == \E t \in Tasks : LeaseExpires(t) \/ ReadyTimeComes(t)

Next ==
    \/ (\E t \in Tasks : ServiceStep(t)) /\ UNCHANGED runtimeVars
    \/ \E w \in Workers : ClaimStep(w) \/ Progress(w) \/ RefreshLease(w) \/ Disruption(w)
    \/ SweepExpiredClaims
    \/ (EmployeeStep \/ ClockStep) /\ UNCHANGED runtimeVars

Spec == Init /\ [][Next]_vars

Unattended(t) == \A w \in Workers : worker[w].token # task[t].token

\* A worker that is not disrupted goes on; a turn ends (its iterations and
\* provider calls are bounded); a lease nobody refreshes runs out; workers
\* poll, and so sweep, for ever.
Fairness ==
    /\ \A w \in Workers : WF_vars(Progress(w))
    /\ WF_vars(SweepExpiredClaims)
    /\ \A t \in Tasks : WF_vars(Unattended(t) /\ LeaseExpires(t) /\ UNCHANGED runtimeVars)

FairSpec == Spec /\ Fairness

TypeOK == StoreTypeOK /\ RuntimeTypeOK
----------------------------------------------------------------------------
(* What must always hold *)

\* Every claim is backed by the rest of the store: a task that carries a claim
\* token is claimed or running, records who executes it and what it was claimed
\* from, and points to the live run the claim created; and no task without a
\* token keeps the name of an executor.  Five code paths end a claim
\* (update_task, finalize, release, expiry, deletion) and one makes one.
ClaimIsBacked == \A t \in Tasks :
    IF task[t].token = NoToken THEN task[t].claimOwner = NoOwner
    ELSE /\ task[t].status \in Active
         /\ task[t].claimOwner \in Employees
         /\ task[t].source \in {"todo", "blocked", "review"}
         /\ task[t].lastRun = task[t].token
         /\ run[task[t].token].task = t
         /\ run[task[t].token].status \in LiveRun

\* At most one worker believes in a claim, and a worker that holds one works on
\* the claimed task as the recorded executor: the snapshot taken when the task
\* was claimed never speaks of another claim.
SnapshotsMatch == \A w \in Workers :
    worker[w].token # NoToken =>
        /\ run[worker[w].token].task = worker[w].task
        /\ \A v \in Workers \ {w} : worker[v].token # worker[w].token
        /\ task[worker[w].task].token = worker[w].token =>
               task[worker[w].task].claimOwner = worker[w].executor

\* A task that waits for its prerequisites still has one that is not satisfied,
\* or a worker is about to reconcile the dependents of one that is (finalizing
\* a task and waking its dependents are separate transactions).
NoLostWakeup == \A t \in Tasks :
    (Waiting(task[t]) /\ \E e \in deps : e.task = t) =>
        \/ ~AllSatisfied(task, deps, t)
        \/ \E e \in deps, w \in Workers :
              /\ e.task = t /\ worker[w].task = e.dep
              /\ worker[w].place \in {"settling", "settlingInHandler"}
              /\ worker[w].reconcile

\* Dependencies never form a cycle, whatever is added, delegated or deleted
\* (_ensure_no_dependency_cycle): a cycle would block its tasks for ever.
DependenciesAcyclic == \A e \in deps : ~Reaches(deps, e.dep, e.task)

----------------------------------------------------------------------------
(* What no step may do *)

\* A claim whose lease has not run out ends only by a step of the worker that
\* holds it or by an operation of the service (which touches neither workers
\* nor the run of the claim): the sweep of expired claims never takes a lease
\* that was refreshed in time.
LiveClaimRespected == [][\A t \in Tasks :
    (/\ task[t].token # NoToken /\ ~task[t].expired
     /\ task'[t].token # task[t].token) =>
        \/ worker' = worker /\ run'[task[t].token] = run[task[t].token]
        \/ \E w \in Workers : worker[w].token = task[t].token /\ worker'[w] # worker[w]
    ]_vars

\* A worker that lost its claim while its turn ran cannot disturb what the task
\* has become since, possibly under a claim of another worker: persisting its
\* outcome or releasing for retry leaves status, claim and reason of every task.
StaleWorkerHarmless == [][\A w \in Workers :
    (/\ worker[w].place \in {"outcome", "failing", "releasing"}
     /\ worker'[w] # worker[w]
     /\ task[worker[w].task].token # worker[w].token) =>
        \A t \in Tasks :
            /\ task'[t].status = task[t].status
            /\ task'[t].token = task[t].token
            /\ task'[t].expired = task[t].expired
            /\ task'[t].reason = task[t].reason
    ]_vars

\* No operation puts a task into the human-only PLAN lane under an AI owner, be
\* it by moving the task or by changing the owner of one that is there.
PlanLaneStaysHuman == [][\A t \in Tasks :
    (task'[t].status = "plan" /\ task'[t].owner \in Employees) =>
        (task[t].status = "plan" /\ task[t].owner \in Employees)
    ]_vars

\* A task is claimed for work only when every prerequisite is in the status its
\* edge asks for at that moment, however long ago the task was promoted.
NoEarlyClaim == [][\A t \in Tasks :
    (/\ task'[t].token # task[t].token
     /\ task'[t].source \in {"todo", "blocked"}) => AllSatisfied(task, deps, t)
    ]_vars

\* A worker never completes a task that asks for review: its turn ends in the
\* review lane and completion is left to the reviewer's decision.
ReviewedBeforeDone == [][\A t \in Tasks :
    (/\ task[t].status # "completed" /\ task'[t].status = "completed"
     /\ task[t].requiresReview) => worker' = worker
    ]_vars

----------------------------------------------------------------------------
(* What must eventually happen, under FairSpec *)

\* A claim is not held for ever: its worker settles it, or its lease runs out
\* and the sweep releases it, also when the worker was killed or refused.
ClaimsEnd == \A t \in Tasks, r \in Runs :
    task[t].token = r ~> task[t].token # r

\* A dependent whose prerequisites are all satisfied does not wait for ever.
Awake(t) ==
    ~Waiting(task[t]) \/ ~(\E e \in deps : e.task = t) \/ ~AllSatisfied(task, deps, t)

DependentsWake == \A t \in Tasks : []<>Awake(t)

\* That much holds as long as no worker was cancelled, killed or failed between
\* completing the prerequisite and waking the dependents.
DependentsWakeUndisturbed == \A t \in Tasks : []<>(Awake(t) \/ crashes > 0)

\* Every execution attempt gets a final record, if no worker was stopped while the
\* service took its task away (nothing else closes the run of a lost claim).
RunsClose == \A r \in Runs :
    run[r].status \in LiveRun ~> run[r].status \notin LiveRun \/ crashes > 0

----------------------------------------------------------------------------
(* The claims of Task Flow implement ClaimSlots. *)

Slots == INSTANCE ClaimSlots WITH
    Free <- [token |-> NoToken, executor |-> NoOwner], MaxClaims <- MaxRuns,
    holder <- [t \in Tasks |->
                 [token |-> task[t].token, executor |-> task[t].claimOwner]]

\* Whatever runs concurrently, claims behave as ClaimSlots says: one claim for
\* each task and for each employee, tokens never reused or handed over.
ClaimsAreSlots == Slots!Spec
=============================================================================
