----------------------------- MODULE Subagents -----------------------------
(***************************************************************************)
(* Background tasks of subagents.  A call of run() inserts a row and starts*)
(* a worker, as a process or as a coroutine; the worker claims the row,    *)
(* runs a child turn, looks at the row while it waits for it, and writes a *)
(* final status.  Callers, of the same service or of another instance,     *)
(* wait for the task, read its result, or cancel it.  They meet in the     *)
(* table subagent_task only.  A step is one transaction, or what the code  *)
(* does between two of them.                                               *)
(*                                                                         *)
(* Abstractions.  Time is kept as far as it is compared: late has the tasks*)
(* past their limit and grace, a finished row is past its retention or not *)
(* (any choice).  Outputs and reasons are left out, the status stands for  *)
(* them.  One call of run() for each task; its refusals change nothing.    *)
(***************************************************************************)
EXTENDS Integers, FiniteSets

CONSTANTS
    Tasks,          \* calls of run()
    Callers,        \* callers of wait(), result(), cancel() and session.job.run
    Local,          \* those of the service instance that launches the tasks
    NoTask,         \* no task
    MaxCrashes      \* bound: processes killed, services shut down, calls that raise

ASSUME SubagentAssumption ==
    Local \subseteq Callers /\ NoTask \notin Tasks /\ MaxCrashes \in Nat

VARIABLES
    mode,       \* launch mode of the service: workers are processes or coroutines
    row,        \* table subagent_task: the status, "none" before, "deleted" after
    begun,      \* tasks whose row has started_at
    late,       \* tasks past started_at, or created_at, plus limit and grace
    worker,     \* where the execution of a task is
    handle,     \* tasks whose worker the launching service can stop
    turn,       \* the child turn of a task
    caller,     \* where a caller is, with which task, and what it will answer
    told,       \* history: what callers were told about a task
    lost,       \* history: tasks whose worker went away without a word
    crashes     \* processes killed, services shut down, calls that raised (bounded)

vars == <<mode, row, begun, late, worker, handle, turn, caller, told, lost, crashes>>

Final == {"completed", "failed", "cancelled", "timeout"}

Places == {"none", "accepted", "spawned", "claimed", "watching", "stopping",
           "completing", "failing", "expiring", "cancelling", "gone", "never"}

Caller == [at : {"idle", "waiting", "cancelling", "stopping", "writing"},
           task : Tasks \cup {NoTask}, reply : {"none", "cancelled", "timeout"}]

Idle == [at |-> "idle", task |-> NoTask, reply |-> "none"]

\* read: the status in the row; raced, given_up: what was said without a look at
\* it; unchecked: what a job said when a call of the service had failed.
Answer == [status : Final, how : {"read", "raced", "given_up", "unchecked"}]

TypeOK ==
    /\ mode \in {"inline", "process"}
    /\ row \in [Tasks -> Final \cup {"none", "running", "deleted"}]
    /\ begun \subseteq {t \in Tasks : row[t] # "none"}
    /\ late \subseteq {t \in Tasks : row[t] # "none"}
    /\ worker \in [Tasks -> Places]
    /\ handle \subseteq Tasks
    /\ turn \in [Tasks -> {"none", "running", "good", "bad", "stopped"}]
    /\ caller \in [Callers -> Caller]
    /\ told \in [Tasks -> SUBSET Answer]
    /\ lost \subseteq Tasks /\ crashes \in 0..MaxCrashes

----------------------------------------------------------------------------
(* The table *)

\* Broken: the status in the WHERE clause is forgotten.
FinishAny(rows, t, status) ==
    IF rows[t] # "deleted" THEN [rows EXCEPT ![t] = status] ELSE rows

\* finish_task: one running row gets its final status, once.
Finish(rows, t, status) ==
    IF rows[t] = "running" THEN [rows EXCEPT ![t] = status] ELSE rows

\* delete_finished_before, which every call does first: some finished rows
\* are past their retention.
Pruned(old) == [t \in Tasks |-> IF t \in old THEN "deleted" ELSE row[t]]
Prunable == {t \in Tasks : row[t] \in Final}

\* Broken: a task that never started has no deadline.
OverdueStarted(t) == t \in late /\ t \in begun

\* is_task_overdue.
Overdue(t) == t \in late

\* load_state with mark_overdue_timeout.
Loaded(rows, t) == IF Overdue(t) THEN Finish(rows, t, "timeout") ELSE rows

\* Broken: a row that is gone counts as one that still runs.
EndedSeen(t) == row[t] \in Final

\* _load_task_state, as the worker asks it.
Ended(t) == row[t] # "running"

Crash == crashes < MaxCrashes /\ crashes' = crashes + 1

Moved(t, place) == [worker EXCEPT ![t] = place]
Stops(t) == [turn EXCEPT ![t] = IF @ = "running" THEN "stopped" ELSE @]
Alive(t) == worker[t] \notin {"none", "accepted", "gone", "never"}
Known(t) == worker[t] \notin {"none", "accepted", "never"}

\* Broken: a caller that wants no answer is given one.
TellAlways(t, status, how) ==
    told' = [told EXCEPT ![t] = @ \cup {[status |-> status, how |-> how]}]

\* A caller that was cancelled itself is told nothing.
Tell(t, status, how) ==
    told' = IF status \in Final
            THEN [told EXCEPT ![t] = @ \cup {[status |-> status, how |-> how]}]
            ELSE told

----------------------------------------------------------------------------
(* Acceptance: SubagentLifecycle.run *)

Run(t) ==
    /\ row[t] = "none"
    /\ \E old \in SUBSET Prunable : row' = [Pruned(old) EXCEPT ![t] = "running"]
    /\ worker' = Moved(t, "accepted")
    /\ UNCHANGED <<mode, begun, late, handle, turn, caller, told, lost, crashes>>

Spawn(t) ==
    /\ worker[t] = "accepted"
    /\ worker' = Moved(t, "spawned") /\ handle' = handle \cup {t}
    /\ UNCHANGED <<mode, row, begun, late, turn, caller, told, lost, crashes>>

\* The caller of run() gets an error and no task id.
SpawnFails(t) ==
    /\ worker[t] = "accepted"
    /\ worker' = Moved(t, "never") /\ row' = Finish(row, t, "failed")
    /\ UNCHANGED <<mode, begun, late, handle, turn, caller, told, lost, crashes>>

----------------------------------------------------------------------------
(* Execution: SubagentExecutor and SubagentRunner *)

\* claim_task_start.
Start(t) ==
    /\ worker[t] = "spawned"
    /\ \E old \in SUBSET Prunable : row' = Pruned(old)
    /\ IF row[t] = "running" /\ t \notin begun
       THEN /\ worker' = Moved(t, "claimed")
            /\ begun' = begun \cup {t} /\ late' = late \ {t}
       ELSE worker' = Moved(t, "gone") /\ UNCHANGED <<begun, late>>
    /\ UNCHANGED <<mode, handle, turn, caller, told, lost, crashes>>

\* The descriptor is missing, or no provider is configured.
CannotExecute(t) ==
    /\ worker[t] = "claimed"
    /\ worker' = Moved(t, "failing")
    /\ UNCHANGED <<mode, row, begun, late, handle, turn, caller, told, lost, crashes>>

\* Another error while the descriptor is read is caught by nobody.
LoadRaises(t) ==
    /\ worker[t] = "claimed"
    /\ worker' = Moved(t, "gone") /\ lost' = lost \cup {t}
    /\ UNCHANGED <<mode, row, begun, late, handle, turn, caller, told, crashes>>

BeginTurn(t) ==
    /\ worker[t] = "claimed"
    /\ worker' = Moved(t, "watching") /\ turn' = [turn EXCEPT ![t] = "running"]
    /\ UNCHANGED <<mode, row, begun, late, handle, caller, told, lost, crashes>>

\* The child session finalizes, or fails, or gives in to its cancellation.
TurnEnds(t) ==
    /\ turn[t] = "running"
    /\ \E how \in {"good", "bad"} : turn' = [turn EXCEPT ![t] = how]
    /\ UNCHANGED <<mode, row, begun, late, worker, handle, caller, told, lost, crashes>>

\* A result that comes within the grace is taken like any other.
Returned(t) ==
    /\ worker[t] \in {"watching", "stopping"} /\ turn[t] \in {"good", "bad"}
    /\ worker' = Moved(t, IF turn[t] = "good" THEN "completing" ELSE "failing")
    /\ UNCHANGED <<mode, row, begun, late, handle, turn, caller, told, lost, crashes>>

\* The poll of _await_child_result: the turn is asked to end.
NoticeEnded(t) ==
    /\ worker[t] = "watching" /\ turn[t] = "running" /\ Ended(t)
    /\ worker' = Moved(t, "stopping")
    /\ UNCHANGED <<mode, row, begun, late, handle, turn, caller, told, lost, crashes>>

GraceEnds(t) ==
    /\ worker[t] = "stopping" /\ turn[t] = "running"
    /\ turn' = Stops(t) /\ worker' = Moved(t, "failing")
    /\ UNCHANGED <<mode, row, begun, late, handle, caller, told, lost, crashes>>

\* wait_for in the executor; during the grace the cancellation is swallowed.
TimeLimit(t) ==
    /\ worker[t] \in {"watching", "stopping"}
    /\ turn' = Stops(t)
    /\ worker' = Moved(t, IF worker[t] = "watching" THEN "expiring" ELSE "failing")
    /\ UNCHANGED <<mode, row, begun, late, handle, caller, told, lost, crashes>>

Verdict(t) == CASE worker[t] = "completing" -> "completed"
                [] worker[t] = "failing" -> "failed"
                [] worker[t] = "expiring" -> "timeout"
                [] worker[t] = "cancelling" -> "cancelled"

\* The transitions of SubagentStateTransitions.
Settle(t) ==
    /\ worker[t] \in {"completing", "failing", "expiring", "cancelling"}
    /\ row' = Finish(row, t, Verdict(t))
    /\ worker' = Moved(t, "gone") /\ handle' = handle \ {t}
    /\ UNCHANGED <<mode, begun, late, turn, caller, told, lost, crashes>>

\* A statement of the worker fails.  Under the try block the crash is written, and
\* the turn is stopped before; outside of it, and in its handlers, nobody writes.
StepRaises(t) ==
    /\ Crash
    /\ \/ /\ worker[t] \in {"watching", "stopping", "completing"}
          /\ worker' = Moved(t, "failing") /\ turn' = Stops(t)
          /\ UNCHANGED <<handle, lost>>
       \/ /\ worker[t] \in {"spawned", "failing", "expiring", "cancelling"}
          /\ worker' = Moved(t, "gone") /\ handle' = handle \ {t} /\ lost' = lost \cup {t}
          /\ UNCHANGED turn
    /\ UNCHANGED <<mode, row, begun, late, caller, told>>

----------------------------------------------------------------------------
(* Stopping a worker: SubagentLauncher.cancel *)

\* A process dies where it is.  A coroutine gets a CancelledError: within the
\* try block it goes on to write `cancelled`, outside of it is the end.
PlaceStopped(place) ==
    CASE mode = "process" \/ place \in {"spawned", "claimed"} -> "gone"
      [] place \in {"watching", "completing"} -> "cancelling"
      [] place = "stopping" -> "failing"
      [] OTHER -> "gone"

StopsAll(stopped) ==
    /\ worker' = [t \in Tasks |->
                     IF t \in stopped THEN PlaceStopped(worker[t]) ELSE worker[t]]
    /\ turn' = [t \in Tasks |-> IF t \in stopped THEN Stops(t)[t] ELSE turn[t]]
    /\ handle' = handle \ stopped

----------------------------------------------------------------------------
(* Callers *)

\* wait(), of subagent.wait or as a slice of session.job.run.
Wait(c, t) ==
    /\ caller[c] = Idle /\ Known(t)
    /\ \E old \in SUBSET Prunable : row' = Pruned(old)
    /\ caller' = [caller EXCEPT ![c] = [Idle EXCEPT !.at = "waiting", !.task = t]]
    /\ UNCHANGED <<mode, begun, late, worker, handle, turn, told, lost, crashes>>

\* load_state, of rows, by wait() and result(): an answer that is not final lets
\* wait() go on.
Reads(c, t, rows) ==
    LET loaded == Loaded(rows, t) IN
    /\ row' = loaded
    /\ Tell(t, loaded[t], "read")
    /\ caller' = [caller EXCEPT ![c] = IF loaded[t] = "running" THEN @ ELSE Idle]
    /\ UNCHANGED <<mode, begun, late, worker, handle, turn, lost, crashes>>

Poll(c) == caller[c].at = "waiting" /\ Reads(c, caller[c].task, row)

Result(c, t) ==
    /\ caller[c] = Idle /\ Known(t)
    /\ \E old \in SUBSET Prunable : Reads(c, t, Pruned(old))

\* The time to wait is over, at a poll that found the task running.
StillRuns(c) ==
    /\ caller[c].at = "waiting"
    /\ row[caller[c].task] = "running" /\ ~Overdue(caller[c].task)

WaitEnds(c) ==
    /\ StillRuns(c)
    /\ caller' = [caller EXCEPT ![c] = Idle]
    /\ UNCHANGED <<mode, row, begun, late, worker, handle, turn, told, lost, crashes>>

Cancel(c, t) ==
    /\ caller[c] = Idle /\ Known(t)
    /\ caller' = [caller EXCEPT ![c] = [at |-> "cancelling", task |-> t,
                                        reply |-> "cancelled"]]
    /\ UNCHANGED <<mode, row, begun, late, worker, handle, turn, told, lost, crashes>>

\* session.job.run has waited as long as the task may take and cancels it, or is
\* cancelled itself and takes the task with it.
JobGivesUp(c, reply) ==
    /\ IF reply = "timeout" THEN StillRuns(c) ELSE caller[c].at = "waiting"
    /\ caller' = [caller EXCEPT ![c].at = "cancelling", ![c].reply = reply]
    /\ UNCHANGED <<mode, row, begun, late, worker, handle, turn, told, lost, crashes>>

\* cancel() looks at the row first.
LookBeforeCancel(c) ==
    LET t == caller[c].task IN
    /\ caller[c].at = "cancelling"
    /\ \E old \in SUBSET Prunable :
           LET rows == Pruned(old) IN
           /\ row' = rows
           /\ IF rows[t] = "running"
              THEN caller' = [caller EXCEPT ![c].at = "stopping"] /\ UNCHANGED told
              ELSE /\ caller' = [caller EXCEPT ![c] = Idle]
                   /\ IF caller[c].reply = "cancelled"
                      THEN Tell(t, rows[t], "read")
                      ELSE Tell(t, caller[c].reply, "given_up")
    /\ UNCHANGED <<mode, begun, late, worker, handle, turn, lost, crashes>>

\* wait() or result() raises: to a caller that is a job this is an answer, `failed`.
WaitRaises(c) ==
    /\ caller[c].at = "waiting" /\ Crash
    /\ caller' = [caller EXCEPT ![c] = Idle]
    /\ UNCHANGED told \/ Tell(caller[c].task, "failed", "unchecked")
    /\ UNCHANGED <<mode, row, begun, late, worker, handle, turn, lost>>

\* cancel() raises, perhaps after it stopped the worker.  A job that gave up ignores
\* that (_cancel_accepted_subagents) and answers `timeout`.
CancelRaises(c) ==
    LET t == caller[c].task IN
    /\ caller[c].at \in {"cancelling", "stopping", "writing"} /\ Crash
    /\ caller' = [caller EXCEPT ![c] = Idle]
    /\ IF caller[c].reply = "timeout" THEN Tell(t, "timeout", "unchecked") ELSE UNCHANGED told
    /\ lost' = IF caller[c].at = "writing" /\ worker[t] = "gone" THEN lost \cup {t} ELSE lost
    /\ UNCHANGED <<mode, row, begun, late, worker, handle, turn>>

\* The launcher stops the worker if it is one of its own.
StopWorker(c) ==
    /\ caller[c].at = "stopping"
    /\ caller' = [caller EXCEPT ![c].at = "writing"]
    /\ StopsAll(IF c \in Local THEN handle \cap {caller[c].task} ELSE {})
    /\ UNCHANGED <<mode, row, begun, late, told, lost, crashes>>

\* `cancelled` is the answer whether or not the row had ended meanwhile.
WriteCancel(c) ==
    LET t == caller[c].task IN
    /\ caller[c].at = "writing"
    /\ row' = Finish(row, t, "cancelled")
    /\ Tell(t, caller[c].reply,
            IF caller[c].reply = "timeout" THEN "given_up"
            ELSE IF row[t] = "running" THEN "read" ELSE "raced")
    /\ caller' = [caller EXCEPT ![c] = Idle]
    /\ UNCHANGED <<mode, begun, late, worker, handle, turn, lost, crashes>>

----------------------------------------------------------------------------
(* Clock, shutdown and crashes *)

LimitPasses(t) ==
    /\ row[t] = "running" /\ t \notin late
    /\ late' = late \cup {t}
    /\ UNCHANGED <<mode, row, begun, worker, handle, turn, caller, told, lost, crashes>>

\* SubagentService.shutdown: nobody writes the status of a stopped process.
Shutdown ==
    /\ Crash
    /\ StopsAll(handle)
    /\ lost' = lost \cup {t \in handle : Alive(t) /\ worker'[t] = "gone"}
    /\ UNCHANGED <<mode, row, begun, late, caller, told>>

WorkerDies(t) ==
    /\ mode = "process" /\ Alive(t)
    /\ Crash
    /\ worker' = Moved(t, "gone") /\ turn' = Stops(t) /\ lost' = lost \cup {t}
    /\ UNCHANGED <<mode, row, begun, late, handle, caller, told>>

\* The process of the launching service dies, with its coroutines and callers.
ServiceDies ==
    LET unborn == {t \in Tasks : worker[t] = "accepted"}
        inside == {t \in Tasks : mode = "inline" /\ Alive(t)}
        cut == {c \in Local : caller[c].at = "writing"}
    IN  /\ Crash
        /\ worker' = [t \in Tasks |-> CASE t \in unborn -> "never"
                                        [] t \in inside -> "gone"
                                        [] OTHER -> worker[t]]
        /\ turn' = [t \in Tasks |-> IF t \in inside THEN Stops(t)[t] ELSE turn[t]]
        /\ handle' = {}
        /\ caller' = [c \in Callers |-> IF c \in Local THEN Idle ELSE caller[c]]
        /\ lost' = lost \cup unborn \cup inside \cup {caller[c].task : c \in cut}
        /\ UNCHANGED <<mode, row, begun, late, told>>

----------------------------------------------------------------------------
Init ==
    /\ mode \in {"inline", "process"}
    /\ row = [t \in Tasks |-> "none"]
    /\ begun = {} /\ late = {} /\ handle = {} /\ lost = {}
    /\ worker = [t \in Tasks |-> "none"]
    /\ turn = [t \in Tasks |-> "none"]
    /\ caller = [c \in Callers |-> Idle]
    /\ told = [t \in Tasks |-> {}]
    /\ crashes = 0

\* What the executor does next, unless it waits for the turn.
Proceeds(t) ==
    \/ Spawn(t) \/ SpawnFails(t) \/ Start(t) \/ CannotExecute(t) \/ LoadRaises(t)
    \/ BeginTurn(t) \/ Returned(t) \/ NoticeEnded(t) \/ GraceEnds(t) \/ Settle(t)

\* What a call that was made does next.
Answers(c) == Poll(c) \/ LookBeforeCancel(c) \/ StopWorker(c) \/ WriteCancel(c)

Next ==
    \/ \E t \in Tasks : \/ Run(t) \/ Proceeds(t) \/ TurnEnds(t) \/ TimeLimit(t)
                        \/ LimitPasses(t) \/ WorkerDies(t) \/ StepRaises(t)
                        \/ \E c \in Callers : Wait(c, t) \/ Result(c, t) \/ Cancel(c, t)
    \/ \E c \in Callers : \/ Answers(c) \/ WaitEnds(c) \/ WaitRaises(c) \/ CancelRaises(c)
                          \/ \E reply \in {"timeout", "none"} : JobGivesUp(c, reply)
    \/ Shutdown \/ ServiceDies

Spec == Init /\ [][Next]_vars

\* The time limit and the end of the turn are left out: see TasksEnd.
FairSpec ==
    /\ Spec
    /\ \A t \in Tasks : WF_vars(Proceeds(t)) /\ WF_vars(LimitPasses(t))
    /\ \A c \in Callers : WF_vars(Answers(c))

----------------------------------------------------------------------------
(* Properties *)

\* Whoever was given an answer about a task, by wait, result, cancel or a job
\* that gave up, was told of a task that has ended; and what was read of its
\* end stays true, whichever of worker, canceller and overdue check came first.
\* Not so the answer of a job to which wait() or cancel() raised: `failed` and
\* `timeout` are then said of a task that may run on (plugin.py:286 and 355).
AnswersHold ==
    \A t \in Tasks : \A a \in told[t] :
        /\ a.how # "unchecked" => row[t] # "running"
        /\ a.how = "read" => row[t] \in {a.status, "deleted"}

\* The child turn of a task that has ended, even when its row is already
\* deleted, is brought to its end by the worker's poll: without the turn ending
\* of itself, and without the time limit of the task.
NoOrphanTurn ==
    \A t \in Tasks : row[t] # "running" /\ turn[t] = "running" ~> turn[t] # "running"

\* With the time limit of the executor, an accepted task ends, or its worker went
\* away without a word, killed or by an error it could not write; and then it
\* ends for whoever keeps waiting for it.
TasksEnd ==
    (\A t \in Tasks : WF_vars(TimeLimit(t))) =>
        \A t \in Tasks :
            /\ row[t] = "running" ~> row[t] # "running" \/ t \in lost
            /\ \A c \in Callers :
                   row[t] = "running" /\ caller[c].task = t ~>
                       row[t] # "running" \/ caller[c].task # t
=============================================================================
