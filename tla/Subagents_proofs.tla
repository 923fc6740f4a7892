-------------------------- MODULE Subagents_proofs --------------------------
(***************************************************************************)
(* The answers callers get about a background task stay true.              *)
(*                                                                         *)
(* Five paths write the status of a row (the worker, the canceller, the    *)
(* overdue check, a failed spawn, the clean-up of old rows), each in a     *)
(* statement of its own, and callers are told what one of them did or what *)
(* they read.  The order of the statuses makes the answers hold: a row     *)
(* moves from running to a final status and from there to deletion, and    *)
(* nobody is told of a task whose row is not there yet.                    *)
(***************************************************************************)
EXTENDS Subagents, TLAPS

\* Who works on a task, can stop it, waits for it or was told about it knows a row.
WorkersKnow == \A t \in Tasks :
    (worker[t] # "none" \/ t \in handle \/ told[t] # {}) => row[t] # "none"
CallersKnow == \A c \in Callers :
    caller[c].at # "idle" => caller[c].task \in Tasks /\ row[caller[c].task] # "none"

AnswerInv == TypeOK /\ WorkersKnow /\ CallersKnow /\ AnswersHold

\* The statuses a row may have next.
Follows(old, new) ==
    \/ new = old
    \/ old = "none" /\ new = "running"
    \/ old = "running" /\ new \in Final
    \/ old \in Final /\ new = "deleted"

Rows == [Tasks -> Final \cup {"none", "running", "deleted"}]
RowsFollow(rows) == rows \in Rows /\ \A t \in Tasks : Follows(row[t], rows[t])
\* No row appears.
RowsEnd(rows) == RowsFollow(rows) /\ \A t \in Tasks : row[t] = "none" => rows[t] = "none"

----------------------------------------------------------------------------
(* The table *)

LEMMA PrunedEnd ==
  ASSUME TypeOK, NEW old \in SUBSET Prunable
  PROVE  RowsEnd(Pruned(old))
  BY DEF TypeOK, Prunable, Pruned, Rows, RowsFollow, RowsEnd, Follows, Final

LEMMA RowEnd ==
  ASSUME TypeOK
  PROVE  RowsEnd(row)
  BY DEF TypeOK, Rows, RowsFollow, RowsEnd, Follows

LEMMA FinishEnd ==
  ASSUME TypeOK, NEW rows, RowsEnd(rows), NEW t \in Tasks, NEW status \in Final
  PROVE  /\ RowsEnd(Finish(rows, t, status))
         /\ rows[t] # "none" => Finish(rows, t, status)[t] \notin {"none", "running"}
         /\ rows[t] # "running" => Finish(rows, t, status) = rows
         /\ rows[t] = "running" => Finish(rows, t, status)[t] = status
  <1>1. CASE rows[t] = "running"
    <2>1. Finish(rows, t, status) = [rows EXCEPT ![t] = status]
      BY <1>1 DEF Finish
    <2>2. row[t] = "running"
      BY <1>1 DEF RowsEnd, RowsFollow, Follows, Final
    <2>3. [rows EXCEPT ![t] = status] \in Rows /\ [rows EXCEPT ![t] = status][t] = status
      BY DEF RowsEnd, RowsFollow, Rows
    <2>4. \A u \in Tasks \ {t} : [rows EXCEPT ![t] = status][u] = rows[u]
      BY DEF RowsEnd, RowsFollow, Rows
    <2>5. RowsEnd([rows EXCEPT ![t] = status])
      BY <2>2, <2>3, <2>4 DEF RowsEnd, RowsFollow, Follows
    <2>6. status \notin {"none", "running"}
      BY DEF Final
    <2> QED
      BY <1>1, <2>1, <2>3, <2>5, <2>6
  <1>2. CASE rows[t] # "running"
    BY <1>2 DEF Finish
  <1> QED
    BY <1>1, <1>2

LEMMA LoadedEnd ==
  ASSUME TypeOK, NEW rows, RowsEnd(rows), NEW t \in Tasks
  PROVE  RowsEnd(Loaded(rows, t))
  BY FinishEnd DEF Loaded, Final

\* The types of what refers to rows follow those of the rows.
LEMMA StepTypes ==
  ASSUME TypeOK, RowsFollow(row'), mode' = mode,
         \A t \in begun' \cup late' : t \in begun \cup late \/ row[t] # "none",
         begun' \cup late' \subseteq Tasks,
         worker' \in [Tasks -> Places], handle' \subseteq Tasks,
         turn' \in [Tasks -> {"none", "running", "good", "bad", "stopped"}],
         caller' \in [Callers -> Caller], told' \in [Tasks -> SUBSET Answer],
         lost' \subseteq Tasks, crashes' \in 0..MaxCrashes
  PROVE  TypeOK'
  <1>1. \A t \in begun' \cup late' : t \in Tasks /\ row'[t] # "none"
    BY DEF TypeOK, RowsFollow, Follows, Final
  <1>2. row' \in [Tasks -> Final \cup {"none", "running", "deleted"}]
    BY DEF RowsFollow, Rows
  <1> QED
    BY <1>1, <1>2 DEF TypeOK

\* A step that tells nobody anything keeps the answers.
LEMMA QuietKeeps ==
  ASSUME AnswerInv, TypeOK', RowsFollow(row'), told' = told,
         \A u \in Tasks : worker'[u] = "none" \/ worker[u] # "none" \/ row'[u] # "none",
         \A u \in handle' : u \in handle \/ row'[u] # "none",
         \A d \in Callers : \/ caller'[d] = caller[d] \/ caller'[d].at = "idle"
                            \/ caller'[d].task \in Tasks /\ row[caller'[d].task] # "none"
  PROVE  AnswerInv'
  <1>1. \A t \in Tasks : row[t] # "none" => row'[t] # "none"
    BY DEF RowsFollow, Follows, Final
  <1>2. WorkersKnow'
    BY <1>1 DEF AnswerInv, WorkersKnow
  <1>3. CallersKnow'
    BY <1>1 DEF AnswerInv, CallersKnow
  <1>4. AnswersHold'
    BY DEF AnswerInv, AnswersHold, WorkersKnow, RowsFollow, Follows, Final
  <1> QED
    BY <1>2, <1>3, <1>4 DEF AnswerInv

----------------------------------------------------------------------------
(* What callers are told *)

\* Telling the caller what the row says, once it is final.
LEMMA TellHolds ==
  ASSUME AnswerInv, RowsEnd(row'), NEW t \in Tasks, row[t] # "none",
         NEW status, NEW how \in {"read", "raced", "given_up", "unchecked"},
         Tell(t, status, how),
         status \in Final /\ how # "unchecked" => row'[t] # "running",
         status \in Final /\ how = "read" => row'[t] \in {status, "deleted"}
  PROVE  /\ told' \in [Tasks -> SUBSET Answer]
         /\ AnswersHold'
         /\ \A u \in Tasks : told'[u] # told[u] => u = t
  <1>1. CASE status \in Final
    <2> DEFINE a == [status |-> status, how |-> how]
    <2>1. a \in Answer /\ a.status = status /\ a.how = how
      BY <1>1 DEF Answer
    <2>2. told' = [told EXCEPT ![t] = told[t] \cup {a}]
      BY <1>1 DEF Tell
    <2> HIDE DEF a
    <2>3. told' \in [Tasks -> SUBSET Answer] /\ \A u \in Tasks : told'[u] # told[u] => u = t
      BY <2>1, <2>2 DEF AnswerInv, TypeOK
    <2>4. ASSUME NEW u \in Tasks, NEW b \in told'[u]
          PROVE  /\ b.how # "unchecked" => row'[u] # "running"
                 /\ b.how = "read" => row'[u] \in {b.status, "deleted"}
      <3>1. CASE b \in told[u]
        BY <3>1 DEF AnswerInv, AnswersHold, WorkersKnow, RowsEnd, RowsFollow, Follows, Final
      <3>2. CASE b \notin told[u]
        <4>1. u = t /\ b = a
          BY <2>2, <2>3, <2>4, <3>2 DEF AnswerInv, TypeOK
        <4> QED
          BY <1>1, <2>1, <4>1
      <3> QED
        BY <3>1, <3>2
    <2> QED
      BY <2>3, <2>4 DEF AnswersHold
  <1>2. CASE status \notin Final
    BY <1>2 DEF Tell, AnswerInv, TypeOK, AnswersHold, WorkersKnow, RowsEnd, RowsFollow, Follows, Final
  <1> QED
    BY <1>1, <1>2

\* A step of a caller: it tells at most what is so, and moves no worker but to an end.
LEMMA CallerStep ==
  ASSUME AnswerInv, TypeOK', RowsEnd(row'), AnswersHold',
         worker' = worker, handle' = handle,
         \A u \in Tasks : told'[u] # told[u] => row[u] # "none",
         \A d \in Callers : \/ caller'[d] = caller[d] \/ caller'[d].at = "idle"
                            \/ caller'[d].task \in Tasks /\ row[caller'[d].task] # "none"
  PROVE  AnswerInv'
  <1>1. \A t \in Tasks : row[t] # "none" => row'[t] # "none"
    BY DEF RowsEnd, RowsFollow, Follows, Final
  <1>2. WorkersKnow'
    BY <1>1 DEF AnswerInv, WorkersKnow
  <1>3. CallersKnow'
    BY <1>1 DEF AnswerInv, CallersKnow
  <1> QED
    BY <1>2, <1>3 DEF AnswerInv
----------------------------------------------------------------------------
(* The steps of workers, of the clock and of a shutdown *)

LEMMA RowFollows ==
  ASSUME TypeOK
  PROVE  /\ RowsFollow(row)
         /\ \A t \in Tasks, status \in Final : RowsFollow(Finish(row, t, status))
  BY RowEnd, FinishEnd DEF RowsEnd

LEMMA WorkerMoves ==
  ASSUME TypeOK, NEW t \in Tasks, NEW place \in Places, worker' = Moved(t, place)
  PROVE  /\ worker' \in [Tasks -> Places]
         /\ \A u \in Tasks \ {t} : worker'[u] = worker[u]
  BY DEF TypeOK, Moved

LEMMA StoppedTypes ==
  ASSUME TypeOK, NEW t \in Tasks
  PROVE  /\ PlaceStopped(worker[t]) \in Places
         /\ Stops(t) \in [Tasks -> {"none", "running", "good", "bad", "stopped"}]
  <1>1. PlaceStopped(worker[t]) \in {"gone", "cancelling", "failing"}
    BY DEF PlaceStopped
  <1> QED
    BY <1>1 DEF TypeOK, Stops, Places

LEMMA RunKeeps ==
  ASSUME AnswerInv, NEW t \in Tasks, Run(t)
  PROVE  AnswerInv'
  <1> USE DEF AnswerInv
  <1>1. PICK old \in SUBSET Prunable : row' = [Pruned(old) EXCEPT ![t] = "running"]
    BY DEF Run
  <1>2. RowsEnd(Pruned(old)) /\ row[t] = "none"
    BY PrunedEnd DEF Run
  <1>3. RowsFollow(row') /\ row'[t] = "running"
    <2> DEFINE rows == Pruned(old)
    <2>1. rows \in Rows /\ \A u \in Tasks : Follows(row[u], rows[u])
      BY <1>2 DEF RowsEnd, RowsFollow
    <2>2. row' = [rows EXCEPT ![t] = "running"]
      BY <1>1
    <2> HIDE DEF rows
    <2> QED
      BY <1>2, <2>1, <2>2 DEF RowsFollow, Rows, Follows
  <1>4. /\ worker' \in [Tasks -> Places] /\ \A u \in Tasks \ {t} : worker'[u] = worker[u]
    BY WorkerMoves DEF Run, Places
  <1>5. TypeOK'
    BY <1>3, <1>4, StepTypes DEF Run, TypeOK
  <1> QED
    BY <1>3, <1>4, <1>5, QuietKeeps DEF Run

LEMMA ProceedsKeeps ==
  ASSUME AnswerInv, NEW t \in Tasks, Proceeds(t)
  PROVE  AnswerInv'
  <1> USE DEF AnswerInv
  <1>1. worker[t] # "none" /\ row[t] # "none" /\ UNCHANGED <<mode, caller, told, crashes>>
    BY DEF Proceeds, Spawn, SpawnFails, Start, CannotExecute, LoadRaises, BeginTurn,
           Returned, NoticeEnded, GraceEnds, Settle, WorkersKnow
  <1>2. RowsFollow(row')
    <2>1. CASE Start(t)
      BY <2>1, PrunedEnd DEF Start, RowsEnd
    <2>2. CASE Settle(t)
      <3>1. Verdict(t) \in Final
        BY <2>2 DEF Settle, Verdict, Final
      <3> QED
        BY <2>2, <3>1, RowFollows DEF Settle
    <2>3. CASE ~Start(t) /\ ~Settle(t)
      BY <2>3, RowFollows
      DEF Proceeds, Spawn, SpawnFails, CannotExecute, LoadRaises, BeginTurn,
          Returned, NoticeEnded, GraceEnds, Final
    <2> QED
      BY <2>1, <2>2, <2>3
  <1>3. /\ worker' \in [Tasks -> Places] /\ \A u \in Tasks \ {t} : worker'[u] = worker[u]
    <2>1. \E place \in Places : worker' = Moved(t, place)
      BY DEF Proceeds, Spawn, SpawnFails, Start, CannotExecute, LoadRaises, BeginTurn,
             Returned, NoticeEnded, GraceEnds, Settle, Places
    <2> QED
      BY <2>1, WorkerMoves
  <1>4. /\ handle' \subseteq handle \cup {t} /\ lost' \subseteq Tasks
        /\ begun' \cup late' \subseteq begun \cup late \cup {t}
    BY DEF Proceeds, Spawn, SpawnFails, Start, CannotExecute, LoadRaises, BeginTurn,
           Returned, NoticeEnded, GraceEnds, Settle, TypeOK
  <1>5. turn' \in [Tasks -> {"none", "running", "good", "bad", "stopped"}]
    <2>1. turn' = turn \/ turn' = Stops(t) \/ turn' = [turn EXCEPT ![t] = "running"]
      BY DEF Proceeds, Spawn, SpawnFails, Start, CannotExecute, LoadRaises, BeginTurn,
             Returned, NoticeEnded, GraceEnds, Settle
    <2> QED
      BY <2>1, StoppedTypes DEF TypeOK
  <1>6. begun' \cup late' \subseteq Tasks
    BY <1>4 DEF TypeOK
  <1>7. TypeOK'
    BY <1>1, <1>2, <1>3, <1>4, <1>5, <1>6, StepTypes DEF TypeOK
  <1>8. row'[t] # "none"
    BY <1>1, <1>2 DEF RowsFollow, Follows, Final
  <1> QED
    BY <1>1, <1>2, <1>3, <1>4, <1>7, <1>8, QuietKeeps

LEMMA RaisesKeeps ==
  ASSUME AnswerInv, NEW t \in Tasks, StepRaises(t)
  PROVE  AnswerInv'
  <1> USE DEF AnswerInv
  <1>1. worker[t] # "none" /\ UNCHANGED <<mode, row, begun, late, caller, told>>
    BY DEF StepRaises
  <1>2. /\ worker' \in [Tasks -> Places] /\ \A u \in Tasks \ {t} : worker'[u] = worker[u]
    <2>1. \E place \in Places : worker' = Moved(t, place)
      BY DEF StepRaises, Places
    <2> QED
      BY <2>1, WorkerMoves
  <1>3. handle' \subseteq handle /\ lost' \subseteq Tasks
    BY DEF StepRaises, TypeOK
  <1>4. crashes' \in 0..MaxCrashes
    BY SubagentAssumption DEF SubagentAssumption, StepRaises, Crash, TypeOK
  <1>5. turn' \in [Tasks -> {"none", "running", "good", "bad", "stopped"}]
    <2>1. turn' = turn \/ turn' = Stops(t)
      BY DEF StepRaises
    <2> QED
      BY <2>1, StoppedTypes DEF TypeOK
  <1>6. TypeOK'
    BY <1>1, <1>2, <1>3, <1>4, <1>5, RowFollows, StepTypes DEF TypeOK
  <1> QED
    BY <1>1, <1>2, <1>3, <1>6, RowFollows, QuietKeeps

LEMMA TurnKeeps ==
  ASSUME AnswerInv, NEW t \in Tasks, TurnEnds(t) \/ TimeLimit(t) \/ LimitPasses(t)
  PROVE  AnswerInv'
  <1> USE DEF AnswerInv
  <1>1. UNCHANGED <<mode, row, begun, handle, caller, told, lost, crashes>>
    BY DEF TurnEnds, TimeLimit, LimitPasses
  <1>2. worker' \in [Tasks -> Places] /\ \A u \in Tasks : worker[u] # "none" \/ worker'[u] = "none"
    BY DEF TurnEnds, TimeLimit, LimitPasses, Moved, TypeOK, Places
  <1>3. turn' \in [Tasks -> {"none", "running", "good", "bad", "stopped"}]
    BY StoppedTypes DEF TurnEnds, TimeLimit, LimitPasses, TypeOK
  <1>4. late' \subseteq late \cup {t} /\ (t \in late' \ late => row[t] # "none")
    BY DEF TurnEnds, TimeLimit, LimitPasses
  <1>5. TypeOK'
    BY <1>1, <1>2, <1>3, <1>4, RowFollows, StepTypes DEF TypeOK
  <1> QED
    BY <1>1, <1>2, <1>5, RowFollows, QuietKeeps

LEMMA StopsAllTypes ==
  ASSUME AnswerInv, NEW stopped \in SUBSET handle, StopsAll(stopped)
  PROVE  /\ worker' \in [Tasks -> Places] /\ handle' \subseteq handle
         /\ turn' \in [Tasks -> {"none", "running", "good", "bad", "stopped"}]
         /\ \A u \in Tasks : worker'[u] = "none" \/ row[u] # "none"
  <1>1. \A t \in Tasks :
           /\ PlaceStopped(worker[t]) \in Places
           /\ Stops(t)[t] \in {"none", "running", "good", "bad", "stopped"}
    BY StoppedTypes DEF AnswerInv
  <1>2. /\ worker' = [t \in Tasks |->
                        IF t \in stopped THEN PlaceStopped(worker[t]) ELSE worker[t]]
        /\ turn' = [t \in Tasks |-> IF t \in stopped THEN Stops(t)[t] ELSE turn[t]]
        /\ handle' = handle \ stopped
    BY DEF StopsAll
  <1>3. worker \in [Tasks -> Places] /\ handle \subseteq Tasks
        /\ turn \in [Tasks -> {"none", "running", "good", "bad", "stopped"}]
    BY DEF AnswerInv, TypeOK
  <1>4. \A u \in Tasks : worker'[u] = worker[u] \/ u \in handle
    BY <1>2
  <1> QED
    BY <1>1, <1>2, <1>3, <1>4 DEF AnswerInv, WorkersKnow

LEMMA EndsKeeps ==
  ASSUME AnswerInv, Shutdown \/ ServiceDies \/ \E t \in Tasks : WorkerDies(t)
  PROVE  AnswerInv'
  <1> USE DEF AnswerInv
  <1>1. /\ UNCHANGED <<mode, row, begun, late, told>> /\ crashes' \in 0..MaxCrashes
    BY SubagentAssumption
    DEF SubagentAssumption, Shutdown, ServiceDies, WorkerDies, Crash, TypeOK
  <1>2. /\ caller' \in [Callers -> Caller]
        /\ \A c \in Callers : caller'[c] = caller[c] \/ caller'[c].at = "idle"
    BY DEF Shutdown, ServiceDies, WorkerDies, Idle, Caller, TypeOK
  <1>3. /\ worker' \in [Tasks -> Places] /\ handle' \subseteq handle
        /\ turn' \in [Tasks -> {"none", "running", "good", "bad", "stopped"}]
        /\ \A u \in Tasks : worker'[u] = "none" \/ row[u] # "none"
    <2>1. CASE Shutdown
      BY <2>1, StopsAllTypes DEF Shutdown
    <2>2. CASE ServiceDies
      <3>1. /\ handle' = {}
            /\ worker' \in [Tasks -> Places]
            /\ \A u \in Tasks : worker'[u] = "none" \/ worker[u] # "none"
        BY <2>2 DEF ServiceDies, Alive, TypeOK, Places
      <3>2. turn' \in [Tasks -> {"none", "running", "good", "bad", "stopped"}]
        <4>1. \A t \in Tasks : Stops(t)[t] \in {"none", "running", "good", "bad", "stopped"}
          BY StoppedTypes
        <4> QED
          BY <2>2, <4>1 DEF ServiceDies, TypeOK
      <3> QED
        BY <3>1, <3>2 DEF WorkersKnow
    <2>3. ASSUME NEW t \in Tasks, WorkerDies(t)
          PROVE  /\ worker' \in [Tasks -> Places] /\ handle' \subseteq handle
                 /\ turn' \in [Tasks -> {"none", "running", "good", "bad", "stopped"}]
                 /\ \A u \in Tasks : worker'[u] = "none" \/ row[u] # "none"
      <3>1. worker[t] # "none" /\ worker' = Moved(t, "gone") /\ turn' = Stops(t)
            /\ handle' = handle
        BY <2>3 DEF WorkerDies, Alive
      <3> QED
        BY <3>1, WorkerMoves, StoppedTypes DEF WorkersKnow, Places
    <2> QED
      BY <2>1, <2>2, <2>3
  <1>4. lost' \subseteq Tasks
    <2>1. CASE ServiceDies
      <3> DEFINE unborn == {t \in Tasks : worker[t] = "accepted"}
                 inside == {t \in Tasks : mode = "inline" /\ Alive(t)}
                 left == {caller[c].task : c \in {d \in Local : caller[d].at = "writing"}}
      <3>1. lost' = lost \cup unborn \cup inside \cup left
        BY <2>1 DEF ServiceDies
      <3>2. left \subseteq Tasks
        BY SubagentAssumption DEF SubagentAssumption, CallersKnow
      <3> QED
        BY <3>1, <3>2 DEF TypeOK
    <2>2. CASE Shutdown \/ \E t \in Tasks : WorkerDies(t)
      BY <2>2 DEF Shutdown, WorkerDies, TypeOK
    <2> QED
      BY <2>1, <2>2
  <1>5. TypeOK'
    BY <1>1, <1>2, <1>3, <1>4, RowFollows, StepTypes DEF TypeOK
  <1> QED
    BY <1>1, <1>2, <1>3, <1>5, RowFollows, QuietKeeps

----------------------------------------------------------------------------
(* The steps of callers *)

LEMMA CallerTypes ==
  ASSUME TypeOK, RowsEnd(row'), UNCHANGED <<mode, begun, late, worker, handle, turn, lost, crashes>>,
         caller' \in [Callers -> Caller], told' \in [Tasks -> SUBSET Answer]
  PROVE  TypeOK'
  BY StepTypes DEF TypeOK, RowsEnd

\* The steps that tell nothing.
LEMMA AsksKeeps ==
  ASSUME AnswerInv, NEW c \in Callers,
         \/ \E t \in Tasks : Wait(c, t) \/ Cancel(c, t)
         \/ WaitEnds(c) \/ StopWorker(c)
         \/ \E reply \in {"timeout", "none"} : JobGivesUp(c, reply)
  PROVE  AnswerInv'
  <1> USE DEF AnswerInv
  <1>1. UNCHANGED <<mode, begun, late, told, lost, crashes>>
    BY DEF Wait, Cancel, WaitEnds, StopWorker, JobGivesUp
  <1>2. RowsEnd(row')
    BY PrunedEnd, RowEnd DEF Wait, Cancel, WaitEnds, StopWorker, JobGivesUp
  <1>3. /\ caller' \in [Callers -> Caller]
        /\ \A d \in Callers : \/ caller'[d] = caller[d] \/ caller'[d].at = "idle"
                              \/ caller'[d].task \in Tasks /\ row[caller'[d].task] # "none"
    <2>1. \A d \in Callers \ {c} : caller'[d] = caller[d]
      BY DEF Wait, Cancel, WaitEnds, StopWorker, JobGivesUp, TypeOK
    <2>2. \E new \in Caller :
             /\ caller' = [caller EXCEPT ![c] = new]
             /\ new.at = "idle" \/ (new.task \in Tasks /\ row[new.task] # "none")
      <3>1. ASSUME NEW t \in Tasks, Wait(c, t) \/ Cancel(c, t)
            PROVE  \E new \in Caller :
                     /\ caller' = [caller EXCEPT ![c] = new]
                     /\ new.at = "idle" \/ (new.task \in Tasks /\ row[new.task] # "none")
        <4>1. row[t] # "none"
          BY <3>1 DEF Wait, Cancel, Known, WorkersKnow
        <4>2. PICK at \in {"waiting", "cancelling"}, reply \in {"none", "cancelled"} :
                 caller' = [caller EXCEPT ![c] = [at |-> at, task |-> t, reply |-> reply]]
          BY <3>1 DEF Wait, Cancel, Idle
        <4>3. [at |-> at, task |-> t, reply |-> reply] \in Caller
          BY DEF Caller
        <4> QED
          BY <4>1, <4>2, <4>3
      <3>2. CASE WaitEnds(c)
        <4>1. Idle \in Caller /\ Idle.at = "idle"
          BY DEF Idle, Caller
        <4> QED
          BY <3>2, <4>1 DEF WaitEnds
      <3>3. ASSUME NEW at \in {"cancelling", "writing"},
                   NEW reply \in {"none", "cancelled", "timeout"},
                   caller[c].at # "idle",
                   caller' = [caller EXCEPT ![c].at = at, ![c].reply = reply]
            PROVE  \E new \in Caller :
                     /\ caller' = [caller EXCEPT ![c] = new]
                     /\ new.at = "idle" \/ (new.task \in Tasks /\ row[new.task] # "none")
        <4> DEFINE new == [caller[c] EXCEPT !.at = at, !.reply = reply]
        <4>1. new \in Caller /\ new.task = caller[c].task
          BY DEF TypeOK, Caller
        <4>2. caller' = [caller EXCEPT ![c] = new]
          BY <3>3
        <4> QED
          BY <3>3, <4>1, <4>2 DEF CallersKnow
      <3>4. CASE StopWorker(c)
        <4>1. caller' = [caller EXCEPT ![c].at = "writing", ![c].reply = caller[c].reply]
          BY <3>4 DEF StopWorker, TypeOK, Caller
        <4> QED
          BY <3>3, <3>4, <4>1 DEF StopWorker, TypeOK, Caller
      <3>5. ASSUME NEW reply \in {"timeout", "none"}, JobGivesUp(c, reply)
            PROVE  \E new \in Caller :
                     /\ caller' = [caller EXCEPT ![c] = new]
                     /\ new.at = "idle" \/ (new.task \in Tasks /\ row[new.task] # "none")
        BY <3>3, <3>5 DEF JobGivesUp, StillRuns
      <3> QED
        BY <3>1, <3>2, <3>4, <3>5
    <2> QED
      BY <2>1, <2>2 DEF TypeOK
  <1>4. /\ worker' \in [Tasks -> Places] /\ handle' \subseteq handle
        /\ turn' \in [Tasks -> {"none", "running", "good", "bad", "stopped"}]
        /\ \A u \in Tasks : worker'[u] = worker[u] \/ row[u] # "none"
    <2>1. CASE StopWorker(c)
      <3>1. \E stopped \in SUBSET handle : StopsAll(stopped)
        <4>1. /\ (IF c \in Local THEN handle \cap {caller[c].task} ELSE {}) \in SUBSET handle
              /\ StopsAll(IF c \in Local THEN handle \cap {caller[c].task} ELSE {})
          BY <2>1 DEF StopWorker
        <4> QED
          BY <4>1
      <3>2. PICK stopped \in SUBSET handle : StopsAll(stopped)
        BY <3>1
      <3>3. \A u \in Tasks : worker'[u] = worker[u] \/ u \in handle
        BY <3>2 DEF StopsAll
      <3> QED
        BY <3>2, <3>3, StopsAllTypes DEF WorkersKnow
    <2>2. CASE ~StopWorker(c)
      BY <2>2 DEF Wait, Cancel, WaitEnds, JobGivesUp, TypeOK
    <2> QED
      BY <2>1, <2>2
  <1>5. RowsFollow(row')
    BY <1>2 DEF RowsEnd
  <1>6. TypeOK'
    BY <1>1, <1>3, <1>4, <1>5, StepTypes DEF TypeOK
  <1>7. \A u \in Tasks : worker'[u] = "none" \/ worker[u] # "none" \/ row'[u] # "none"
    BY <1>4, <1>5 DEF RowsFollow, Follows, Final
  <1> QED
    BY <1>1, <1>3, <1>4, <1>5, <1>6, <1>7, QuietKeeps

\* The steps that read the row for an answer.
LEMMA ReadsKeeps ==
  ASSUME AnswerInv, NEW c \in Callers, NEW t \in Tasks, row[t] # "none",
         NEW rows, RowsEnd(rows), Reads(c, t, rows)
  PROVE  AnswerInv'
  <1> USE DEF AnswerInv
  <1>1. /\ row' = Loaded(rows, t) /\ RowsEnd(row')
        /\ UNCHANGED <<mode, begun, late, worker, handle, turn, lost, crashes>>
    BY LoadedEnd DEF Reads
  <1>2. Tell(t, row'[t], "read")
    BY <1>1 DEF Reads
  <1>3. /\ told' \in [Tasks -> SUBSET Answer] /\ AnswersHold'
        /\ \A u \in Tasks : told'[u] # told[u] => u = t
    BY <1>1, <1>2, TellHolds DEF Final
  <1>4. /\ caller' \in [Callers -> Caller]
        /\ \A d \in Callers : caller'[d] = caller[d] \/ caller'[d].at = "idle"
    <2>1. caller' = caller \/ caller' = [caller EXCEPT ![c] = Idle]
      BY DEF Reads, TypeOK
    <2> QED
      BY <2>1 DEF TypeOK, Idle, Caller
  <1>5. TypeOK'
    BY <1>1, <1>3, <1>4, CallerTypes
  <1> QED
    BY <1>1, <1>3, <1>4, <1>5, CallerStep

LEMMA LookKeeps ==
  ASSUME AnswerInv, NEW c \in Callers, LookBeforeCancel(c)
  PROVE  AnswerInv'
  <1> USE DEF AnswerInv
  <1> DEFINE t == caller[c].task
  <1>1. t \in Tasks /\ row[t] # "none" /\ caller[c].at = "cancelling"
        /\ UNCHANGED <<mode, begun, late, worker, handle, turn, lost, crashes>>
    BY DEF LookBeforeCancel, CallersKnow
  <1>2. RowsEnd(row')
    BY PrunedEnd DEF LookBeforeCancel
  <1>3. /\ \/ caller' = [caller EXCEPT ![c].at = "stopping"]
           \/ caller' = [caller EXCEPT ![c] = Idle]
        /\ \/ told' = told
           \/ row'[t] # "running" /\ Tell(t, row'[t], "read")
           \/ row'[t] # "running" /\ Tell(t, caller[c].reply, "given_up")
    BY DEF LookBeforeCancel
  <1>4. /\ caller' \in [Callers -> Caller]
        /\ \A d \in Callers : \/ caller'[d] = caller[d] \/ caller'[d].at = "idle"
                              \/ caller'[d].task \in Tasks /\ row[caller'[d].task] # "none"
    BY <1>1, <1>3 DEF TypeOK, Idle, Caller
  <1> HIDE DEF t
  <1>5. /\ told' \in [Tasks -> SUBSET Answer] /\ AnswersHold'
        /\ \A u \in Tasks : told'[u] # told[u] => u = t
    <2>1. CASE told' = told
      BY <1>2, <2>1 DEF TypeOK, AnswersHold, WorkersKnow, RowsEnd, RowsFollow, Follows, Final
    <2>2. CASE row'[t] # "running" /\ Tell(t, row'[t], "read")
      BY <1>1, <1>2, <2>2, TellHolds
    <2>3. CASE row'[t] # "running" /\ Tell(t, caller[c].reply, "given_up")
      BY <1>1, <1>2, <2>3, TellHolds
    <2> QED
      BY <1>3, <2>1, <2>2, <2>3
  <1>6. TypeOK'
    BY <1>1, <1>2, <1>4, <1>5, CallerTypes
  <1> QED
    BY <1>1, <1>2, <1>4, <1>5, <1>6, CallerStep

\* The steps that tell what nobody has looked at.
LEMMA UncheckedKeeps ==
  ASSUME AnswerInv, NEW c \in Callers, WaitRaises(c) \/ CancelRaises(c)
  PROVE  AnswerInv'
  <1> USE DEF AnswerInv
  <1> DEFINE t == caller[c].task
  <1>1. /\ t \in Tasks /\ row[t] # "none"
        /\ UNCHANGED <<mode, row, begun, late, worker, handle, turn>>
        /\ told' = told \/ \E status \in Final : Tell(t, status, "unchecked")
    BY DEF WaitRaises, CancelRaises, CallersKnow, Final
  <1>2. /\ caller' \in [Callers -> Caller]
        /\ \A d \in Callers : caller'[d] = caller[d] \/ caller'[d].at = "idle"
    BY DEF WaitRaises, CancelRaises, TypeOK, Idle, Caller
  <1>3. lost' \subseteq Tasks /\ crashes' \in 0..MaxCrashes
    <2>1. lost' \subseteq lost \cup {t} /\ Crash
      BY DEF WaitRaises, CancelRaises
    <2> QED
      BY <1>1, <2>1, SubagentAssumption DEF SubagentAssumption, Crash, TypeOK
  <1>4. RowsEnd(row')
    BY <1>1, RowEnd
  <1> HIDE DEF t
  <1>5. /\ told' \in [Tasks -> SUBSET Answer] /\ AnswersHold'
        /\ \A u \in Tasks : told'[u] # told[u] => u = t
    <2>1. CASE told' = told
      BY <1>1, <2>1 DEF TypeOK, AnswersHold
    <2>2. ASSUME NEW status \in Final, Tell(t, status, "unchecked")
          PROVE  /\ told' \in [Tasks -> SUBSET Answer] /\ AnswersHold'
                 /\ \A u \in Tasks : told'[u] # told[u] => u = t
      BY <1>1, <1>4, <2>2, TellHolds
    <2> QED
      BY <1>1, <2>1, <2>2
  <1>6. TypeOK'
    BY <1>1, <1>2, <1>3, <1>4, <1>5, StepTypes DEF TypeOK, RowsEnd
  <1> QED
    BY <1>1, <1>2, <1>4, <1>5, <1>6, CallerStep

LEMMA WriteKeeps ==
  ASSUME AnswerInv, NEW c \in Callers, WriteCancel(c)
  PROVE  AnswerInv'
  <1> USE DEF AnswerInv
  <1> DEFINE t == caller[c].task
             how == IF caller[c].reply = "timeout" THEN "given_up"
                    ELSE IF row[t] = "running" THEN "read" ELSE "raced"
  <1>1. t \in Tasks /\ row[t] # "none" /\ caller[c].at = "writing"
        /\ caller[c].reply \in {"none", "cancelled", "timeout"}
        /\ UNCHANGED <<mode, begun, late, worker, handle, turn, lost, crashes>>
    BY DEF WriteCancel, CallersKnow, TypeOK, Caller
  <1>2. row' = Finish(row, t, "cancelled") /\ Tell(t, caller[c].reply, how)
        /\ caller' = [caller EXCEPT ![c] = Idle]
    BY DEF WriteCancel
  <1>3. how \in {"read", "raced", "given_up"}
        /\ (how = "read" => row[t] = "running" /\ caller[c].reply # "timeout")
    OBVIOUS
  <1> HIDE DEF how
  <1>4. "cancelled" \in Final
    BY DEF Final
  <1>5. RowsEnd(row') /\ row'[t] # "running" /\ (row[t] = "running" => row'[t] = "cancelled")
    BY <1>1, <1>2, <1>4, FinishEnd, RowEnd
  <1>6. how = "read" /\ caller[c].reply \in Final => row'[t] \in {caller[c].reply, "deleted"}
    BY <1>1, <1>3, <1>5 DEF Final
  <1> HIDE DEF t
  <1>7. /\ told' \in [Tasks -> SUBSET Answer] /\ AnswersHold'
        /\ \A u \in Tasks : told'[u] # told[u] => u = t
    BY <1>1, <1>2, <1>3, <1>5, <1>6, TellHolds
  <1>8. /\ caller' \in [Callers -> Caller]
        /\ \A d \in Callers : caller'[d] = caller[d] \/ caller'[d].at = "idle"
    BY <1>2 DEF TypeOK, Idle, Caller
  <1>9. TypeOK'
    BY <1>1, <1>5, <1>7, <1>8, CallerTypes
  <1> QED
    BY <1>1, <1>5, <1>7, <1>8, <1>9, CallerStep

LEMMA AnswersKeep ==
  ASSUME AnswerInv, NEW c \in Callers,
         Answers(c) \/ \E t \in Tasks : Result(c, t)
  PROVE  AnswerInv'
  <1> USE DEF AnswerInv
  <1>1. CASE Poll(c)
    <2>1. caller[c].task \in Tasks /\ row[caller[c].task] # "none"
      BY <1>1 DEF Poll, CallersKnow
    <2> QED
      BY <1>1, <2>1, RowEnd, ReadsKeeps DEF Poll
  <1>2. ASSUME NEW t \in Tasks, Result(c, t)
        PROVE  AnswerInv'
    <2>1. row[t] # "none"
      BY <1>2 DEF Result, Known, WorkersKnow
    <2>2. PICK old \in SUBSET Prunable : Reads(c, t, Pruned(old))
      BY <1>2 DEF Result
    <2> QED
      BY <2>1, <2>2, PrunedEnd, ReadsKeeps
  <1> QED
    BY <1>1, <1>2, LookKeeps, WriteKeeps, AsksKeeps DEF Answers

----------------------------------------------------------------------------
(* The invariant *)

LEMMA AnswerInit == Init => AnswerInv
  BY SubagentAssumption
  DEF SubagentAssumption, Init, AnswerInv, TypeOK, WorkersKnow, CallersKnow, AnswersHold,
      Places, Caller, Idle, Final

LEMMA AnswerNext == AnswerInv /\ [Next]_vars => AnswerInv'
  <1> SUFFICES ASSUME AnswerInv, [Next]_vars PROVE AnswerInv'
    OBVIOUS
  <1>1. CASE Next
    <2>1. ASSUME NEW t \in Tasks,
                 \/ Run(t) \/ Proceeds(t) \/ TurnEnds(t) \/ TimeLimit(t)
                 \/ LimitPasses(t) \/ WorkerDies(t) \/ StepRaises(t)
          PROVE  AnswerInv'
      BY <2>1, RunKeeps, ProceedsKeeps, TurnKeeps, RaisesKeeps, EndsKeeps
    <2>2. ASSUME NEW t \in Tasks, NEW c \in Callers,
                 Wait(c, t) \/ Result(c, t) \/ Cancel(c, t)
          PROVE  AnswerInv'
      BY <2>2, AsksKeeps, AnswersKeep
    <2>3. ASSUME NEW c \in Callers,
                 \/ Answers(c) \/ WaitEnds(c) \/ WaitRaises(c) \/ CancelRaises(c)
                 \/ \E reply \in {"timeout", "none"} : JobGivesUp(c, reply)
          PROVE  AnswerInv'
      BY <2>3, AsksKeeps, AnswersKeep, UncheckedKeeps
    <2> QED
      BY <1>1, <2>1, <2>2, <2>3, EndsKeeps DEF Next
  <1>2. CASE UNCHANGED vars
    BY <1>2 DEF vars, AnswerInv, TypeOK, WorkersKnow, CallersKnow, AnswersHold,
                Prunable, Answer, Caller, Places
  <1> QED
    BY <1>1, <1>2

LEMMA AnswersInvariant == Spec => []AnswerInv
  BY AnswerInit, AnswerNext, PTL DEF Spec

\* Rows, callers and what was said about a task are always of their kinds; in
\* particular nobody asks about, or loses, a task that was never accepted.
THEOREM TypeCorrect == Spec => []TypeOK
  BY AnswersInvariant, PTL DEF AnswerInv

\* Whoever was told of the end of a task was told of a task that has ended, and
\* what was read of its end stays true until the row is deleted: for any number of
\* callers, of any instance, and however shutdowns, crashes and failing calls cut them
\* off; only a job to which wait() or cancel() raised answers without knowing.
THEOREM AnswersStayTrue == Spec => []AnswersHold
  BY AnswersInvariant, PTL DEF AnswerInv
=============================================================================
