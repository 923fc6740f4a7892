---------------------- MODULE WebhookAutomations_proofs ---------------------
(***************************************************************************)
(* Proofs about WebhookAutomations, for every number of hooks, events,     *)
(* workers, requests and faults: type correctness, that an event is        *)
(* completed at most once, that a hook handles one event at a time, that a *)
(* lost claim is harmless, and that claims are leases.                     *)
(***************************************************************************)
EXTENDS WebhookAutomations, SequenceTheorems, TLAPS

\* A request is in the queue once, and in the hands of one worker.
QueuedOnce == \A i, j \in 1..Len(queue) : queue[i] = queue[j] => i = j
Handles(w) == worker[w].place \notin {"idle", "ended"}
TakenOnce ==
    /\ \A w \in Workers : Handles(w) => request[worker[w].request].place = "taken"
    /\ \A v, w \in Workers : (v # w /\ Handles(v) /\ Handles(w))
                               => worker[v].request # worker[w].request

\* The part of the state that requests travel through.
Travel ==
    /\ request \in [Requests -> Request] /\ queue \in Seq(Requests)
    /\ worker \in [Workers -> WorkerState]
    /\ \A r \in Requests : request[r].place = "queued" <=> \E i \in 1..Len(queue) : queue[i] = r
    /\ QueuedOnce /\ TakenOnce

Types == TypeOK /\ Travel

-----------------------------------------------------------------------------
(* The queue and the workers *)

LEMMA WorkerTypes ==
    ASSUME Travel, NEW w \in Workers
    PROVE  /\ worker[w].request \in Requests /\ request[worker[w].request] \in Request
           /\ HookOf(w) \in Hooks /\ EventOf(w) \in Events
  BY DEF Travel, WorkerState, HookOf, EventOf, Request

LEMMA IdleType ==
    /\ Idle \in WorkerState /\ Idle.place = "idle"
    /\ Ended \in WorkerState /\ Ended.place = "ended"
<1>1. (CHOOSE r \in Requests : TRUE) \in Requests /\ 0 \in 0..MaxExpiries
  BY WebhookAssumption
<1> QED
  BY <1>1 DEF Idle, Ended, WorkerState

\* A request that is neither queued nor taken changes, and is not afterwards.
LEMMA RequestMoves ==
    ASSUME Travel, NEW r \in Requests, NEW row \in Request, request' = [request EXCEPT ![r] = row],
           request[r].place \notin {"queued", "taken"}, row.place \notin {"queued", "taken"},
           UNCHANGED <<queue, worker>>
    PROVE  Travel'
<1>1. request' \in [Requests -> Request]
  BY DEF Travel
<1>2. \A s \in Requests : s # r => request'[s] = request[s]
  BY DEF Travel
<1>3. request'[r].place \notin {"queued", "taken"}
  BY DEF Travel
<1>4. \A s \in Requests : request'[s].place = "queued" <=> request[s].place = "queued"
  BY <1>2, <1>3
<1>5. \A w \in Workers : Handles(w) => request'[worker[w].request].place = "taken"
  BY <1>2, WorkerTypes DEF Travel, TakenOnce
<1> QED
  BY <1>1, <1>4, <1>5 DEF Travel, QueuedOnce, TakenOnce, Handles

LEMMA AcceptTravel ==
    ASSUME Travel, NEW r \in Requests, Accept(r)
    PROVE  Travel'
<1>0. /\ request \in [Requests -> Request] /\ queue \in Seq(Requests) /\ Len(queue) \in Nat
      /\ request[r].place = "validating" /\ queue' = Append(queue, r) /\ worker' = worker
      /\ request' = [request EXCEPT ![r].place = "queued"]
  BY LenProperties DEF Travel, Accept
<1>1. request' \in [Requests -> Request]
  BY <1>0 DEF Request
<1>2. /\ \A s \in Requests : s # r => request'[s] = request[s]
      /\ request'[r].place = "queued"
  BY <1>0 DEF Request
<1>3. /\ queue' \in Seq(Requests) /\ Len(queue') = Len(queue) + 1
      /\ \A i \in 1..Len(queue) : queue'[i] = queue[i]
      /\ queue'[Len(queue) + 1] = r
  BY <1>0, AppendProperties
<1>4. \A i \in 1..Len(queue) : queue[i] # r
  BY <1>0 DEF Travel
<1>5. \A s \in Requests : request'[s].place = "queued" <=> \E i \in 1..Len(queue') : queue'[i] = s
  <2> TAKE s \in Requests
  <2>1. CASE s = r
    BY <1>0, <1>2, <1>3, <2>1
  <2>2. CASE s # r
    <3>1. request'[s].place = "queued" <=> \E i \in 1..Len(queue) : queue[i] = s
      BY <1>2, <2>2 DEF Travel
    <3>2. (\E i \in 1..Len(queue') : queue'[i] = s) <=> \E i \in 1..Len(queue) : queue[i] = s
      BY <1>0, <1>3, <2>2
    <3> QED
      BY <3>1, <3>2
  <2> QED
    BY <2>1, <2>2
<1>6. \A i, j \in 1..Len(queue') : queue'[i] = queue'[j] => i = j
  <2> TAKE i, j \in 1..Len(queue')
  <2>1. i \in 1..Len(queue) \/ i = Len(queue) + 1
    BY <1>0, <1>3
  <2>2. j \in 1..Len(queue) \/ j = Len(queue) + 1
    BY <1>0, <1>3
  <2> QED
    BY <1>3, <1>4, <2>1, <2>2 DEF Travel, QueuedOnce
<1>7. \A w \in Workers : Handles(w) => request'[worker[w].request].place = "taken"
  BY <1>0, <1>2, WorkerTypes DEF Travel, TakenOnce
<1> QED
  BY <1>0, <1>1, <1>3, <1>5, <1>6, <1>7 DEF Travel, QueuedOnce, TakenOnce, Handles

LEMMA TakeTravel ==
    ASSUME Travel, clock \in 0..MaxExpiries, NEW w \in Workers, Take(w)
    PROVE  Travel'
<1>0. /\ request \in [Requests -> Request] /\ queue \in Seq(Requests) /\ queue # <<>>
      /\ Len(queue) \in Nat /\ worker \in [Workers -> WorkerState] /\ At(w, "idle")
      /\ queue' = Tail(queue) /\ clock \in 0..MaxExpiries
  BY LenProperties DEF Travel, Take
<1>1. Head(queue) \in Requests /\ Head(queue) = queue[1] /\ Len(queue) >= 1
  BY <1>0, HeadTailProperties, EmptySeq
<1>2. PICK r \in Requests : r = Head(queue)
  BY <1>1
<1>3. /\ queue' \in Seq(Requests) /\ Len(queue') = Len(queue) - 1
      /\ \A i \in 1..Len(queue') : queue'[i] = queue[i + 1]
  BY <1>0, HeadTailProperties
<1>4. request[r].place = "queued" /\ request' = [request EXCEPT ![r].place = "taken"]
  <2>1. 1 \in 1..Len(queue) /\ queue[1] = r
    BY <1>0, <1>1, <1>2
  <2>2. request[r].place = "queued"
    BY <2>1 DEF Travel
  <2> QED
    BY <1>2, <2>2 DEF Take
<1>5. /\ request' \in [Requests -> Request] /\ request'[r].place = "taken"
      /\ \A s \in Requests : s # r => request'[s] = request[s]
  BY <1>0, <1>4 DEF Request
<1>6. worker' = [worker EXCEPT ![w] = [place |-> "taken", request |-> r, received |-> clock]]
  BY <1>2 DEF Take
<1>7. /\ worker' \in [Workers -> WorkerState] /\ worker'[w].request = r
      /\ \A v \in Workers : v # w => worker'[v] = worker[v]
  BY <1>0, <1>6 DEF WorkerState
<1>8. \A i \in 1..Len(queue') : i \in Nat /\ i + 1 \in 1..Len(queue) /\ i + 1 # 1
  BY <1>0, <1>1, <1>3
<1>9. \A i \in 1..Len(queue) : queue[i] = r => i = 1
  BY <1>0, <1>1, <1>2 DEF Travel, QueuedOnce
<1>10. \A s \in Requests : request'[s].place = "queued" <=> \E i \in 1..Len(queue') : queue'[i] = s
  <2> TAKE s \in Requests
  <2>1. CASE s = r
    <3>1. \A i \in 1..Len(queue') : queue'[i] # r
      BY <1>3, <1>8, <1>9
    <3> QED
      BY <1>5, <2>1, <3>1
  <2>2. CASE s # r
    <3>1. request'[s].place = "queued" <=> \E i \in 1..Len(queue) : queue[i] = s
      BY <1>5, <2>2 DEF Travel
    <3>2. ASSUME NEW i \in 1..Len(queue), queue[i] = s
          PROVE  i - 1 \in 1..Len(queue') /\ queue'[i - 1] = s
      <4>1. i # 1
        BY <1>1, <1>2, <2>2, <3>2
      <4>2. i - 1 \in 1..Len(queue') /\ (i - 1) + 1 = i
        BY <1>0, <1>3, <4>1
      <4> QED
        BY <1>3, <3>2, <4>2
    <3>3. ASSUME NEW i \in 1..Len(queue'), queue'[i] = s
          PROVE  \E j \in 1..Len(queue) : queue[j] = s
      BY <1>3, <1>8, <3>3
    <3> QED
      BY <3>1, <3>2, <3>3
  <2> QED
    BY <2>1, <2>2
<1>11. \A i, j \in 1..Len(queue') : queue'[i] = queue'[j] => i = j
  <2> TAKE i, j \in 1..Len(queue')
  <2>1. /\ queue'[i] = queue[i + 1] /\ i + 1 \in 1..Len(queue)
        /\ queue'[j] = queue[j + 1] /\ j + 1 \in 1..Len(queue)
    BY <1>3, <1>8
  <2>2. queue[i + 1] = queue[j + 1] => i + 1 = j + 1
    BY <2>1 DEF Travel, QueuedOnce
  <2> QED
    BY <1>8, <2>1, <2>2
<1>12. \A v \in Workers : (v # w /\ Handles(v)) =>
         /\ worker[v].request # r /\ request'[worker[v].request].place = "taken"
  <2> SUFFICES ASSUME NEW v \in Workers, v # w, Handles(v)
               PROVE  worker[v].request # r /\ request'[worker[v].request].place = "taken"
    OBVIOUS
  <2>1. request[worker[v].request].place = "taken" /\ worker[v].request \in Requests
    BY WorkerTypes DEF Travel, TakenOnce
  <2> QED
    BY <1>4, <1>5, <2>1
<1>13. TakenOnce'
  <2>1. \A v \in Workers : v # w => (Handles(v)' <=> Handles(v))
    BY <1>7 DEF Handles
  <2>2. \A v \in Workers : Handles(v)' => request'[worker'[v].request].place = "taken"
    BY <1>5, <1>7, <1>12, <2>1
  <2>3. \A u, v \in Workers : (u # v /\ Handles(u) /\ Handles(v))
                                 => worker[u].request # worker[v].request
    BY DEF Travel, TakenOnce
  <2> QED
    BY <1>7, <1>12, <2>1, <2>2, <2>3 DEF TakenOnce
<1> QED
  BY <1>3, <1>5, <1>7, <1>10, <1>11, <1>13 DEF Travel, QueuedOnce

LEMMA WorkerEndsTravel ==
    ASSUME Travel, NEW w \in Workers, Handles(w),
           NEW place \in {"executed", "deduplicated", "failed"},
           NEW state \in {Idle, Ended}, worker' = Leaves(w, state), request' = Becomes(w, place),
           UNCHANGED queue
    PROVE  Travel'
<1>0. request \in [Requests -> Request] /\ worker \in [Workers -> WorkerState]
  BY DEF Travel
<1>1. PICK r \in Requests : r = worker[w].request /\ request[r].place = "taken"
  BY WorkerTypes DEF Travel, TakenOnce
<1>2. /\ request' \in [Requests -> Request] /\ request'[r].place = place
      /\ \A s \in Requests : s # r => request'[s] = request[s]
  BY <1>0, <1>1 DEF Becomes, Request
<1>3. /\ worker' \in [Workers -> WorkerState] /\ ~Handles(w)'
      /\ \A v \in Workers : v # w => worker'[v] = worker[v]
  BY <1>0, IdleType DEF Leaves, Handles
<1>4. \A s \in Requests : request'[s].place = "queued" <=> request[s].place = "queued"
  BY <1>1, <1>2
<1>5. \A v \in Workers : (v # w /\ Handles(v)) => request'[worker[v].request].place = "taken"
  BY <1>1, <1>2, WorkerTypes DEF Travel, TakenOnce
<1>6. queue' \in Seq(Requests) /\ QueuedOnce'
  BY DEF Travel, QueuedOnce
<1>7. \A s \in Requests : request'[s].place = "queued" <=> \E i \in 1..Len(queue') : queue'[i] = s
  BY <1>4 DEF Travel
<1>8. TakenOnce'
  BY <1>3, <1>5 DEF Travel, TakenOnce, Handles
<1> QED
  BY <1>2, <1>3, <1>6, <1>7, <1>8 DEF Travel

LEMMA PlaceTravel ==
    ASSUME Travel, NEW w \in Workers, Handles(w),
           NEW place \in {"found", "claimed", "running", "completing", "releasing"},
           worker' = Place(w, place), UNCHANGED <<request, queue>>
    PROVE  Travel'
<1>1. worker \in [Workers -> WorkerState]
  BY DEF Travel
<1>2. /\ worker' \in [Workers -> WorkerState] /\ worker'[w].request = worker[w].request
      /\ \A v \in Workers : v # w => worker'[v] = worker[v]
  BY <1>1 DEF Place, WorkerState
<1> QED
  BY <1>2 DEF Travel, QueuedOnce, TakenOnce, Handles

LEMMA CancelTravel ==
    ASSUME Travel, Cancellation
    PROVE  Travel'
<1>0. request \in [Requests -> Request] /\ worker \in [Workers -> WorkerState] /\ queue' = queue
  BY DEF Travel, Cancellation
<1>1. request' \in [Requests -> Request] /\ worker' \in [Workers -> WorkerState]
  <2>1. \A r \in Requests : [request[r] EXCEPT !.place = "lost"] \in Request
    BY <1>0 DEF Request
  <2>2. \A w \in Workers : [worker[w] EXCEPT !.place = "cancelled"] \in WorkerState
    BY <1>0 DEF WorkerState
  <2>3. request' \in [Requests -> Request]
    BY <1>0, <2>1 DEF Cancellation
  <2>4. worker' \in [Workers -> WorkerState]
    BY <2>2, IdleType DEF Cancellation
  <2> QED
    BY <2>3, <2>4
<1>2. \A w \in Workers : Handles(w)' => InTry(w) /\ worker'[w].request = worker[w].request
  BY <1>0, IdleType DEF Cancellation, Handles, WorkerState
<1>3. \A r \in Requests : \/ request'[r] = request[r]
                          \/ /\ request'[r].place = "lost"
                             /\ \E w \in Workers : /\ Handles(w) /\ ~InTry(w)
                                                  /\ worker[w].request = r
  BY <1>0 DEF Cancellation, Request, Handles, InTry
<1>4. ASSUME NEW w \in Workers, InTry(w)
      PROVE  request'[worker[w].request].place = "taken"
  <2>1. \A v \in Workers : (Handles(v) /\ ~InTry(v)) => worker[v].request # worker[w].request
    BY <1>4 DEF Travel, TakenOnce, InTry, Handles
  <2>2. request[worker[w].request].place = "taken" /\ worker[w].request \in Requests
    BY <1>4, WorkerTypes DEF Travel, TakenOnce, InTry, Handles
  <2> QED
    BY <1>3, <2>1, <2>2
<1>5. \A r \in Requests : request'[r].place = "queued" <=> request[r].place = "queued"
  BY <1>3 DEF Travel, TakenOnce
<1>6. TakenOnce'
  <2>1. \A v, w \in Workers : (v # w /\ InTry(v) /\ InTry(w)) => worker[v].request # worker[w].request
    BY DEF Travel, TakenOnce, InTry, Handles
  <2> QED
    BY <1>2, <1>4, <2>1 DEF TakenOnce
<1> QED
  BY <1>0, <1>1, <1>5, <1>6 DEF Travel, QueuedOnce

LEMMA GoneTravel ==
    ASSUME Travel, Gone
    PROVE  Travel'
<1>0. request \in [Requests -> Request] /\ worker \in [Workers -> WorkerState]
  BY DEF Travel
<1>1. /\ request' \in [Requests -> Request] /\ worker' \in [Workers -> WorkerState]
      /\ \A r \in Requests : request'[r].place # "queued"
      /\ \A w \in Workers : ~Handles(w)'
  <2>1. \A r \in Requests, place \in {"lost", "rejected"} :
            /\ [request[r] EXCEPT !.place = place] \in Request
            /\ [request[r] EXCEPT !.place = place].place # "queued"
    BY <1>0 DEF Request
  <2>3. request' \in [Requests -> Request] /\ \A r \in Requests : request'[r].place # "queued"
    BY <1>0, <2>1 DEF Gone
  <2>4. worker' \in [Workers -> WorkerState] /\ \A w \in Workers : ~Handles(w)'
    BY IdleType DEF Gone, Handles
  <2> QED
    BY <2>3, <2>4
<1>2. queue' \in Seq(Requests) /\ Len(queue') = 0
  BY DEF Gone
<1> QED
  BY <1>1, <1>2 DEF Travel, QueuedOnce, TakenOnce, Handles

LEMMA TravelNext == TypeOK /\ Travel /\ [Next]_vars => Travel'
<1> SUFFICES ASSUME TypeOK, Travel, [Next]_vars PROVE Travel'
  OBVIOUS
<1>0. request \in [Requests -> Request] /\ clock \in 0..MaxExpiries
  BY DEF Travel, TypeOK
<1>1. ASSUME NEW r \in Requests, NEW h \in Hooks, NEW e \in Events, NEW key \in 0..1,
             Arrives(r, h, e, key)
      PROVE  Travel'
  <2> DEFINE row == [place |-> IF daemon = "up" THEN "validating" ELSE "rejected",
                     hook |-> h, event |-> e, key |-> key]
  <2>1. row \in Request /\ row.place \notin {"queued", "taken"}
    BY DEF Request
  <2>2. request' = [request EXCEPT ![r] = row] /\ request[r].place = "unsent"
    BY <1>1 DEF Arrives
  <2>3. UNCHANGED <<queue, worker>>
    BY <1>1 DEF Arrives
  <2> HIDE DEF row
  <2> QED
    BY <2>1, <2>2, <2>3, RequestMoves
<1>2. ASSUME NEW r \in Requests, Reject(r) PROVE Travel'
  <2> DEFINE row == [request[r] EXCEPT !.place = "rejected"]
  <2>1. row \in Request /\ row.place = "rejected"
    BY <1>0 DEF Request
  <2>2. request' = [request EXCEPT ![r] = row] /\ request[r].place = "validating"
    BY <1>0, <1>2 DEF Reject
  <2>3. UNCHANGED <<queue, worker>>
    BY <1>2 DEF Reject
  <2> HIDE DEF row
  <2> QED
    BY <2>1, <2>2, <2>3, RequestMoves
<1>3. ASSUME NEW w \in Workers, Progress(w) PROVE Travel'
  <2>1. CASE Take(w)
    BY <1>0, <2>1, TakeTravel
  <2>2. CASE Deduplicate(w) \/ TargetGone(w) \/ Complete(w) \/ Release(w)
    <3>1. Handles(w) /\ UNCHANGED queue
      BY <2>2 DEF Deduplicate, TargetGone, Complete, Release, At, Handles
    <3>2. \E place \in {"executed", "deduplicated", "failed"}, state \in {Idle, Ended} :
            worker' = Leaves(w, state) /\ request' = Becomes(w, place)
      BY <2>2 DEF Deduplicate, TargetGone, Complete, Release, WorkerEnds
    <3> QED
      BY <3>1, <3>2, WorkerEndsTravel
  <2>3. CASE LookUp(w) \/ Claim(w) \/ MarkStarted(w) \/ LeaseLost(w) \/ RunEnds(w)
    <3>1. Handles(w) /\ UNCHANGED <<queue, request>>
      BY <2>3 DEF LookUp, Claim, MarkStarted, LeaseLost, RunEnds, At, Handles
    <3>2. \E place \in {"found", "claimed", "running", "completing", "releasing"} :
            worker' = Place(w, place)
      BY <2>3 DEF LookUp, Claim, MarkStarted, LeaseLost, RunEnds
    <3> QED
      BY <3>1, <3>2, PlaceTravel
  <2> QED
    BY <1>3, <2>1, <2>2, <2>3 DEF Progress
<1>4. ASSUME NEW w \in Workers, Raises(w) \/ LoopCatches(w) PROVE Travel'
  <2>1. Handles(w) /\ UNCHANGED queue
    BY <1>4 DEF Raises, LoopCatches, InTry, Handles
  <2> QED
    BY <1>4, <2>1, PlaceTravel, WorkerEndsTravel DEF Raises, LoopCatches, WorkerEnds
<1>5. CASE UNCHANGED <<request, queue, worker>>
  BY <1>5 DEF Travel, QueuedOnce, TakenOnce, Handles
<1> QED
  BY <1>1, <1>2, <1>3, <1>4, <1>5, AcceptTravel, CancelTravel, GoneTravel
     DEF Next, Refresh, BeginShutdown, CancelWorkers, StopTimesOut, Restart, Crash, SetStatus,
         Create, RotateToken, Edit, LeaseExpires, vars

\* The hook and the event of a request that was sent do not change.
LEMMA RequestStable ==
    ASSUME Travel, [Next]_vars, NEW r \in Requests, request[r].place # "unsent"
    PROVE  request'[r].hook = request[r].hook /\ request'[r].event = request[r].event
<1> DEFINE Same == request'[r].hook = request[r].hook /\ request'[r].event = request[r].event
<1>0. request \in [Requests -> Request]
  BY DEF Travel
<1>1. ASSUME NEW s \in Requests, NEW place, request' = [request EXCEPT ![s].place = place]
      PROVE  Same
  BY <1>0, <1>1 DEF Request
<1>2. ASSUME NEW w \in Workers, NEW place, request' = Becomes(w, place) PROVE Same
  BY <1>1, <1>2, WorkerTypes DEF Becomes
<1>3. ASSUME NEW s \in Requests, NEW h \in Hooks, NEW e \in Events, NEW key \in 0..1,
             Arrives(s, h, e, key)
      PROVE  Same
  BY <1>0, <1>3 DEF Arrives
<1>4. ASSUME NEW w \in Workers, Take(w) PROVE Same
  <2>1. Head(queue) \in Requests
    BY <1>4, HeadTailProperties DEF Take, Travel
  <2> QED
    BY <1>1, <1>4, <2>1 DEF Take
<1>5. ASSUME Cancellation PROVE Same
  BY <1>0, <1>5 DEF Cancellation, Request
<1>6. ASSUME Gone PROVE Same
  BY <1>0, <1>6 DEF Gone, Request
<1>7. ASSUME UNCHANGED request PROVE Same
  BY <1>7
<1> HIDE DEF Same
<1>8. Same
  BY <1>1, <1>2, <1>3, <1>4, <1>5, <1>6, <1>7
     DEF Next, Progress, Reject, Accept, LookUp, Claim, Deduplicate, TargetGone,
         MarkStarted, LeaseLost, RunEnds, Complete, Release, WorkerEnds, Refresh, Raises,
         LoopCatches, BeginShutdown, CancelWorkers, StopTimesOut, Restart, Crash, SetStatus,
         Create, RotateToken, Edit, LeaseExpires, vars
<1> QED
  BY <1>8 DEF Same

\* A worker that is busy after a step has just claimed, or was busy before; its
\* request is the same.
LEMMA BusyStep ==
    ASSUME Travel, [Next]_vars, NEW w \in Workers, Busy(w)'
    PROVE  /\ Claim(w) \/ Busy(w)
           /\ HookOf(w)' = HookOf(w) /\ EventOf(w)' = EventOf(w)
<1> DEFINE Same == (Claim(w) \/ Busy(w)) /\ worker'[w].request = worker[w].request
<1>0. worker \in [Workers -> WorkerState]
  BY DEF Travel
<1>2. ASSUME NEW v \in Workers, Claim(v) PROVE Same
  BY <1>0, <1>2 DEF Claim, Place, Busy, InTry, At, WorkerState
<1>3. ASSUME NEW v \in Workers, Busy(v), NEW place, worker' = Place(v, place) PROVE Same
  BY <1>0, <1>3 DEF Place, Busy, InTry, At, WorkerState
<1>4. ASSUME NEW v \in Workers, NEW state \in {Idle, Ended}, worker' = Leaves(v, state) PROVE Same
  BY <1>0, <1>4, IdleType DEF Leaves, Busy, InTry, At
<1>5. ASSUME NEW v \in Workers, Take(v) \/ LookUp(v) PROVE Same
  BY <1>0, <1>5 DEF Take, LookUp, Place, Busy, InTry, At, WorkerState
<1>6. ASSUME Cancellation PROVE Same
  BY <1>0, <1>6, IdleType DEF Cancellation, Busy, InTry, At, WorkerState
<1>7. ASSUME Gone PROVE Same
  BY <1>0, <1>7, IdleType DEF Gone, Busy, InTry, At
<1>8. UNCHANGED worker => Same
  BY DEF Busy, InTry, At
<1> HIDE DEF Same
<1>9. ASSUME NEW v \in Workers, MarkStarted(v) \/ LeaseLost(v) \/ RunEnds(v) \/ Raises(v)
      PROVE  Same
  <2>1. Busy(v)
    BY <1>9 DEF MarkStarted, LeaseLost, RunEnds, Raises, At, InTry, Busy
  <2> QED
    BY <1>3, <1>9, <2>1 DEF MarkStarted, LeaseLost, RunEnds, Raises
<1>10. Same
  BY <1>2, <1>4, <1>5, <1>6, <1>7, <1>8, <1>9
     DEF Next, Progress, Arrives, Reject, Accept, Deduplicate, TargetGone, Complete,
         Release, WorkerEnds, Refresh, LoopCatches, BeginShutdown, CancelWorkers,
         StopTimesOut, Restart, Crash, SetStatus, Create, RotateToken, Edit, LeaseExpires,
         vars
<1>11. worker[w].request \in Requests /\ request[worker[w].request].place = "taken"
  BY <1>10, WorkerTypes DEF Same, Claim, Busy, InTry, Travel, TakenOnce, Handles, At
<1> QED
  BY <1>10, <1>11, RequestStable DEF Same, HookOf, EventOf

-----------------------------------------------------------------------------
(* The table of hooks *)

\* What a step does to a row: it is claimed, its lease is renewed or runs out,
\* its claim ends, or an operator edits it.
Claimed(h, row) == \E w \in Workers : /\ Claim(w) /\ HookOf(w) = h /\ row.event = EventOf(w)
                                      /\ row.token = w /\ row.until = Live
Renewed(h, row) == /\ row.event = hook[h].event /\ row.token = hook[h].token
                   /\ row.token # NoWorker /\ row.until = Live
Expired(h, row) == /\ LeaseExpires(h) /\ row.event = hook[h].event /\ row.token = hook[h].token
                   /\ row.token # NoWorker /\ row.until \in 0..MaxExpiries
GivenUp(h, row) ==
    /\ row.event = NoEvent /\ row.token = NoWorker
    /\ \E w \in Workers : (Complete(w) \/ Release(w)) /\ Holds(w) /\ HookOf(w) = h
Edited(h, row) == /\ row.event = hook[h].event /\ row.token = hook[h].token
                  /\ row.until = hook[h].until

RowChange(h, row) ==
    Claimed(h, row) \/ Renewed(h, row) \/ Expired(h, row) \/ GivenUp(h, row) \/ Edited(h, row)

LEMMA TableStep ==
    ASSUME Types, [Next]_vars
    PROVE  \/ hook' = hook
           \/ \E h \in Hooks, row \in HookRow : hook' = [hook EXCEPT ![h] = row] /\ RowChange(h, row)
<1> DEFINE Change == \E h \in Hooks, row \in HookRow :
                        hook' = [hook EXCEPT ![h] = row] /\ RowChange(h, row)
<1>0. /\ Travel /\ hook \in [Hooks -> HookRow] /\ NoWorker \notin Workers /\ MaxExpiries \in Nat
      /\ \A h \in Hooks : hook[h].event = NoEvent <=> hook[h].token = NoWorker
      /\ clock \in 0..MaxExpiries /\ Live \in 0..Live /\ 0 \in 0..Live
  BY WebhookAssumption DEF Types, TypeOK, Live
<1>1. ASSUME NEW w \in Workers, Claim(w) PROVE Change
  <2>1. PICK h \in Hooks, e \in Events : h = HookOf(w) /\ e = EventOf(w)
    BY <1>0, WorkerTypes
  <2> DEFINE row == [hook[h] EXCEPT !.event = e, !.token = w, !.until = Live]
  <2>2. row \in HookRow /\ row.event = e /\ row.token = w /\ row.until = Live
    BY <1>0 DEF HookRow
  <2>3. hook' = [hook EXCEPT ![h] = row]
    BY <1>0, <1>1, <2>1 DEF Claim
  <2> HIDE DEF row
  <2> QED
    BY <1>1, <2>1, <2>2, <2>3 DEF RowChange, Claimed
<1>2. ASSUME NEW w \in Workers, Refresh(w) PROVE Change
  <2>1. PICK h \in Hooks : h = HookOf(w) /\ hook[h].token = w
    BY <1>0, <1>2, WorkerTypes DEF Refresh, Holds
  <2> DEFINE row == [hook[h] EXCEPT !.until = Live]
  <2>2. /\ row \in HookRow /\ row.event = hook[h].event /\ row.token = hook[h].token
        /\ row.until = Live
    BY <1>0 DEF HookRow
  <2>3. hook' = [hook EXCEPT ![h] = row]
    BY <1>2, <2>1 DEF Refresh
  <2> HIDE DEF row
  <2> QED
    BY <1>0, <2>1, <2>2, <2>3 DEF RowChange, Renewed
<1>3. ASSUME NEW w \in Workers, Complete(w) \/ Release(w), Holds(w) PROVE Change
  <2>1. PICK h \in Hooks : h = HookOf(w)
    BY <1>0, WorkerTypes
  <2> DEFINE row == Free(hook[h])
  <2>2. row \in HookRow /\ row.event = NoEvent /\ row.token = NoWorker
    BY <1>0 DEF HookRow, Free
  <2>3. hook' = [hook EXCEPT ![h] = row]
    BY <1>3, <2>1 DEF Complete, Release
  <2> HIDE DEF row
  <2> QED
    BY <1>3, <2>1, <2>2, <2>3 DEF RowChange, GivenUp
<1>4. ASSUME NEW h \in Hooks, NEW row \in HookRow, hook' = [hook EXCEPT ![h] = row],
             row.event = hook[h].event, row.token = hook[h].token, row.until = hook[h].until
      PROVE  Change
  BY <1>4 DEF RowChange, Edited
<1>5. ASSUME NEW h \in Hooks, LeaseExpires(h) PROVE Change
  <2>0. clock + 1 \in 0..Live /\ clock + 1 \in 0..MaxExpiries /\ hook[h].token # NoWorker
    BY <1>0, <1>5 DEF LeaseExpires, Live
  <2> DEFINE t == clock + 1
             row == [hook[h] EXCEPT !.until = t]
  <2>1. hook' = [hook EXCEPT ![h] = row]
    BY <1>5 DEF LeaseExpires
  <2> HIDE DEF t
  <2>2. /\ row \in HookRow /\ row.event = hook[h].event /\ row.token = hook[h].token
        /\ row.until = t /\ t \in 0..MaxExpiries
    BY <1>0, <2>0 DEF HookRow, t
  <2> HIDE DEF row
  <2> QED
    BY <1>5, <2>0, <2>1, <2>2 DEF RowChange, Expired
<1> HIDE DEF Change
<1>6. ASSUME NEW h \in Hooks, NEW status \in {"active", "paused", "deleted"},
             hook' = [hook EXCEPT ![h].status = status]
      PROVE  Change
  <2> DEFINE row == [hook[h] EXCEPT !.status = status]
  <2>1. /\ row \in HookRow /\ row.event = hook[h].event /\ row.token = hook[h].token
        /\ row.until = hook[h].until
    BY <1>0 DEF HookRow
  <2>2. hook' = [hook EXCEPT ![h] = row]
    BY <1>6
  <2> HIDE DEF row
  <2> QED
    BY <1>4, <2>1, <2>2
<1>7. ASSUME NEW h \in Hooks, RotateToken(h) PROVE Change
  <2> DEFINE row == [hook[h] EXCEPT !.key = 1]
  <2>1. /\ row \in HookRow /\ row.event = hook[h].event /\ row.token = hook[h].token
        /\ row.until = hook[h].until
    BY <1>0 DEF HookRow
  <2>2. hook' = [hook EXCEPT ![h] = row]
    BY <1>7 DEF RotateToken
  <2> HIDE DEF row
  <2> QED
    BY <1>4, <2>1, <2>2
<1>8. ASSUME NEW w \in Workers, Complete(w) \/ Release(w) PROVE Change \/ hook' = hook
  BY <1>3, <1>8 DEF Complete, Release
<1>9. Change \/ hook' = hook
  BY <1>1, <1>2, <1>5, <1>6, <1>7, <1>8
     DEF Next, Progress, Arrives, Reject, Accept, Take, LookUp, Deduplicate, TargetGone,
         MarkStarted, LeaseLost, RunEnds, Raises, LoopCatches, BeginShutdown, CancelWorkers,
         StopTimesOut, Cancellation, Restart, Crash, Gone, SetStatus, Create, vars
<1> QED
  BY <1>9 DEF Change

-----------------------------------------------------------------------------
(* Type correctness *)

LEMMA TypeInit == Init => Types
<1> SUFFICES ASSUME Init PROVE Types
  OBVIOUS
<1>0. /\ Hooks # {} /\ Events # {} /\ Requests # {} /\ Initial \subseteq Hooks
      /\ MaxExpiries \in Nat /\ MaxFaults \in Nat /\ MaxEdits \in Nat
  BY WebhookAssumption
<1>1. /\ request \in [Requests -> Request] /\ worker \in [Workers -> WorkerState]
      /\ \A r \in Requests : request[r].place = "unsent"
      /\ \A w \in Workers : worker[w].place = "idle"
  <2>1. /\ (CHOOSE h \in Hooks : TRUE) \in Hooks /\ (CHOOSE e \in Events : TRUE) \in Events
        /\ (CHOOSE r \in Requests : TRUE) \in Requests
    BY <1>0
  <2>2. 0 \in 0..MaxExpiries /\ 0 \in 0..1
    BY <1>0
  <2> QED
    BY <2>1, <2>2, IdleType DEF Init, Request
<1>2. hook \in [Hooks -> HookRow] /\ \A h \in Hooks : hook[h].event = NoEvent /\ hook[h].token = NoWorker
  BY <1>0 DEF Init, HookRow, Live
<1>3. queue \in Seq(Requests) /\ Len(queue) = 0 /\ Range(queue) = {}
  BY DEF Init, Range
<1>4. Travel
  BY <1>1, <1>3 DEF Travel, QueuedOnce, TakenOnce, Handles
<1>5. processed \in [Hooks -> SUBSET Events] /\ runs \in [Hooks -> [Events -> Nat]]
  BY DEF Init
<1> QED
  BY <1>0, <1>1, <1>2, <1>3, <1>4, <1>5 DEF Init, Types, TypeOK

LEMMA HookNext ==
    ASSUME Types, [Next]_vars
    PROVE  /\ hook' \in [Hooks -> HookRow]
           /\ \A h \in Hooks : hook'[h].event = NoEvent <=> hook'[h].token = NoWorker
<1>0. /\ hook \in [Hooks -> HookRow] /\ NoWorker \notin Workers /\ NoEvent \notin Events
      /\ \A h \in Hooks : hook[h].event = NoEvent <=> hook[h].token = NoWorker
      /\ \A w \in Workers : EventOf(w) \in Events
  BY WebhookAssumption, WorkerTypes DEF Types, TypeOK
<1>1. ASSUME NEW h \in Hooks, NEW row \in HookRow, hook' = [hook EXCEPT ![h] = row],
             RowChange(h, row)
      PROVE  /\ hook' \in [Hooks -> HookRow]
             /\ \A g \in Hooks : hook'[g].event = NoEvent <=> hook'[g].token = NoWorker
  <2>1. row.event = NoEvent <=> row.token = NoWorker
    BY <1>0, <1>1 DEF RowChange, Claimed, Renewed, Expired, GivenUp, Edited
  <2> QED
    BY <1>0, <1>1, <2>1
<1> QED
  BY <1>0, <1>1, TableStep

\* Only Complete changes the history of executions, when it holds the claim.
LEMMA RunsStep ==
    ASSUME Types, [Next]_vars
    PROVE  \/ UNCHANGED <<processed, runs>>
           \/ \E w \in Workers, h \in Hooks, e \in Events :
                 /\ Complete(w) /\ Holds(w) /\ h = HookOf(w) /\ e = EventOf(w)
                 /\ hook[h].event = e
                 /\ processed' = [processed EXCEPT ![h] = @ \cup {e}]
                 /\ runs' = [runs EXCEPT ![h][e] = @ + 1]
<1>1. ASSUME NEW w \in Workers, Complete(w), Holds(w)
      PROVE  \E h \in Hooks, e \in Events :
                 /\ h = HookOf(w) /\ e = EventOf(w) /\ hook[h].event = e
                 /\ processed' = [processed EXCEPT ![h] = @ \cup {e}]
                 /\ runs' = [runs EXCEPT ![h][e] = @ + 1]
  <2>1. PICK h \in Hooks, e \in Events : h = HookOf(w) /\ e = EventOf(w)
    BY WorkerTypes DEF Types
  <2> QED
    BY <1>1, <2>1 DEF Complete, Holds
<1>2. \/ UNCHANGED <<processed, runs>>
      \/ \E w \in Workers : Complete(w) /\ Holds(w)
  BY DEF Next, Progress, Arrives, Reject, Accept, Take, LookUp, Claim, Deduplicate,
         TargetGone, MarkStarted, LeaseLost, RunEnds, Complete, Release, Refresh, Raises,
         LoopCatches, BeginShutdown, CancelWorkers, StopTimesOut, Cancellation, Restart,
         Crash, Gone, SetStatus, Create, RotateToken, Edit, LeaseExpires, vars
<1> QED
  BY <1>1, <1>2

LEMMA CountersNext ==
    ASSUME TypeOK, [Next]_vars
    PROVE  /\ clock' \in 0..MaxExpiries /\ late' \subseteq Hooks /\ late \subseteq late'
           /\ faults' \in 0..MaxFaults /\ edits' \in 0..MaxEdits
           /\ daemon' \in {"up", "stopping", "closing", "overdue"}
<1>0. /\ clock \in 0..MaxExpiries /\ late \subseteq Hooks /\ faults \in 0..MaxFaults
      /\ edits \in 0..MaxEdits /\ daemon \in {"up", "stopping", "closing", "overdue"}
      /\ MaxExpiries \in Nat /\ MaxFaults \in Nat /\ MaxEdits \in Nat
  BY WebhookAssumption DEF TypeOK
<1> USE DEF Next, Progress, Arrives, Reject, Accept, Take, LookUp, Claim, Deduplicate,
            TargetGone, MarkStarted, LeaseLost, RunEnds, Complete, Release, Refresh, Raises,
            LoopCatches, BeginShutdown, CancelWorkers, StopTimesOut, Cancellation, Restart,
            Crash, Gone, SetStatus, Create, RotateToken, Edit, LeaseExpires, vars
<1>1. late' = late \/ \E h \in Hooks : late' = late \cup {h}
  OBVIOUS
<1>2. faults' = faults \/ (faults < MaxFaults /\ faults' = faults + 1)
  OBVIOUS
<1>3. edits' = edits \/ (edits < MaxEdits /\ edits' = edits + 1)
  OBVIOUS
<1>4. clock' = clock \/ (clock < MaxExpiries /\ clock' = clock + 1)
  OBVIOUS
<1>5. daemon' = daemon \/ daemon' \in {"up", "stopping", "closing", "overdue"}
  OBVIOUS
<1> QED
  <2> HIDE DEF Next
  <2> QED
    BY <1>0, <1>1, <1>2, <1>3, <1>4, <1>5

LEMMA TypeNext == Types /\ [Next]_vars => Types'
<1> SUFFICES ASSUME Types, [Next]_vars PROVE Types'
  OBVIOUS
<1>1. Travel'
  BY TravelNext DEF Types
<1>2. processed' \in [Hooks -> SUBSET Events] /\ runs' \in [Hooks -> [Events -> Nat]]
  <2>0. processed \in [Hooks -> SUBSET Events] /\ runs \in [Hooks -> [Events -> Nat]]
    BY DEF Types, TypeOK
  <2>1. ASSUME NEW h \in Hooks, NEW e \in Events,
               processed' = [processed EXCEPT ![h] = @ \cup {e}],
               runs' = [runs EXCEPT ![h][e] = @ + 1]
        PROVE  processed' \in [Hooks -> SUBSET Events] /\ runs' \in [Hooks -> [Events -> Nat]]
    <3>1. runs[h][e] + 1 \in Nat
      BY <2>0
    <3>2. processed[h] \cup {e} \in SUBSET Events
      BY <2>0
    <3> QED
      BY <2>0, <2>1, <3>1, <3>2
  <2> QED
    BY <2>0, <2>1, RunsStep
<1>3. \A r \in Requests : r \in Range(queue') <=> \E i \in 1..Len(queue') : queue'[i] = r
  BY <1>1, LenProperties DEF Travel, Range
<1> QED
  BY <1>1, <1>2, <1>3, HookNext, CountersNext DEF Types, TypeOK, Travel

\* Type correctness; in particular a request is in the queue exactly while it is
\* marked as queued.
THEOREM TypeCorrect == Spec => []TypeOK
<1>1. Spec => []Types
  BY TypeInit, TypeNext, PTL DEF Spec
<1> QED
  BY <1>1, PTL DEF Types

-----------------------------------------------------------------------------
(* An event is completed at most once *)

\* What makes it inductive: the event in progress has not been processed, and an
\* event that ran to its end has.
OnceInv == \A h \in Hooks :
    /\ hook[h].event \notin processed[h]
    /\ \A e \in Events : runs[h][e] = IF e \in processed[h] THEN 1 ELSE 0

LEMMA OnceInit == Init => OnceInv
  BY DEF Init, OnceInv

LEMMA OnceNext == Types /\ OnceInv /\ [Next]_vars => OnceInv'
<1> SUFFICES ASSUME Types, OnceInv, [Next]_vars PROVE OnceInv'
  OBVIOUS
<1>0. /\ hook \in [Hooks -> HookRow] /\ processed \in [Hooks -> SUBSET Events]
      /\ runs \in [Hooks -> [Events -> Nat]] /\ NoEvent \notin Events
  BY WebhookAssumption DEF Types, TypeOK
<1>1. CASE UNCHANGED <<processed, runs>>
  <2>1. ASSUME NEW h \in Hooks, NEW row \in HookRow, hook' = [hook EXCEPT ![h] = row],
               RowChange(h, row)
        PROVE  row.event \notin processed[h]
    <3>1. CASE Claimed(h, row)
      BY <3>1 DEF Claimed, Claim, Claimable
    <3>2. CASE GivenUp(h, row)
      BY <1>0, <3>2 DEF GivenUp
    <3>3. CASE Renewed(h, row) \/ Expired(h, row) \/ Edited(h, row)
      BY <3>3 DEF Renewed, Expired, Edited, OnceInv
    <3> QED
      BY <2>1, <3>1, <3>2, <3>3 DEF RowChange
  <2>2. \A h \in Hooks : hook'[h].event \notin processed[h]
    BY <1>0, <2>1, TableStep DEF OnceInv
  <2> QED
    BY <1>1, <2>2 DEF OnceInv
<1>2. ASSUME NEW w \in Workers, NEW h \in Hooks, NEW e \in Events,
             Complete(w), Holds(w), h = HookOf(w), hook[h].event = e,
             processed' = [processed EXCEPT ![h] = @ \cup {e}],
             runs' = [runs EXCEPT ![h][e] = @ + 1]
      PROVE  OnceInv'
  <2>1. hook' = [hook EXCEPT ![h] = Free(hook[h])]
    BY <1>2 DEF Complete
  <2>2. hook'[h].event = NoEvent /\ \A g \in Hooks : g # h => hook'[g] = hook[g]
    BY <1>0, <2>1 DEF Free, HookRow
  <2>3. e \notin processed[h] /\ runs[h][e] = 0
    BY <1>2 DEF OnceInv
  <2>4. /\ processed'[h] = processed[h] \cup {e}
        /\ \A g \in Hooks : g # h => processed'[g] = processed[g] /\ runs'[g] = runs[g]
    BY <1>0, <1>2
  <2>5. runs'[h][e] = 1 /\ \A f \in Events : f # e => runs'[h][f] = runs[h][f]
    BY <1>0, <1>2, <2>3
  <2>6. \A f \in Events : runs'[h][f] = IF f \in processed'[h] THEN 1 ELSE 0
    BY <2>4, <2>5 DEF OnceInv
  <2>7. hook'[h].event \notin processed'[h]
    BY <1>0, <2>2, <2>4
  <2> QED
    BY <2>2, <2>4, <2>6, <2>7 DEF OnceInv
<1> QED
  BY <1>1, <1>2, RunsStep

\* An event is executed to its end at most once, for any number of deliveries,
\* workers, expired leases, restarts and crashes.
THEOREM EventCompletedOnce == Spec => []CompletedOnce
<1>1. OnceInv => CompletedOnce
  BY DEF OnceInv, CompletedOnce
<1> QED
  BY <1>1, TypeInit, TypeNext, OnceInit, OnceNext, PTL DEF Spec

-----------------------------------------------------------------------------
(* One event at a time, and lost claims *)

\* A busy worker holds its hook under a lease that runs, unless the lease ran
\* out while a worker was busy with it.
OwnInv == \A w \in Workers : Busy(w) =>
    (Holds(w) /\ hook[HookOf(w)].until = Live) \/ HookOf(w) \in late

LEMMA OwnInit == Init => OwnInv
  BY DEF Init, OwnInv, Busy, InTry, At, Idle

\* A completed or released event leaves its worker idle.
LEMMA EndedIsIdle ==
    ASSUME Types, NEW w \in Workers, Complete(w) \/ Release(w)
    PROVE  ~Busy(w)'
  BY IdleType DEF Types, Travel, Complete, Release, WorkerEnds, Leaves, Busy, InTry, At

LEMMA OwnRowStep ==
    ASSUME Types, OwnInv, [Next]_vars, NEW w \in Workers, Busy(w)', Busy(w), Holds(w),
           NEW h \in Hooks, h = HookOf(w), hook[h].until = Live
    PROVE  \/ hook'[h].event = EventOf(w) /\ hook'[h].token = w /\ hook'[h].until = Live
           \/ h \in late'
<1>0. /\ hook \in [Hooks -> HookRow] /\ worker \in [Workers -> WorkerState]
      /\ hook[h].token = w /\ hook[h].event = EventOf(w) /\ NoWorker \notin Workers
      /\ hook[h].event # NoEvent /\ MaxExpiries \in Nat
  BY WebhookAssumption DEF Types, TypeOK, Holds
<1>1. ASSUME NEW row \in HookRow, hook' = [hook EXCEPT ![h] = row], RowChange(h, row)
      PROVE  (row.event = EventOf(w) /\ row.token = w /\ row.until = Live) \/ h \in late'
  <2>1. ASSUME NEW v \in Workers, Claim(v), HookOf(v) = h PROVE FALSE
    <3>1. Live <= worker[v].received
      BY <1>0, <2>1 DEF Claim, Claimable
    <3>2. worker[v].received \in 0..MaxExpiries
      BY <1>0 DEF WorkerState
    <3> QED
      BY <1>0, <3>1, <3>2 DEF Live
  <2>2. CASE LeaseExpires(h)
    <3>1. Attended(h)
      BY DEF Attended
    <3> QED
      BY <2>2, <3>1 DEF LeaseExpires
  <2>3. ASSUME NEW v \in Workers, Complete(v) \/ Release(v), Holds(v), HookOf(v) = h PROVE FALSE
    BY <1>0, <2>3, EndedIsIdle DEF Holds
  <2> QED
    BY <1>0, <1>1, <2>1, <2>2, <2>3 DEF RowChange, Claimed, Renewed, Expired, GivenUp, Edited
<1> QED
  BY <1>0, <1>1, TableStep

LEMMA OwnNext == Types /\ OwnInv /\ [Next]_vars => OwnInv'
<1> SUFFICES ASSUME Types, OwnInv, [Next]_vars, NEW w \in Workers, Busy(w)'
             PROVE  (Holds(w)' /\ hook'[HookOf(w)'].until = Live) \/ HookOf(w)' \in late'
  BY DEF OwnInv
<1>0. /\ hook \in [Hooks -> HookRow] /\ late \subseteq late' /\ Travel
      /\ HookOf(w) \in Hooks /\ EventOf(w) \in Events
  BY CountersNext, WorkerTypes DEF Types, TypeOK
<1>1. (Claim(w) \/ Busy(w)) /\ HookOf(w)' = HookOf(w) /\ EventOf(w)' = EventOf(w)
  BY <1>0, BusyStep
<1>2. CASE Claim(w)
  <2>1. PICK h \in Hooks, e \in Events : h = HookOf(w) /\ e = EventOf(w)
    BY <1>0
  <2>2. hook' = [hook EXCEPT ![h].event = e, ![h].token = w, ![h].until = Live]
    BY <1>2, <2>1 DEF Claim
  <2>3. hook'[h].event = e /\ hook'[h].token = w /\ hook'[h].until = Live
    BY <1>0, <2>2 DEF HookRow
  <2> QED
    BY <1>1, <2>1, <2>3 DEF Holds
<1>3. CASE Busy(w) /\ HookOf(w) \in late
  BY <1>0, <1>1, <1>3
<1>4. CASE Busy(w) /\ HookOf(w) \notin late
  <2>1. Holds(w) /\ hook[HookOf(w)].until = Live
    BY <1>4 DEF OwnInv
  <2> QED
    BY <1>0, <1>1, <1>4, <2>1, OwnRowStep DEF Holds
<1> QED
  BY <1>1, <1>2, <1>3, <1>4

\* No hook handles two events at once, for any number of workers, unless a lease
\* ran out under a worker that was busy.
THEOREM OneAtATime == Spec => []OneEventAtATime
<1>1. OwnInv => OneEventAtATime
  BY DEF OwnInv, OneEventAtATime, Holds
<1> QED
  BY <1>1, TypeInit, TypeNext, OwnInit, OwnNext, PTL DEF Spec

\* For every step of every worker: one that no longer holds the claim changes
\* neither the row nor the processed events.
LEMMA LostClaimStep ==
    ASSUME Types, [Next]_vars, NEW w \in Workers, Busy(w), hook[HookOf(w)].token # w,
           worker'[w] # worker[w]
    PROVE  UNCHANGED <<hook, processed>>
<1>0. worker \in [Workers -> WorkerState]
  BY DEF Types, TypeOK
<1>1. ASSUME NEW v \in Workers, v # w, Claim(v) \/ Complete(v) \/ Release(v) PROVE FALSE
  <2>1. worker'[w] = worker[w]
    BY <1>0, <1>1 DEF Claim, Complete, Release, WorkerEnds, Leaves, Place
  <2> QED
    BY <2>1
<1>2. ~Claim(w)
  BY DEF Claim, Busy, InTry, At
<1>3. CASE Complete(w) \/ Release(w)
  BY <1>3 DEF Complete, Release, Holds
<1>4. CASE UNCHANGED worker
  BY <1>4
<1> QED
  BY <1>1, <1>2, <1>3, <1>4
     DEF Next, Progress, Arrives, Reject, Accept, Take, LookUp, Deduplicate, TargetGone,
         MarkStarted, LeaseLost, RunEnds, Refresh, Raises, LoopCatches, BeginShutdown,
         CancelWorkers, StopTimesOut, Cancellation, Restart, Crash, Gone, SetStatus, Create,
         RotateToken, Edit, LeaseExpires, vars

THEOREM LostClaimsChangeNothing == Spec => LostClaimHarmless
<1>1. Types /\ [Next]_vars =>
        [\A w \in Workers :
          (Busy(w) /\ hook[HookOf(w)].token # w /\ worker'[w] # worker[w])
            => UNCHANGED <<hook, processed>>]_vars
  BY LostClaimStep
<1> QED
  BY <1>1, TypeInit, TypeNext, PTL DEF Spec, LostClaimHarmless

-----------------------------------------------------------------------------
(* Claims are leases *)

LEMMA SetExpired ==
    ASSUME NEW r, NEW holder, NEW e, r = [holder |-> holder, expired |-> e]
    PROVE  r.holder = holder /\ \A f : [r EXCEPT !.expired = f] = [holder |-> holder, expired |-> f]
  OBVIOUS

LEMMA LeaseStep ==
    ASSUME Types, [Next]_vars
    PROVE  [Lease!Next]_Leases
<1>0. /\ hook \in [Hooks -> HookRow] /\ worker \in [Workers -> WorkerState]
      /\ MaxExpiries \in Nat /\ NoWorker \notin Workers
      /\ \A h \in Hooks : hook[h].event = NoEvent <=> hook[h].token = NoWorker
  BY WebhookAssumption DEF Types, TypeOK
<1>1. CASE hook' = hook
  BY <1>1 DEF Leases
<1>2. ASSUME NEW h \in Hooks, NEW row \in HookRow, hook' = [hook EXCEPT ![h] = row],
             RowChange(h, row)
      PROVE  Lease!Next \/ Leases' = Leases
  <2> DEFINE new == [holder |-> row.token, expired |-> row.token # NoWorker /\ row.until # Live]
  <2>1. Leases' = [Leases EXCEPT ![h] = new]
    BY <1>0, <1>2 DEF Leases
  <2>2. CASE Claimed(h, row)
    <3>1. PICK w \in Workers : Claim(w) /\ HookOf(w) = h /\ row.token = w /\ row.until = Live
      BY <2>2 DEF Claimed
    <3>2. hook[h].token = NoWorker \/ hook[h].until <= worker[w].received
      BY <1>0, <3>1 DEF Claim, Claimable
    <3>3. hook[h].until <= worker[w].received => hook[h].until # Live
      BY <1>0, <3>1 DEF WorkerState, Live
    <3>4. Leases[h].holder = NoWorker \/ Leases[h].expired
      BY <3>2, <3>3 DEF Leases
    <3>5. new = [holder |-> w, expired |-> FALSE]
      BY <3>1
    <3>6. Leases' = [Leases EXCEPT ![h] = [holder |-> w, expired |-> FALSE]]
      BY <2>1, <3>5
    <3>7. Lease!Take(h, w)
      BY <3>4, <3>6 DEF Lease!Take
    <3> QED
      BY <3>7 DEF Lease!Next
  <2>3. CASE Renewed(h, row)
    <3>a. new = [holder |-> hook[h].token, expired |-> FALSE] /\ hook[h].token # NoWorker
      BY <2>3 DEF Renewed
    <3>b. PICK e : Leases[h] = [holder |-> hook[h].token, expired |-> e]
      BY DEF Leases
    <3>1. Leases[h].holder # NoWorker /\ new = [Leases[h] EXCEPT !.expired = FALSE]
      <4> HIDE DEF new
      <4>1. \A f : [Leases[h] EXCEPT !.expired = f] = [holder |-> hook[h].token, expired |-> f]
        BY <3>b, SetExpired
      <4> QED
        BY <3>a, <3>b, <4>1
    <3>2. Leases' = [Leases EXCEPT ![h].expired = FALSE]
      BY <2>1, <3>1
    <3> QED
      BY <3>1, <3>2 DEF Lease!Next, Lease!Renew
  <2>4. CASE Expired(h, row)
    <3>0. row.until # Live
      BY <1>0, <2>4 DEF Expired, Live
    <3>a. new = [holder |-> hook[h].token, expired |-> TRUE] /\ hook[h].token # NoWorker
      BY <2>4, <3>0 DEF Expired
    <3>b. PICK e : Leases[h] = [holder |-> hook[h].token, expired |-> e]
      BY DEF Leases
    <3>1. Leases[h].holder # NoWorker /\ new = [Leases[h] EXCEPT !.expired = TRUE]
      <4> HIDE DEF new
      <4>1. \A f : [Leases[h] EXCEPT !.expired = f] = [holder |-> hook[h].token, expired |-> f]
        BY <3>b, SetExpired
      <4> QED
        BY <3>a, <3>b, <4>1
    <3>2. Leases' = [Leases EXCEPT ![h].expired = TRUE]
      BY <2>1, <3>1
    <3> QED
      BY <3>1, <3>2 DEF Lease!Next, Lease!Expire
  <2>5. CASE GivenUp(h, row)
    <3>1. new = Lease!Unheld
      BY <2>5 DEF GivenUp, Lease!Unheld
    <3> QED
      BY <2>1, <3>1 DEF Lease!Next, Lease!GiveUp
  <2>6. CASE Edited(h, row)
    <3>1. new = Leases[h]
      BY <2>6 DEF Edited, Leases
    <3> QED
      BY <2>1, <3>1 DEF Leases
  <2> QED
    BY <1>2, <2>2, <2>3, <2>4, <2>5, <2>6 DEF RowChange
<1> QED
  BY <1>1, <1>2, TableStep

\* The claim columns behave as LeasedResource promises: a claim is taken when the
\* hook is free or its lease ran out, and kept by its holder otherwise.
THEOREM ClaimsImplementLeases == Spec => ClaimsAreLeases
<1>1. Init => Lease!Init
  <2> SUFFICES ASSUME Init PROVE Lease!Init
    OBVIOUS
  <2>1. \A h \in Hooks : hook[h].token = NoWorker
    BY DEF Init
  <2> QED
    BY <2>1 DEF Lease!Init, Lease!Unheld, Leases
<1>2. Types /\ [Next]_vars => [Lease!Next]_Leases
  BY LeaseStep
<1> QED
  BY <1>1, <1>2, TypeInit, TypeNext, PTL DEF Spec, ClaimsAreLeases, Lease!Spec
=============================================================================
