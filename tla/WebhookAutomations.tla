------------------------- MODULE WebhookAutomations -------------------------
(***************************************************************************)
(* Webhook automations: the HTTP ingress of the automation daemon puts     *)
(* events into a bounded queue in memory, and its workers claim, run and   *)
(* complete them under a lease on the row of the automation.               *)
(*                                                                         *)
(* Abstractions.  An event is its idempotency hash.  The clock counts the  *)
(* leases that have run out: in_progress_until is Live, then the count at  *)
(* which it ran out, so that the comparison with received_at is exact.  A  *)
(* claim token (random, one for each claim) is the worker that claimed: it *)
(* handles one event at a time.  The webhook token is its version.         *)
(***************************************************************************)
EXTENDS Integers, Sequences, FiniteSets, SequencesExt

CONSTANTS
    Hooks,          \* automations with a webhook trigger
    Events,         \* deliveries, by idempotency hash
    NoEvent,        \* in_progress_event_hash IS NULL
    Workers,        \* worker loops of the daemon
    NoWorker,       \* claim_token IS NULL
    Requests,       \* HTTP requests, each sent once
    QueueSize,      \* runtime_queue_max_size
    Initial,        \* automations that exist at the start
    MaxEdits,       \* bound: operations of operators, stops among them
    MaxExpiries,    \* bound: leases that run out
    MaxFaults       \* bound: failures, crashes, late refreshes

Live == MaxExpiries + 1     \* a lease that has not run out

ASSUME WebhookAssumption ==
    /\ NoEvent \notin Events /\ NoWorker \notin Workers
    /\ QueueSize \in Nat \ {0} /\ MaxExpiries \in Nat /\ MaxFaults \in Nat
    /\ Initial \subseteq Hooks /\ MaxEdits \in Nat
    /\ Hooks # {} /\ Events # {} /\ Requests # {}

VARIABLES
    clock,      \* leases that have run out so far
    hook,       \* tables automation and automation_trigger_webhook
    processed,  \* table automation_webhook_processed_event
    request,    \* every HTTP request, and what became of its event
    queue,      \* RuntimeDaemon._queue
    worker,     \* each worker loop: its place, request and received_at
    daemon,     \* _shutting_down and the life of the process
    runs,       \* history: how often the execution of an event was completed
    late,       \* history: automations whose lease ran out under a live worker
    faults,     \* failures, crashes, late refreshes so far (bounded)
    edits       \* operations of operators and stops so far (bounded)

vars == <<clock, hook, processed, request, queue, worker, daemon, runs, late, faults, edits>>

HookRow == [status : {"absent", "active", "paused", "deleted"},
            key : 0..1,                             \* version of webhook_token_hash
            event : Events \cup {NoEvent},          \* in_progress_event_hash
            token : Workers \cup {NoWorker},        \* claim_token
            until : 0..Live]                        \* in_progress_until

Request == [place : {"unsent", "validating", "rejected", "queued", "taken",
                     "executed", "deduplicated", "failed", "lost"},
            hook : Hooks, event : Events, key : 0..1]

\* cancelled: the claim is being released after a cancellation, not a failure.
WorkerState == [place : {"idle", "taken", "found", "claimed", "running", "completing",
                         "releasing", "cancelled", "ended"},
                request : Requests,
                received : 0..MaxExpiries]

Idle == [place |-> "idle", request |-> CHOOSE r \in Requests : TRUE, received |-> 0]
Ended == [Idle EXCEPT !.place = "ended"]

TypeOK ==
    /\ clock \in 0..MaxExpiries
    /\ hook \in [Hooks -> HookRow]
    /\ \A h \in Hooks : hook[h].event = NoEvent <=> hook[h].token = NoWorker
    /\ processed \in [Hooks -> SUBSET Events]
    /\ request \in [Requests -> Request]
    /\ queue \in Seq(Requests)
    /\ \A r \in Requests : request[r].place = "queued" <=> r \in Range(queue)
    /\ worker \in [Workers -> WorkerState]
    /\ daemon \in {"up", "stopping", "closing", "overdue"}
    /\ runs \in [Hooks -> [Events -> Nat]]
    /\ late \subseteq Hooks
    /\ faults \in 0..MaxFaults /\ edits \in 0..MaxEdits

----------------------------------------------------------------------------
At(w, place) == worker[w].place = place
InTry(w) == worker[w].place \in {"claimed", "running", "completing"}
Busy(w) == InTry(w) \/ At(w, "releasing") \/ At(w, "cancelled")
HookOf(w) == request[worker[w].request].hook
EventOf(w) == request[worker[w].request].event

\* find_webhook_by_target: an active automation with this token.
Found(r) == hook[request[r].hook].status = "active" /\ hook[request[r].hook].key = request[r].key

\* Broken: what was processed before is not looked at.
ClaimableAgain(h, e, t) ==
    /\ hook[h].status = "active"
    /\ hook[h].event = NoEvent \/ hook[h].until <= t

\* Broken: the lease of the event in progress is not looked at.
ClaimableAlways(h, e, t) == hook[h].status = "active" /\ e \notin processed[h]

\* The WHERE clause of claim_webhook_event; t is received_at.
Claimable(h, e, t) ==
    /\ hook[h].status = "active"
    /\ e \notin processed[h]
    /\ hook[h].event = NoEvent \/ hook[h].until <= t

\* Broken: the claim token is not compared.
HoldsEvent(w) == hook[HookOf(w)].event = EventOf(w)

\* The WHERE clause of mark started, refresh, complete and release.
Holds(w) == hook[HookOf(w)].event = EventOf(w) /\ hook[HookOf(w)].token = w

\* Broken: the claim token stays on the row.
FreeEvent(row) == [row EXCEPT !.event = NoEvent, !.until = 0]

Free(row) == [row EXCEPT !.event = NoEvent, !.token = NoWorker, !.until = 0]

Place(w, place) == [worker EXCEPT ![w].place = place]
Leaves(w, state) == [worker EXCEPT ![w] = state]
Becomes(w, place) == [request EXCEPT ![worker[w].request].place = place]

\* Broken: a worker whose event failed does not take another one.
WorkerEndsOnFailure(w, place) ==
    /\ worker' = IF place = "failed" THEN worker ELSE Leaves(w, Idle)
    /\ request' = Becomes(w, place)

\* The worker loop calls task_done, whatever the end, and takes the next event.
WorkerEnds(w, place) ==
    /\ worker' = Leaves(w, Idle)
    /\ request' = Becomes(w, place)

----------------------------------------------------------------------------
(* HTTP ingress: _handle_webhook_request awaits the validation of the token *)

Arrives(r, h, e, key) ==
    /\ request[r].place = "unsent" /\ key <= hook[h].key
    /\ request' = [request EXCEPT ![r] =
         [place |-> IF daemon = "up" THEN "validating" ELSE "rejected",     \* 503
          hook |-> h, event |-> e, key |-> key]]
    /\ UNCHANGED <<clock, hook, processed, queue, worker, daemon, runs, late, faults, edits>>

\* 401 and 429.
Reject(r) ==
    /\ request[r].place = "validating"
    /\ ~Found(r) \/ Len(queue) = QueueSize
    /\ request' = [request EXCEPT ![r].place = "rejected"]
    /\ UNCHANGED <<clock, hook, processed, queue, worker, daemon, runs, late, faults, edits>>

\* 202.
Accept(r) ==
    /\ request[r].place = "validating"
    /\ Found(r) /\ Len(queue) < QueueSize
    /\ request' = [request EXCEPT ![r].place = "queued"]
    /\ queue' = Append(queue, r)
    /\ UNCHANGED <<clock, hook, processed, worker, daemon, runs, late, faults, edits>>

----------------------------------------------------------------------------
(* The worker loop and trigger_webhook_automation *)

Take(w) ==
    /\ At(w, "idle") /\ queue # <<>>
    /\ worker' = [worker EXCEPT ![w] =
         [place |-> "taken", request |-> Head(queue), received |-> clock]]
    /\ request' = [request EXCEPT ![Head(queue)].place = "taken"]
    /\ queue' = Tail(queue)
    /\ UNCHANGED <<clock, hook, processed, daemon, runs, late, faults, edits>>

\* _claim_op looks the automation up by its token; the claim that follows in
\* the same transaction does not compare the token again.
LookUp(w) ==
    /\ At(w, "taken") /\ Found(worker[w].request)
    /\ worker' = Place(w, "found")
    /\ UNCHANGED <<clock, hook, processed, request, queue, daemon, runs, late, faults, edits>>

\* automation_not_found: paused, deleted or given a new token in the meantime.
TargetGone(w) ==
    /\ At(w, "taken") /\ ~Found(worker[w].request)
    /\ WorkerEnds(w, "failed")
    /\ UNCHANGED <<clock, hook, processed, queue, daemon, runs, late, faults, edits>>

Claim(w) ==
    /\ At(w, "found")
    /\ Claimable(HookOf(w), EventOf(w), worker[w].received)
    /\ hook' = [hook EXCEPT ![HookOf(w)].event = EventOf(w),
                            ![HookOf(w)].token = w, ![HookOf(w)].until = Live]
    /\ worker' = Place(w, "claimed")
    /\ UNCHANGED <<clock, processed, request, queue, daemon, runs, late, faults, edits>>

\* A claim that is not granted is answered as deduplicated.
Deduplicate(w) ==
    /\ At(w, "found")
    /\ ~Claimable(HookOf(w), EventOf(w), worker[w].received)
    /\ WorkerEnds(w, "deduplicated")
    /\ UNCHANGED <<clock, hook, processed, queue, daemon, runs, late, faults, edits>>

MarkStarted(w) ==
    /\ At(w, "claimed")
    /\ worker' = Place(w, IF Holds(w) THEN "running" ELSE "releasing")
    /\ UNCHANGED <<clock, hook, processed, request, queue, daemon, runs, late, faults, edits>>

Refresh(w) ==
    /\ At(w, "running") /\ Holds(w)
    /\ hook' = [hook EXCEPT ![HookOf(w)].until = Live]
    /\ UNCHANGED <<clock, processed, request, queue, worker, daemon, runs, late, faults, edits>>

LeaseLost(w) ==
    /\ At(w, "running") /\ ~Holds(w)
    /\ worker' = Place(w, "releasing")
    /\ UNCHANGED <<clock, hook, processed, request, queue, daemon, runs, late, faults, edits>>

RunEnds(w) ==
    /\ At(w, "running")
    /\ worker' = Place(w, "completing")
    /\ UNCHANGED <<clock, hook, processed, request, queue, daemon, runs, late, faults, edits>>

\* The run raises or times out, or a database call of the try block does.
Raises(w) ==
    /\ InTry(w) /\ faults < MaxFaults
    /\ worker' = Place(w, "releasing")
    /\ faults' = faults + 1
    /\ UNCHANGED <<clock, hook, processed, request, queue, daemon, runs, late, edits>>

\* complete_webhook_event; without the claim it changes nothing and raises.
Complete(w) ==
    /\ At(w, "completing")
    /\ IF Holds(w)
       THEN /\ hook' = [hook EXCEPT ![HookOf(w)] = Free(@)]
            /\ processed' = [processed EXCEPT ![HookOf(w)] = @ \cup {EventOf(w)}]
            /\ runs' = [runs EXCEPT ![HookOf(w)][EventOf(w)] = @ + 1]
            /\ WorkerEnds(w, "executed")
       ELSE WorkerEnds(w, "failed") /\ UNCHANGED <<hook, processed, runs>>
    /\ UNCHANGED <<clock, queue, daemon, late, faults, edits>>

\* A database call of the claim or of a release raises: the loop logs it and
\* goes on, even if the worker was cancelled.
LoopCatches(w) ==
    /\ worker[w].place \in {"taken", "found", "releasing", "cancelled"} /\ faults < MaxFaults
    /\ WorkerEnds(w, "failed")
    /\ faults' = faults + 1
    /\ UNCHANGED <<clock, hook, processed, queue, daemon, runs, late, edits>>

\* release_webhook_event, after a failure and after a cancellation.  Without
\* the claim it raises, and then even a cancelled worker goes on.
Release(w) ==
    /\ At(w, "releasing") \/ At(w, "cancelled")
    /\ hook' = IF Holds(w) THEN [hook EXCEPT ![HookOf(w)] = Free(@)] ELSE hook
    /\ IF At(w, "cancelled") /\ Holds(w)
       THEN worker' = Leaves(w, Ended) /\ request' = Becomes(w, "failed")
       ELSE WorkerEnds(w, "failed")
    /\ UNCHANGED <<clock, processed, queue, daemon, runs, late, faults, edits>>

----------------------------------------------------------------------------
(* The life of the daemon *)

BeginShutdown ==
    /\ daemon = "up" /\ edits < MaxEdits
    /\ daemon' = "stopping"
    /\ edits' = edits + 1
    /\ UNCHANGED <<clock, hook, processed, request, queue, worker, runs, late, faults>>

\* Every worker is cancelled where it is: a claimed event is released, one that
\* is not claimed yet is dropped, a release under way is abandoned.
Cancellation ==
    /\ worker' = [w \in Workers |->
          IF InTry(w) THEN [worker[w] EXCEPT !.place = "cancelled"] ELSE Ended]
    /\ request' = [r \in Requests |->
          IF \E w \in Workers : /\ worker[w].request = r
                               /\ worker[w].place \in {"taken", "found", "releasing", "cancelled"}
          THEN [request[r] EXCEPT !.place = "lost"] ELSE request[r]]
    /\ UNCHANGED <<clock, hook, processed, queue, runs, late, faults, edits>>

\* stop(): the queue is empty and done, or the timeout has passed.
CancelWorkers == daemon = "stopping" /\ daemon' = "closing" /\ Cancellation

\* The workers did not end in time: wait_for cancels them once more, and waits.
StopTimesOut ==
    /\ daemon = "closing" /\ \E w \in Workers : ~At(w, "ended")
    /\ daemon' = "overdue" /\ Cancellation

\* The process is gone, and with it the queue and the open requests.
Gone ==
    /\ daemon' = "up"
    /\ queue' = <<>>
    /\ request' = [r \in Requests |->
          IF request[r].place \in {"queued", "taken"} THEN [request[r] EXCEPT !.place = "lost"]
          ELSE IF request[r].place = "validating" THEN [request[r] EXCEPT !.place = "rejected"]
          ELSE request[r]]
    /\ worker' = [w \in Workers |-> Idle]
    /\ UNCHANGED <<clock, hook, processed, runs, late, edits>>

Restart ==
    /\ daemon \in {"closing", "overdue"} /\ \A w \in Workers : At(w, "ended")
    /\ Gone /\ UNCHANGED faults

Crash == faults < MaxFaults /\ faults' = faults + 1 /\ Gone

----------------------------------------------------------------------------
(* Operators and the clock *)

Edit ==
    /\ edits < MaxEdits /\ edits' = edits + 1
    /\ UNCHANGED <<clock, processed, request, queue, worker, daemon, runs, late, faults>>

Create(h) ==
    /\ hook[h].status = "absent"
    /\ hook' = [hook EXCEPT ![h].status = "active"]
    /\ Edit

\* update and delete.
SetStatus(h, status) ==
    /\ hook[h].status \notin {"absent", "deleted", status}
    /\ hook' = [hook EXCEPT ![h].status = status]
    /\ Edit

RotateToken(h) ==
    /\ hook[h].status \notin {"absent", "deleted"} /\ hook[h].key = 0
    /\ hook' = [hook EXCEPT ![h].key = 1]
    /\ Edit

Attended(h) == \E w \in Workers : Busy(w) /\ HookOf(w) = h /\ Holds(w)

LeaseExpires(h) ==
    /\ hook[h].event # NoEvent /\ hook[h].until = Live /\ clock < MaxExpiries
    /\ IF Attended(h)
       THEN faults < MaxFaults /\ faults' = faults + 1 /\ late' = late \cup {h}
       ELSE UNCHANGED <<late, faults>>
    /\ clock' = clock + 1
    /\ hook' = [hook EXCEPT ![h].until = clock + 1]
    /\ UNCHANGED <<processed, request, queue, worker, daemon, runs, edits>>

----------------------------------------------------------------------------
Init ==
    /\ clock = 0 /\ late = {} /\ faults = 0 /\ edits = 0 /\ daemon = "up" /\ queue = <<>>
    /\ hook = [h \in Hooks |-> [status |-> IF h \in Initial THEN "active" ELSE "absent",
                                key |-> 0, event |-> NoEvent, token |-> NoWorker, until |-> 0]]
    /\ processed = [h \in Hooks |-> {}]
    /\ request = [r \in Requests |-> [place |-> "unsent", hook |-> CHOOSE h \in Hooks : TRUE,
                                      event |-> CHOOSE e \in Events : TRUE, key |-> 0]]
    /\ worker = [w \in Workers |-> Idle]
    /\ runs = [h \in Hooks |-> [e \in Events |-> 0]]

Progress(w) ==
    \/ Take(w) \/ LookUp(w) \/ TargetGone(w) \/ Claim(w) \/ Deduplicate(w) \/ MarkStarted(w)
    \/ LeaseLost(w) \/ RunEnds(w) \/ Complete(w) \/ Release(w)

Next ==
    \/ \E r \in Requests :
          \/ \E h \in Hooks, e \in Events, key \in 0..1 : Arrives(r, h, e, key)
          \/ Reject(r) \/ Accept(r)
    \/ \E w \in Workers : Progress(w) \/ Refresh(w) \/ Raises(w) \/ LoopCatches(w)
    \/ BeginShutdown \/ CancelWorkers \/ StopTimesOut \/ Restart \/ Crash
    \/ \E h \in Hooks :
          \/ \E status \in {"active", "paused", "deleted"} : SetStatus(h, status)
          \/ Create(h) \/ RotateToken(h) \/ LeaseExpires(h)

Spec == Init /\ [][Next]_vars

\* Requests are answered, worker loops run, a run ends (it has a timeout) and a
\* stop goes through.
Fairness ==
    /\ \A r \in Requests : WF_vars(Reject(r) \/ Accept(r))
    /\ \A w \in Workers : WF_vars(Progress(w))
    /\ WF_vars(CancelWorkers) /\ WF_vars(Restart)

FairSpec == Spec /\ Fairness

----------------------------------------------------------------------------
(* What must hold *)

\* An event delivered several times (a sender that retries, several workers,
\* an expired lease, a restart) is executed to its end at most once
\* (complete_webhook_event, _record_processed_webhook_event).
CompletedOnce == \A h \in Hooks, e \in Events : runs[h][e] <= 1

\* Unless a refresh came late, no automation handles two events at once
\* (claim_webhook_event, "Atomically claim webhook event").
OneEventAtATime == \A v, w \in Workers :
    (v # w /\ Busy(v) /\ Busy(w) /\ HookOf(v) = HookOf(w)) => HookOf(v) \in late

\* A worker whose claim was taken over during its run changes neither the row
\* nor the processed events, even if the new claim is for the same event.
LostClaimHarmless == [][\A w \in Workers :
    (Busy(w) /\ hook[HookOf(w)].token # w /\ worker'[w] # worker[w])
        => UNCHANGED <<hook, processed>>]_vars

\* The claim columns, read as leases.
Leases ==
    [h \in Hooks |-> [holder |-> hook[h].token,
                      expired |-> hook[h].token # NoWorker /\ hook[h].until # Live]]

Lease == INSTANCE LeasedResource WITH
    Resources <- Hooks, Holders <- Workers, Nobody <- NoWorker,
    lease <- Leases

\* Claims on rows are leases: taken when free or run out, kept otherwise.
ClaimsAreLeases == Lease!Spec

\* Every accepted event comes to an end: failures, cancellations and stops of
\* the daemon leave no worker stuck and no event in the queue for ever.
AcceptedDecided == \A r \in Requests :
    request[r].place = "queued"
        ~> request[r].place \in {"executed", "deduplicated", "failed", "lost"}
=============================================================================
