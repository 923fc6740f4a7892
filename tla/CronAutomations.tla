-------------------------- MODULE CronAutomations ---------------------------
(***************************************************************************)
(* Cron automations: the scheduler ticks of the automation daemons claim   *)
(* due rows, run them under a lease and advance their schedule, while      *)
(* operators pause, delete and reschedule them.                            *)
(*                                                                         *)
(* Abstractions.  Time is counted in minutes.  A cron expression with its  *)
(* time zone is the set of minutes it matches.  claimed_until is Live as   *)
(* long as it lies in the future, then the minute at which it ran out.  A  *)
(* claim token (random, one for each claim) is the tick that claimed: a    *)
(* tick runs one automation at a time, so it has one claim at most.        *)
(***************************************************************************)
EXTENDS Integers, Sequences, FiniteSets

CONSTANTS
    Crons,          \* automations with a cron trigger, by id
    Ticks,          \* cron loops of all daemons on this database
    NoTick,         \* claim_token IS NULL
    Schedules,      \* cron expressions, each the set of minutes it matches
    Failing,        \* automations whose run may fail whenever it runs
    Limit,          \* max_due_per_tick
    Initial,        \* automations that exist at the start
    MaxEdits,       \* bound: operations of operators
    MaxTime,        \* bound: minutes of a behaviour
    MaxFaults       \* bound: failures, cancellations, crashes, late refreshes

Never == MaxTime + 1    \* no execution within the modelled time
Live == MaxTime + 1     \* a lease that has not run out
Minutes == 0..MaxTime

ASSUME CronAssumption ==
    /\ Initial \subseteq Crons /\ MaxEdits \in Nat
    /\ MaxTime \in Nat /\ MaxFaults \in Nat /\ Limit \in Nat \ {0}
    /\ Crons \subseteq Nat /\ IsFiniteSet(Crons)
    /\ NoTick \notin Ticks
    /\ Schedules \subseteq SUBSET Minutes
    /\ Failing \subseteq Crons

VARIABLES
    now,        \* the wall clock
    cron,       \* tables automation and automation_trigger_cron
    tick,       \* each cron loop: its place, starting time and due rows
    done,       \* history: the due times whose execution was completed
    late,       \* history: automations whose lease ran out under a live tick
    faults,     \* failures, cancellations, crashes, late refreshes (bounded)
    edits       \* operations of operators so far (bounded)

vars == <<now, cron, tick, done, late, faults, edits>>

CronRow == [status : {"absent", "active", "paused", "deleted"},
            schedule : Schedules,
            next : 1..Never,        \* next_run_at
            last : 0..MaxTime,      \* last_run_at, 0 when it never ran
            token : Ticks \cup {NoTick},
            until : 0..Live]        \* claimed_until

DueRow == [id : Crons, schedule : Schedules]

TickState == [place : {"idle", "picking", "running", "completing", "releasing", "stopping"},
              start : Minutes,          \* now_utc of the tick
              rows : Seq(DueRow),       \* due rows read at its start, as they were
              slot : 0..Never]          \* history: next_run_at when it was claimed

TypeOK ==
    /\ now \in Minutes
    /\ cron \in [Crons -> CronRow]
    /\ \A a \in Crons : cron[a].token = NoTick <=> cron[a].until = 0
    /\ tick \in [Ticks -> TickState]
    /\ done \in [Crons -> SUBSET Minutes]
    /\ late \subseteq Crons
    /\ faults \in 0..MaxFaults /\ edits \in 0..MaxEdits

----------------------------------------------------------------------------
\* Broken: the minute it is asked in counts as the next one.
NextRunOrNow(schedule, t) ==
    IF \E m \in schedule : m >= t
    THEN CHOOSE m \in schedule : m >= t /\ \A n \in schedule : n >= t => m <= n
    ELSE Never

\* compute_next_run_at: the first matching minute after t.
NextRun(schedule, t) ==
    IF \E m \in schedule : m > t
    THEN CHOOSE m \in schedule : m > t /\ \A n \in schedule : n > t => m <= n
    ELSE Never

\* Broken: a claim on the row is not looked at.
DueOrClaimed(row, t) == row.status = "active" /\ row.next <= t

\* The WHERE clause of list_due_cron and of claim_cron_execution; t is the
\* starting time of the tick in both.
Due(row, t) ==
    /\ row.status = "active" /\ row.next <= t
    /\ row.token = NoTick \/ row.until <= t

\* The order of list_due_cron: last run, then due time, then id.
Before(a, b) ==
    \/ cron[a].last < cron[b].last
    \/ cron[a].last = cron[b].last /\ cron[a].next < cron[b].next
    \/ cron[a].last = cron[b].last /\ cron[a].next = cron[b].next /\ a < b

\* The first Limit rows of a set of them, in this order.
FirstOf(ids) ==
    LET n == IF Cardinality(ids) < Limit THEN Cardinality(ids) ELSE Limit
    IN  {s \in [1..n -> ids] :
            /\ \A i, j \in 1..n : i < j => Before(s[i], s[j])
            /\ \A a \in ids, i \in 1..n : Before(a, s[i]) => \E j \in 1..n : s[j] = a}

\* What list_due_cron returns of a row.
AsRead(s) == [i \in DOMAIN s |-> [id |-> s[i], schedule |-> cron[s[i]].schedule]]

DueIds == {a \in Crons : Due(cron[a], now)}

DueRows == FirstOf(DueIds)

\* Broken: the end of the lease stays on the row.
FreeToken(row) == [row EXCEPT !.token = NoTick]

Free(row) == [row EXCEPT !.token = NoTick, !.until = 0]

At(k, place) == tick[k].place = place
Current(k) == Head(tick[k].rows).id
Busy(k) == tick[k].place \in {"running", "completing", "releasing", "stopping"}

\* Broken: any claim on the row will do.
HoldsAny(k) == cron[Current(k)].token # NoTick

\* The WHERE clause of refresh, complete and release.
Holds(k) == cron[Current(k)].token = k

Idle == [place |-> "idle", start |-> 0, rows |-> <<>>, slot |-> 0]
Place(k, place) == [tick EXCEPT ![k].place = place]
\* The rest of the loop over the due rows.
NextRow(k) == [tick EXCEPT ![k].place = "picking", ![k].rows = Tail(@), ![k].slot = 0]

----------------------------------------------------------------------------
(* tick_cron_automations *)

StartTick(k) ==
    /\ At(k, "idle")
    /\ DueIds # {}
    /\ \E s \in DueRows :
          tick' = [tick EXCEPT ![k] = [Idle EXCEPT !.place = "picking", !.start = now,
                                                   !.rows = AsRead(s)]]
    /\ UNCHANGED <<now, cron, done, late, faults, edits>>

EndTick(k) ==
    /\ At(k, "picking") /\ tick[k].rows = <<>>
    /\ tick' = [tick EXCEPT ![k] = Idle]
    /\ UNCHANGED <<now, cron, done, late, faults, edits>>

\* claim_cron_execution: one UPDATE under the conditions at the tick's start.
Claim(k) ==
    /\ At(k, "picking") /\ tick[k].rows # <<>>
    /\ Due(cron[Current(k)], tick[k].start)
    /\ cron' = [cron EXCEPT ![Current(k)].token = k, ![Current(k)].until = Live]
    /\ tick' = [tick EXCEPT ![k].place = "running", ![k].slot = cron[Current(k)].next]
    /\ UNCHANGED <<now, done, late, faults, edits>>

Skip(k) ==
    /\ At(k, "picking") /\ tick[k].rows # <<>>
    /\ ~Due(cron[Current(k)], tick[k].start)
    /\ tick' = NextRow(k)
    /\ UNCHANGED <<now, cron, done, late, faults, edits>>

RunEnds(k) ==
    /\ At(k, "running")
    /\ tick' = Place(k, "completing")
    /\ UNCHANGED <<now, cron, done, late, faults, edits>>

\* The run raises or times out, or the schedule has no next time.
RunFails(k) ==
    /\ At(k, "running")
    /\ \/ Current(k) \in Failing /\ UNCHANGED faults
       \/ faults < MaxFaults /\ faults' = faults + 1
    /\ tick' = Place(k, "releasing")
    /\ UNCHANGED <<now, cron, done, late, edits>>

\* The refresh loop of run_with_lease_refresh extends the lease ...
Refresh(k) ==
    /\ At(k, "running") /\ Holds(k)
    /\ cron' = [cron EXCEPT ![Current(k)].until = Live]
    /\ UNCHANGED <<now, tick, done, late, faults, edits>>

\* ... or finds that it is gone, cancels the run and raises.
LeaseLost(k) ==
    /\ At(k, "running") /\ ~Holds(k)
    /\ tick' = Place(k, "releasing")
    /\ UNCHANGED <<now, cron, done, late, faults, edits>>

\* mark_cron_executed: the next time is computed from the expression read at
\* the start of the tick and from that time.
Complete(k) ==
    LET a == Current(k) IN
    /\ At(k, "completing") /\ Holds(k)
    /\ cron' = [cron EXCEPT ![a] =
         [Free(@) EXCEPT !.last = tick[k].start,
                         !.next = NextRun(Head(tick[k].rows).schedule, tick[k].start)]]
    /\ done' = [done EXCEPT ![a] = @ \cup {tick[k].slot}]
    /\ tick' = NextRow(k)
    /\ UNCHANGED <<now, late, faults, edits>>

CompleteConflict(k) ==
    /\ At(k, "completing") /\ ~Holds(k)
    /\ tick' = Place(k, "releasing")
    /\ UNCHANGED <<now, cron, done, late, faults, edits>>

\* Broken: a failure ends the tick as well.
ReleaseAndEnd(k) ==
    /\ tick[k].place \in {"releasing", "stopping"}
    /\ cron' = IF Holds(k) THEN [cron EXCEPT ![Current(k)] = Free(@)] ELSE cron
    /\ tick' = [tick EXCEPT ![k] = Idle]
    /\ UNCHANGED <<now, done, late, faults, edits>>

\* release_cron_claim after a failure; after a cancellation the tick ends.
Release(k) ==
    /\ tick[k].place \in {"releasing", "stopping"}
    /\ cron' = IF Holds(k) THEN [cron EXCEPT ![Current(k)] = Free(@)] ELSE cron
    /\ tick' = IF At(k, "releasing") THEN NextRow(k) ELSE [tick EXCEPT ![k] = Idle]
    /\ UNCHANGED <<now, done, late, faults, edits>>

\* RuntimeDaemon.stop cancels the cron loop.
Cancelled(k) ==
    /\ tick[k].place \in {"picking", "running", "completing"} /\ faults < MaxFaults
    /\ tick' = IF At(k, "picking") THEN [tick EXCEPT ![k] = Idle] ELSE Place(k, "stopping")
    /\ faults' = faults + 1
    /\ UNCHANGED <<now, cron, done, late, edits>>

\* The process dies, or a database call outside the try block raises.
Dies(k) ==
    /\ ~At(k, "idle") /\ faults < MaxFaults
    /\ tick' = [tick EXCEPT ![k] = Idle]
    /\ faults' = faults + 1
    /\ UNCHANGED <<now, cron, done, late, edits>>

----------------------------------------------------------------------------
(* Operators and the clock *)

NewRow(status, schedule) ==
    [status |-> status, schedule |-> schedule, next |-> NextRun(schedule, now),
     last |-> 0, token |-> NoTick, until |-> 0]

Edit == edits < MaxEdits /\ edits' = edits + 1 /\ UNCHANGED <<now, tick, done, late, faults>>

Create(a, schedule) ==
    /\ cron[a].status = "absent"
    /\ cron' = [cron EXCEPT ![a] = NewRow("active", schedule)]
    /\ Edit

\* update and delete.
SetStatus(a, status) ==
    /\ cron[a].status \notin {"absent", "deleted", status}
    /\ cron' = [cron EXCEPT ![a].status = status]
    /\ Edit

\* update with cron_expr: a claim on the row stays as it is.
Reschedule(a, schedule) ==
    /\ cron[a].status \notin {"absent", "deleted"}
    /\ cron' = [cron EXCEPT ![a].schedule = schedule,
                            ![a].next = NextRun(schedule, now)]
    /\ Edit

ClockTicks ==
    /\ now < MaxTime
    /\ now' = now + 1
    /\ UNCHANGED <<cron, tick, done, late, faults, edits>>

Attended(a) == \E k \in Ticks : Busy(k) /\ Current(k) = a /\ Holds(k)

LeaseExpires(a) ==
    /\ cron[a].token # NoTick /\ cron[a].until = Live
    /\ IF Attended(a)
       THEN faults < MaxFaults /\ faults' = faults + 1 /\ late' = late \cup {a}
       ELSE UNCHANGED <<late, faults>>
    /\ cron' = [cron EXCEPT ![a].until = now]
    /\ UNCHANGED <<now, tick, done, edits>>

----------------------------------------------------------------------------
Init ==
    /\ now = 0
    /\ cron \in [Crons -> {NewRow(status, s) : status \in {"absent", "active"}, s \in Schedules}]
    /\ \A a \in Crons : cron[a].status = "active" <=> a \in Initial
    /\ tick = [k \in Ticks |-> Idle]
    /\ done = [a \in Crons |-> {}]
    /\ late = {} /\ faults = 0 /\ edits = 0

Progress(k) ==
    \/ EndTick(k) \/ Claim(k) \/ Skip(k) \/ RunEnds(k) \/ RunFails(k) \/ LeaseLost(k)
    \/ Complete(k) \/ CompleteConflict(k) \/ Release(k)

Next ==
    \/ \E k \in Ticks : StartTick(k) \/ Progress(k) \/ Refresh(k) \/ Cancelled(k) \/ Dies(k)
    \/ \E a \in Crons :
          \/ \E status \in {"active", "paused", "deleted"} : SetStatus(a, status)
          \/ \E schedule \in Schedules : Create(a, schedule) \/ Reschedule(a, schedule)
          \/ LeaseExpires(a)
    \/ ClockTicks

Spec == Init /\ [][Next]_vars

\* The cron loop ticks for ever, a run ends (it has a timeout), time passes,
\* and a lease nobody refreshes runs out.
Fairness ==
    /\ \A k \in Ticks : WF_vars(StartTick(k)) /\ WF_vars(Progress(k))
    /\ \A a \in Crons : WF_vars(~Attended(a) /\ LeaseExpires(a))
    /\ WF_vars(ClockTicks)

FairSpec == Spec /\ Fairness

----------------------------------------------------------------------------
(* What must hold *)

\* A time whose execution was completed is past: neither a slow tick that
\* started long ago, nor a second daemon, nor a change of the schedule makes it
\* due again.
CompletedTimesPast == \A a \in Crons : \A s \in done[a] : s < cron[a].next

\* Unless a refresh came late, no automation runs twice at once: two ticks never
\* execute the same row, whichever rows they read at their start
\* (claim_cron_execution, "True only for one winner").
NeverTwiceAtOnce == \A j, k \in Ticks :
    (j # k /\ Busy(j) /\ Busy(k) /\ Current(j) = Current(k)) => Current(j) \in late

\* A tick that lost its claim during the run neither advances the schedule nor
\* frees the row for others when it completes or gives up.
LostClaimHarmless == [][\A k \in Ticks :
    (Busy(k) /\ cron[Current(k)].token # k /\ tick'[k] # tick[k]) => cron' = cron]_vars

\* The claim columns, read as leases.
Leases ==
    [a \in Crons |-> [holder |-> cron[a].token,
                      expired |-> cron[a].token # NoTick /\ cron[a].until # Live]]

Lease == INSTANCE LeasedResource WITH
    Resources <- Crons, Holders <- Ticks, Nobody <- NoTick,
    lease <- Leases

\* Claims on rows are leases: taken when free or run out, kept otherwise.
ClaimsAreLeases == Lease!Spec

\* A time that is due is executed in the end (or the automation is paused,
\* deleted or rescheduled), although ticks fail, are cancelled or die, and
\* although others fail whenever they run: those stay due and come first in
\* every tick, and harm nobody as long as they are fewer than a tick takes.
DueTimesRun == (Cardinality(Failing) < Limit) =>
    \A a \in Crons \ Failing, t \in Minutes :
        (cron[a].status = "active" /\ cron[a].next = t /\ t <= now)
            ~> (cron[a].status # "active" \/ cron[a].next # t)
=============================================================================
