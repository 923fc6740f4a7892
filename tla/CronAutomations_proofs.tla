------------------------ MODULE CronAutomations_proofs ---------------------
(***************************************************************************)
(* Proofs about CronAutomations, for every number of automations, ticks,   *)
(* schedules, minutes and faults: type correctness, that a completed time  *)
(* is past, that no automation runs twice at once, that a lost claim is    *)
(* harmless, and that claims are leases.                                   *)
(***************************************************************************)
EXTENDS CronAutomations, FiniteSetTheorems, WellFoundedInduction, SequenceTheorems, TLAPS

\* A set of numbers that is not empty has a least element.
LEMMA LeastElement ==
    ASSUME NEW T \in SUBSET Nat, T # {}
    PROVE  \E x \in T : \A y \in T : x <= y
<1> DEFINE W == {1..n : n \in T}
           R == StrictSubsetOrdering(Nat)
<1>1. \A n \in T : 1..n \in FiniteSubsetsOf(Nat)
  BY FS_Interval DEF FiniteSubsetsOf
<1>2. W \subseteq FiniteSubsetsOf(Nat) /\ W # {}
  BY <1>1
<1>3. IsWellFoundedOn(R, FiniteSubsetsOf(Nat))
  BY FS_StrictSubsetOrderingWellFounded
<1> HIDE DEF W, R
<1>4. PICK w \in W : \A v \in W : <<v, w>> \notin R
  BY <1>2, <1>3, WFMin
<1>5. PICK x \in T : w = 1..x
  BY <1>4 DEF W
<1>6. ASSUME NEW y \in T, y < x PROVE FALSE
  <2>1. 1..y \in W /\ 1..y \subseteq 1..x /\ x \in 1..x /\ x \notin 1..y
    BY <1>6 DEF W
  <2>2. <<1..y, 1..x>> \in R
    BY <2>1 DEF R, StrictSubsetOrdering
  <2> QED
    BY <1>4, <1>5, <2>1, <2>2
<1> QED
  BY <1>6

\* compute_next_run_at gives a time after the one it is asked for.
LEMMA NextRunIsLater ==
    ASSUME NEW schedule \in Schedules, NEW t \in Minutes
    PROVE  NextRun(schedule, t) \in 1..Never /\ t < NextRun(schedule, t)
<1> DEFINE T == {m \in schedule : m > t}
<1>1. schedule \subseteq Minutes /\ MaxTime \in Nat
  BY CronAssumption
<1>2. CASE T = {}
  BY <1>1, <1>2 DEF NextRun, Never, Minutes
<1>3. CASE T # {}
  <2>0. T \in SUBSET Nat
    <3>1. schedule \subseteq Nat
      BY <1>1 DEF Minutes
    <3> QED
      BY <3>1
  <2>1. PICK m \in T : \A n \in T : m <= n
    <3> HIDE DEF T
    <3> QED
      BY <1>3, <2>0, LeastElement
  <2>2. m \in schedule /\ m > t /\ \A n \in schedule : n > t => m <= n
    BY <2>1
  <2>3. \E n \in schedule : n > t
    BY <2>2
  <2> DEFINE least(n) == n \in schedule /\ n > t /\ \A o \in schedule : o > t => n <= o
  <2>4. least(CHOOSE n : least(n))
    BY <2>2
  <2>5. NextRun(schedule, t) \in schedule /\ NextRun(schedule, t) > t
    BY <2>2, <2>3 DEF NextRun
  <2>6. NextRun(schedule, t) \in 0..MaxTime /\ t \in 0..MaxTime
    BY <1>1, <2>5 DEF Minutes
  <2> HIDE DEF T, least
  <2> QED
    BY <1>1, <2>5, <2>6 DEF Never
<1> QED
  BY <1>2, <1>3

-----------------------------------------------------------------------------
(* Type correctness *)

\* list_due_cron returns rows of the table.
LEMMA AsReadType ==
    ASSUME cron \in [Crons -> CronRow], NEW s \in DueRows
    PROVE  AsRead(s) \in Seq(DueRow)
<1>1. PICK n \in Nat : s \in [1..n -> Crons]
  <2>1. Limit \in Nat /\ IsFiniteSet(Crons)
    BY CronAssumption
  <2>2. DueIds \subseteq Crons /\ Cardinality(DueIds) \in Nat
    BY <2>1, FS_Subset, FS_CardinalityType DEF DueIds
  <2> QED
    BY <2>1, <2>2 DEF DueRows, FirstOf
<1>2. \A i \in 1..n : [id |-> s[i], schedule |-> cron[s[i]].schedule] \in DueRow
  BY <1>1 DEF CronRow, DueRow
<1> QED
  BY <1>1, <1>2 DEF AsRead

\* A tick that works on a row has one, which was due when the tick started.
RowsThere == \A k \in Ticks : Busy(k) => tick[k].rows # <<>> /\ tick[k].slot <= tick[k].start

\* No tick started in the future; no claim is made at minute 0, when nothing
\* is due yet.
ClockInv ==
    /\ \A k \in Ticks : tick[k].start <= now
    /\ \A a \in Crons : cron[a].token # NoTick => now > 0

Types == TypeOK /\ RowsThere /\ ClockInv

LEMMA CurrentType ==
    ASSUME Types, NEW k \in Ticks, tick[k].rows # <<>>
    PROVE  /\ Head(tick[k].rows) \in DueRow /\ Tail(tick[k].rows) \in Seq(DueRow)
           /\ Current(k) \in Crons
<1>1. tick[k].rows \in Seq(DueRow)
  BY DEF Types, TypeOK, TickState
<1>2. Head(tick[k].rows) \in DueRow /\ Tail(tick[k].rows) \in Seq(DueRow)
  BY <1>1, HeadTailProperties
<1> QED
  BY <1>2 DEF Current, DueRow

LEMMA IdleType == Idle \in TickState
<1>1. <<>> \in Seq(DueRow) /\ MaxTime \in Nat
  BY CronAssumption
<1> QED
  BY <1>1 DEF Idle, TickState, Minutes, Never

LEMMA FreeType ==
    ASSUME NEW row \in CronRow
    PROVE  Free(row) \in CronRow /\ Free(row).token = NoTick /\ Free(row).until = 0
           /\ Free(row).next = row.next /\ Free(row).status = row.status
<1>1. 0 \in 0..Live
  BY CronAssumption DEF Live
<1> QED
  BY <1>1 DEF Free, CronRow

\* What a step does to the table: it keeps the rows well formed.
CronTyped(c) ==
    /\ c \in [Crons -> CronRow]
    /\ \A a \in Crons : c[a].token = NoTick <=> c[a].until = 0

LEMMA RowReplaced ==
    ASSUME CronTyped(cron), NEW a \in Crons, NEW row \in CronRow, row.token = NoTick <=> row.until = 0
    PROVE  CronTyped([cron EXCEPT ![a] = row])
  BY DEF CronTyped

LEMMA NewRowType ==
    ASSUME now \in Minutes, NEW status \in {"absent", "active", "paused", "deleted"},
           NEW s \in Schedules
    PROVE  /\ NewRow(status, s) \in CronRow
           /\ NewRow(status, s).token = NoTick /\ NewRow(status, s).until = 0
<1>1. NextRun(s, now) \in 1..Never
  BY NextRunIsLater
<1> QED
  BY <1>1, CronAssumption DEF NewRow, CronRow, Live

LEMMA TypeInit == Init => Types
<1> SUFFICES ASSUME Init PROVE Types
  OBVIOUS
<1>1. now \in Minutes /\ MaxFaults \in Nat /\ MaxEdits \in Nat
  BY CronAssumption DEF Init, Minutes
<1>2. \A a \in Crons : /\ cron[a] \in CronRow
                       /\ cron[a].token = NoTick /\ cron[a].until = 0
  <2> TAKE a \in Crons
  <2>1. PICK status \in {"absent", "active"}, s \in Schedules : cron[a] = NewRow(status, s)
    BY DEF Init
  <2> QED
    BY <1>1, <2>1, NewRowType
<1>3. cron \in [Crons -> CronRow]
  BY <1>2 DEF Init
<1>4. tick \in [Ticks -> TickState] /\ \A k \in Ticks : ~Busy(k) /\ tick[k].start = 0
  BY IdleType DEF Init, Busy, Idle
<1>5. TypeOK
  BY <1>1, <1>2, <1>3, <1>4 DEF Init, TypeOK
<1> QED
  BY <1>2, <1>4, <1>5 DEF Init, Types, RowsThere, ClockInv

\* The places a tick can go to, one lemma for each way to write them.
LEMMA PlaceType ==
    ASSUME Types, NEW k \in Ticks, Busy(k),
           NEW p \in {"running", "completing", "releasing", "stopping"}, tick' = Place(k, p)
    PROVE  tick' \in [Ticks -> TickState] /\ RowsThere'
  BY DEF Types, TypeOK, RowsThere, Place, TickState, Busy

LEMMA NextRowRecord ==
    ASSUME NEW r \in TickState, NEW q \in Seq(DueRow), NEW s \in 0..Never
    PROVE  [r EXCEPT !.place = "picking", !.rows = q, !.slot = s] \in TickState
           /\ [r EXCEPT !.place = "picking", !.rows = q, !.slot = s].place = "picking"
  BY DEF TickState

LEMMA NextRowType ==
    ASSUME Types, NEW k \in Ticks, tick[k].rows # <<>>, tick' = NextRow(k)
    PROVE  tick' \in [Ticks -> TickState] /\ RowsThere'
<1>1. Tail(tick[k].rows) \in Seq(DueRow) /\ 0 \in 0..Never
  BY CurrentType, CronAssumption DEF Never
<1>2. tick'[k] = [tick[k] EXCEPT !.place = "picking", !.rows = Tail(tick[k].rows), !.slot = 0]
  BY DEF NextRow, Types, TypeOK
<1>3. tick'[k] \in TickState /\ tick'[k].place = "picking"
  <2>1. tick[k] \in TickState
    BY DEF Types, TypeOK
  <2> DEFINE next == [tick[k] EXCEPT !.place = "picking", !.rows = Tail(tick[k].rows), !.slot = 0]
  <2>2. next \in TickState /\ next.place = "picking"
    <3> HIDE DEF TickState
    <3> QED
      BY <1>1, <2>1, NextRowRecord
  <2> HIDE DEF next
  <2>3. tick'[k] = next
    BY <1>2 DEF next
  <2> QED
    BY <2>2, <2>3
<1>4. \A j \in Ticks : j # k => tick'[j] = tick[j]
  BY DEF NextRow, Types, TypeOK
<1>5. tick' \in [Ticks -> TickState]
  BY <1>3 DEF NextRow, Types, TypeOK
<1> QED
  BY <1>3, <1>4, <1>5 DEF Types, RowsThere, Busy

LEMMA ClaimType ==
    ASSUME Types, NEW k \in Ticks, Claim(k)
    PROVE  tick' \in [Ticks -> TickState] /\ RowsThere'
<1>1. cron[Current(k)] \in CronRow /\ tick[k] \in TickState
  BY CurrentType DEF Claim, Types, TypeOK
<1>2. cron[Current(k)].next \in 1..Never /\ cron[Current(k)].next <= tick[k].start
  BY <1>1 DEF Claim, Due, CronRow
<1> DEFINE n == cron[Current(k)].next
<1>3. tick' = [tick EXCEPT ![k].place = "running", ![k].slot = n] /\ tick[k].rows # <<>>
  BY DEF Claim
<1> HIDE DEF n
<1>4. n \in 0..Never /\ n <= tick[k].start
  BY <1>2, CronAssumption DEF n, Never
<1>5. /\ tick'[k] \in TickState /\ tick'[k].rows # <<>> /\ tick'[k].slot <= tick'[k].start
      /\ \A j \in Ticks : j # k => tick'[j] = tick[j]
  BY <1>1, <1>3, <1>4 DEF Types, TypeOK, TickState
<1> QED
  BY <1>3, <1>5 DEF Types, TypeOK, RowsThere, Busy

LEMMA IdleTickType ==
    ASSUME Types, NEW k \in Ticks, tick' = [tick EXCEPT ![k] = Idle]
    PROVE  tick' \in [Ticks -> TickState] /\ RowsThere'
<1>1. tick'[k] = Idle /\ Idle.place = "idle" /\ \A j \in Ticks : j # k => tick'[j] = tick[j]
  BY DEF Types, TypeOK, Idle
<1> QED
  BY <1>1, IdleType DEF Types, TypeOK, RowsThere, Busy

LEMMA TickNext == Types /\ [Next]_vars => tick' \in [Ticks -> TickState] /\ RowsThere'
<1> SUFFICES ASSUME Types, [Next]_vars
             PROVE  tick' \in [Ticks -> TickState] /\ RowsThere'
  OBVIOUS
<1>1. ASSUME NEW k \in Ticks, StartTick(k) PROVE tick' \in [Ticks -> TickState] /\ RowsThere'
  <2>1. PICK s \in DueRows :
          tick' = [tick EXCEPT ![k] = [Idle EXCEPT !.place = "picking", !.start = now,
                                                   !.rows = AsRead(s)]]
    BY <1>1 DEF StartTick
  <2>2. AsRead(s) \in Seq(DueRow)
    BY AsReadType DEF Types, TypeOK
  <2> DEFINE new == [Idle EXCEPT !.place = "picking", !.start = now, !.rows = AsRead(s)]
  <2>3. new \in TickState /\ new.place = "picking"
    BY <2>2, IdleType DEF Types, TypeOK, TickState, Idle
  <2>4. tick' = [tick EXCEPT ![k] = new]
    BY <2>1
  <2> HIDE DEF new
  <2>5. tick'[k] = new /\ \A j \in Ticks : j # k => tick'[j] = tick[j]
    BY <2>4 DEF Types, TypeOK
  <2> QED
    BY <2>3, <2>4, <2>5 DEF Types, TypeOK, RowsThere, Busy
<1>2. ASSUME NEW k \in Ticks, tick' = [tick EXCEPT ![k] = Idle]
      PROVE  tick' \in [Ticks -> TickState] /\ RowsThere'
  BY <1>2, IdleTickType
<1>3. ASSUME NEW k \in Ticks, Busy(k), tick' = NextRow(k)
      PROVE  tick' \in [Ticks -> TickState] /\ RowsThere'
  BY <1>3, NextRowType DEF Types, RowsThere
<1>4. ASSUME NEW k \in Ticks, Skip(k) PROVE tick' \in [Ticks -> TickState] /\ RowsThere'
  BY <1>4, NextRowType DEF Skip
<1>5. ASSUME NEW k \in Ticks, Claim(k) PROVE tick' \in [Ticks -> TickState] /\ RowsThere'
  BY <1>5, ClaimType
<1>6. ASSUME NEW k \in Ticks, Busy(k),
             NEW p \in {"running", "completing", "releasing", "stopping"}, tick' = Place(k, p)
      PROVE  tick' \in [Ticks -> TickState] /\ RowsThere'
  BY <1>6, PlaceType
<1>7. CASE UNCHANGED tick
  BY <1>7 DEF Types, TypeOK, RowsThere, Busy
<1>8. ASSUME NEW k \in Ticks, Cancelled(k) PROVE tick' \in [Ticks -> TickState] /\ RowsThere'
  <2>1. CASE At(k, "picking")
    BY <1>2, <1>8, <2>1 DEF Cancelled
  <2>2. CASE ~At(k, "picking")
    BY <1>6, <1>8, <2>2 DEF Cancelled, At, Busy
  <2> QED
    BY <2>1, <2>2
<1>9. ASSUME NEW k \in Ticks, Release(k) PROVE tick' \in [Ticks -> TickState] /\ RowsThere'
  BY <1>2, <1>3, <1>9 DEF Release, At, Busy
<1> QED
  <2>1. ASSUME NEW k \in Ticks,
               RunEnds(k) \/ RunFails(k) \/ LeaseLost(k) \/ CompleteConflict(k)
        PROVE  Busy(k) /\ (tick' = Place(k, "completing") \/ tick' = Place(k, "releasing"))
    BY <2>1 DEF RunEnds, RunFails, LeaseLost, CompleteConflict, At, Busy
  <2>2. ASSUME NEW k \in Ticks, Complete(k) PROVE Busy(k) /\ tick' = NextRow(k)
    BY <2>2 DEF Complete, At, Busy
  <2>3. ASSUME NEW k \in Ticks, EndTick(k) \/ Dies(k) PROVE tick' = [tick EXCEPT ![k] = Idle]
    BY <2>3 DEF EndTick, Dies
  <2> QED
    BY <1>1, <1>2, <1>3, <1>4, <1>5, <1>6, <1>7, <1>8, <1>9, <2>1, <2>2, <2>3
       DEF Next, Progress, Refresh, SetStatus, Create, Reschedule, Edit, LeaseExpires, ClockTicks,
           vars

\* What a step does to a row of the table: it is claimed, its lease is renewed
\* or runs out, its claim ends, or an operator edits it; the next time stays,
\* or starts from the clock or from the start of the tick that completes.
NextTimeFrom(a, row) ==
    \/ row.next = cron[a].next
    \/ \E s \in Schedules : row.next = NextRun(s, now)
    \/ \E k \in Ticks : /\ Complete(k) /\ Current(k) = a
                        /\ \E s \in Schedules : row.next = NextRun(s, tick[k].start)

Claimed(a, row) == \E k \in Ticks : /\ Claim(k) /\ Current(k) = a
                                     /\ row.token = k /\ row.until = Live /\ row.status = "active"
Renewed(a, row) == row.token = cron[a].token /\ row.token # NoTick /\ row.until = Live
Expired(a, row) == /\ LeaseExpires(a) /\ row.token = cron[a].token /\ row.token # NoTick
                   /\ row.until = now
Ended(a, row) ==
    /\ row.token = NoTick /\ row.until = 0
    /\ \/ \E k \in Ticks : (Complete(k) \/ Release(k)) /\ Holds(k) /\ Current(k) = a
       \/ cron[a].status = "absent"
Edited(a, row) == row.token = cron[a].token /\ row.until = cron[a].until

RowChange(a, row) ==
    /\ row.status = "absent" => cron[a].status = "absent"
    /\ \/ Claimed(a, row) \/ Renewed(a, row) \/ Expired(a, row) \/ Ended(a, row)
       \/ Edited(a, row)

LEMMA TableStep ==
    ASSUME Types, [Next]_vars
    PROVE  \/ cron' = cron
           \/ \E a \in Crons, row \in CronRow :
                 /\ cron' = [cron EXCEPT ![a] = row]
                 /\ NextTimeFrom(a, row) /\ RowChange(a, row)
<1> DEFINE Change == \E a \in Crons, row \in CronRow :
              cron' = [cron EXCEPT ![a] = row] /\ NextTimeFrom(a, row) /\ RowChange(a, row)
<1>0. /\ cron \in [Crons -> CronRow]
      /\ now \in Minutes /\ MaxTime \in Nat /\ NoTick \notin Ticks
  BY CronAssumption DEF Types, TypeOK
<1>1. ASSUME NEW k \in Ticks, Claim(k) PROVE Change
  <2>1. Current(k) \in Crons
    BY <1>1, CurrentType DEF Claim
  <2> DEFINE row == [cron[Current(k)] EXCEPT !.token = k, !.until = Live]
  <2>2. cron[Current(k)] \in CronRow /\ Live \in 0..Live
    BY <1>0, <2>1 DEF Live
  <2>3. /\ row \in CronRow /\ row.token = k /\ row.until = Live
        /\ row.next = cron[Current(k)].next /\ row.status = "active"
    BY <1>1, <2>2 DEF CronRow, Claim, Due
  <2>4. cron' = [cron EXCEPT ![Current(k)] = row]
    BY <1>1, <1>0, <2>1 DEF Claim
  <2> HIDE DEF row
  <2> QED
    BY <1>1, <2>1, <2>3, <2>4 DEF NextTimeFrom, RowChange, Claimed
<1>2. ASSUME NEW k \in Ticks, Refresh(k) PROVE Change
  <2>1. Current(k) \in Crons /\ cron[Current(k)].token = k
    BY <1>2, CurrentType DEF Refresh, Types, RowsThere, At, Busy, Holds
  <2> DEFINE row == [cron[Current(k)] EXCEPT !.until = Live]
  <2>2. /\ row \in CronRow /\ row.token = k /\ row.until = Live
        /\ row.next = cron[Current(k)].next /\ row.status = cron[Current(k)].status
    BY <1>0, <2>1 DEF CronRow, Live
  <2>3. cron' = [cron EXCEPT ![Current(k)] = row]
    BY <1>2 DEF Refresh
  <2> HIDE DEF row
  <2> QED
    BY <1>0, <2>1, <2>2, <2>3 DEF NextTimeFrom, RowChange, Renewed
<1>3. ASSUME NEW k \in Ticks, Complete(k) PROVE Change
  <2>1. /\ Current(k) \in Crons /\ tick[k].start \in Minutes
        /\ Head(tick[k].rows).schedule \in Schedules
    BY <1>3, CurrentType DEF Complete, Types, TypeOK, RowsThere, At, Busy, TickState, DueRow
  <2> DEFINE n == NextRun(Head(tick[k].rows).schedule, tick[k].start)
             row == [Free(cron[Current(k)]) EXCEPT !.last = tick[k].start, !.next = n]
  <2>2. n \in 1..Never /\ tick[k].start \in 0..MaxTime
    BY <2>1, NextRunIsLater DEF Minutes
  <2>3. Free(cron[Current(k)]) \in CronRow /\ Free(cron[Current(k)]).token = NoTick
        /\ Free(cron[Current(k)]).until = 0
        /\ Free(cron[Current(k)]).status = cron[Current(k)].status
    BY <1>0, <2>1, FreeType
  <2>4. /\ cron' = [cron EXCEPT ![Current(k)] = row]
        /\ \E s \in Schedules : n = NextRun(s, tick[k].start)
    BY <1>3, <2>1 DEF Complete
  <2> HIDE DEF n
  <2>5. /\ row \in CronRow /\ row.token = NoTick /\ row.until = 0 /\ row.next = n
        /\ row.status = cron[Current(k)].status
    BY <2>2, <2>3 DEF CronRow
  <2> HIDE DEF row
  <2> QED
    BY <1>3, <2>1, <2>4, <2>5 DEF NextTimeFrom, RowChange, Ended, Complete
<1>4. ASSUME NEW k \in Ticks, Release(k) PROVE Change \/ cron' = cron
  <2>1. Current(k) \in Crons
    BY <1>4, CurrentType DEF Release, Types, RowsThere, Busy
  <2>2. CASE ~Holds(k)
    BY <1>4, <2>2 DEF Release
  <2>3. CASE Holds(k)
    <3> DEFINE row == Free(cron[Current(k)])
    <3>1. /\ row \in CronRow /\ row.token = NoTick /\ row.until = 0
          /\ row.next = cron[Current(k)].next /\ row.status = cron[Current(k)].status
      BY <1>0, <2>1, FreeType
    <3>2. cron' = [cron EXCEPT ![Current(k)] = row]
      BY <1>4, <2>3 DEF Release
    <3> HIDE DEF row
    <3> QED
      BY <1>4, <2>1, <2>3, <3>1, <3>2 DEF NextTimeFrom, RowChange, Ended
  <2> QED
    BY <2>2, <2>3
<1>5. ASSUME NEW a \in Crons, NEW s \in Schedules, Create(a, s) PROVE Change
  <2>1. NewRow("active", s) \in CronRow /\ NewRow("active", s).token = NoTick
        /\ NewRow("active", s).until = 0 /\ NewRow("active", s).next = NextRun(s, now)
    BY <1>0, NewRowType DEF NewRow
  <2> QED
    BY <1>5, <2>1 DEF Create, NextTimeFrom, RowChange, Ended
<1>6. ASSUME NEW a \in Crons, NEW status \in {"active", "paused", "deleted"},
             SetStatus(a, status)
      PROVE  Change
  <2> DEFINE row == [cron[a] EXCEPT !.status = status]
  <2>1. /\ row \in CronRow /\ row.token = cron[a].token /\ row.until = cron[a].until
        /\ row.next = cron[a].next /\ cron' = [cron EXCEPT ![a] = row] /\ row.status # "absent"
    BY <1>0, <1>6 DEF CronRow, SetStatus
  <2> HIDE DEF row
  <2> QED
    BY <2>1 DEF NextTimeFrom, RowChange, Edited
<1>7. ASSUME NEW a \in Crons, NEW s \in Schedules, Reschedule(a, s) PROVE Change
  <2> DEFINE n == NextRun(s, now)
             row == [cron[a] EXCEPT !.schedule = s, !.next = n]
  <2>1. n \in 1..Never
    BY <1>0, NextRunIsLater
  <2>2. cron' = [cron EXCEPT ![a] = row] /\ \E t \in Schedules : n = NextRun(t, now)
    BY <1>0, <1>7 DEF Reschedule
  <2> HIDE DEF n
  <2>3. /\ row \in CronRow /\ row.token = cron[a].token /\ row.until = cron[a].until
        /\ row.next = n /\ row.status = cron[a].status
    BY <1>0, <2>1 DEF CronRow
  <2> HIDE DEF row
  <2> QED
    BY <2>2, <2>3 DEF NextTimeFrom, RowChange, Edited
<1>8. ASSUME NEW a \in Crons, LeaseExpires(a) PROVE Change
  <2>0. now \in 0..Live /\ cron[a].token # NoTick
    BY <1>0, <1>8 DEF Minutes, Live, LeaseExpires
  <2> DEFINE row == [cron[a] EXCEPT !.until = now]
  <2>1. /\ row \in CronRow /\ row.token = cron[a].token /\ row.until = now
        /\ row.next = cron[a].next /\ row.status = cron[a].status
    BY <1>0, <2>0 DEF CronRow
  <2>2. cron' = [cron EXCEPT ![a] = row]
    BY <1>8 DEF LeaseExpires
  <2> HIDE DEF row
  <2> QED
    BY <1>8, <2>0, <2>1, <2>2 DEF NextTimeFrom, RowChange, Expired
<1> HIDE DEF Change
<1>9. Change \/ cron' = cron
  BY <1>1, <1>2, <1>3, <1>4, <1>5, <1>6, <1>7, <1>8
     DEF Next, Progress, StartTick, EndTick, Skip, RunEnds, RunFails, LeaseLost, CompleteConflict,
         Cancelled, Dies, ClockTicks, vars
<1> QED
  BY <1>9 DEF Change

LEMMA CronNext == Types /\ [Next]_vars => CronTyped(cron')
<1> SUFFICES ASSUME Types, [Next]_vars PROVE CronTyped(cron')
  OBVIOUS
<1>0. CronTyped(cron) /\ NoTick \notin Ticks /\ now \in Nat /\ Live \in Nat \ {0}
  BY CronAssumption DEF Types, TypeOK, CronTyped, Live, Minutes
<1>1. ASSUME NEW a \in Crons, NEW row \in CronRow,
             cron' = [cron EXCEPT ![a] = row], RowChange(a, row)
      PROVE  CronTyped(cron')
  <2>1. row.token = NoTick <=> row.until = 0
    BY <1>0, <1>1 DEF RowChange, Claimed, Renewed, Expired, Ended, Edited, CronTyped, Types,
         ClockInv
  <2> QED
    BY <1>0, <1>1, <2>1, RowReplaced
<1> QED
  BY <1>0, <1>1, TableStep

\* No other step makes a free row carry a claim, or changes the holder.
LEMMA OnlyClaimTakes ==
    ASSUME Types, [Next]_vars, NEW a \in Crons, cron'[a].token # cron[a].token,
           cron'[a].token # NoTick
    PROVE  \E k \in Ticks : Claim(k) /\ Current(k) = a /\ cron'[a].token = k
<1>0. cron \in [Crons -> CronRow]
  BY DEF Types, TypeOK
<1>1. PICK b \in Crons, row \in CronRow : cron' = [cron EXCEPT ![b] = row] /\ RowChange(b, row)
  BY TableStep
<1> QED
  BY <1>0, <1>1 DEF RowChange, Claimed, Renewed, Expired, Ended, Edited

LEMMA ClockNext == Types /\ [Next]_vars => ClockInv' /\ now' \in Minutes /\ now <= now'
<1> SUFFICES ASSUME Types, [Next]_vars
             PROVE  ClockInv' /\ now' \in Minutes /\ now <= now'
  OBVIOUS
<1>0. /\ now \in Nat /\ now' \in Minutes /\ now' \in Nat /\ now <= now'
      /\ tick' \in [Ticks -> TickState] /\ cron' \in [Crons -> CronRow]
  <2>1. now \in Minutes /\ MaxTime \in Nat
    BY CronAssumption DEF Types, TypeOK
  <2>2. now' = now \/ (now < MaxTime /\ now' = now + 1)
    BY DEF Next, Progress, StartTick, EndTick, Claim, Skip, RunEnds, RunFails, LeaseLost, Complete,
           CompleteConflict, Release, Refresh, Cancelled, Dies, SetStatus, Create, Reschedule, Edit,
           LeaseExpires, ClockTicks, vars
  <2> QED
    BY <2>1, <2>2, TickNext, CronNext DEF Minutes, CronTyped
<1>1. \A k \in Ticks : tick'[k].start = tick[k].start \/ tick'[k].start = now \/ tick'[k].start = 0
  <2>0. tick \in [Ticks -> TickState]
    BY DEF Types, TypeOK
  <2>1. ASSUME NEW j \in Ticks, tick' = [tick EXCEPT ![j] = Idle]
        PROVE  \A k \in Ticks : tick'[k].start = tick[k].start \/ tick'[k].start = 0
    BY <2>0, <2>1 DEF Idle
  <2>2. ASSUME NEW j \in Ticks, tick' = NextRow(j)
        PROVE  \A k \in Ticks : tick'[k].start = tick[k].start
    BY <2>0, <2>2 DEF NextRow, TickState
  <2>3. ASSUME NEW j \in Ticks, NEW p, tick' = Place(j, p)
        PROVE  \A k \in Ticks : tick'[k].start = tick[k].start
    BY <2>0, <2>3 DEF Place, TickState
  <2>4. ASSUME NEW j \in Ticks, Claim(j)
        PROVE  \A k \in Ticks : tick'[k].start = tick[k].start
    <3> DEFINE n == cron[Current(j)].next
    <3>1. tick' = [tick EXCEPT ![j].place = "running", ![j].slot = n]
      BY <2>4 DEF Claim
    <3> HIDE DEF n
    <3> QED
      BY <2>0, <3>1 DEF TickState
  <2>5. ASSUME NEW j \in Ticks, StartTick(j)
        PROVE  \A k \in Ticks : tick'[k].start = tick[k].start \/ tick'[k].start = now
    <3>1. PICK s \in DueRows :
            tick' = [tick EXCEPT ![j] = [Idle EXCEPT !.place = "picking", !.start = now,
                                                     !.rows = AsRead(s)]]
      BY <2>5 DEF StartTick
    <3> DEFINE new == [Idle EXCEPT !.place = "picking", !.start = now, !.rows = AsRead(s)]
    <3>2. tick' = [tick EXCEPT ![j] = new] /\ new.start = now
      BY <3>1 DEF Idle
    <3> HIDE DEF new
    <3> QED
      BY <2>0, <3>2
  <2>6. CASE UNCHANGED tick
    BY <2>6
  <2> QED
    BY <2>1, <2>2, <2>3, <2>4, <2>5, <2>6
       DEF Next, Progress, EndTick, Skip, RunEnds, RunFails, LeaseLost, Complete,
           CompleteConflict, Release, Refresh, Cancelled, Dies, SetStatus, Create, Reschedule,
           Edit, LeaseExpires, ClockTicks, vars
<1>2. \A k \in Ticks : tick'[k].start <= now'
  <2> TAKE k \in Ticks
  <2>1. tick[k].start <= now /\ tick[k].start \in Nat
    <3>1. tick[k] \in TickState /\ MaxTime \in Nat
      BY CronAssumption DEF Types, TypeOK
    <3> QED
      BY <3>1 DEF Types, ClockInv, TickState, Minutes
  <2> QED
    BY <1>0, <1>1, <2>1
<1>3. ASSUME NEW a \in Crons, cron[a].token = NoTick, cron'[a].token # NoTick
      PROVE  now > 0
  <2>1. PICK k \in Ticks : Claim(k)
    BY <1>3, OnlyClaimTakes
  <2>2. cron[Current(k)].next \in 1..Never /\ cron[Current(k)].next <= tick[k].start
    BY <2>1, CurrentType DEF Claim, Due, Types, TypeOK, CronRow
  <2> QED
    BY <1>0, <2>1, <2>2 DEF Types, ClockInv, TypeOK, TickState, Minutes
<1> QED
  BY <1>0, <1>2, <1>3 DEF Types, ClockInv

\* Only Complete records a due time, and the one it records is past.
LEMMA DoneNext ==
    ASSUME Types, [Next]_vars
    PROVE  /\ done' \in [Crons -> SUBSET Minutes]
           /\ \/ done' = done
              \/ \E k \in Ticks : Complete(k) /\ tick[k].slot \in Minutes /\ Current(k) \in Crons
<1>0. done \in [Crons -> SUBSET Minutes]
  BY DEF Types, TypeOK
<1>1. ASSUME NEW k \in Ticks, Complete(k)
      PROVE  /\ tick[k].slot \in Minutes /\ Current(k) \in Crons
             /\ done' \in [Crons -> SUBSET Minutes]
  <2>1. tick[k] \in TickState /\ tick[k].slot <= tick[k].start /\ Current(k) \in Crons
    BY <1>1, CurrentType DEF Complete, Types, TypeOK, RowsThere, At, Busy
  <2>2. tick[k].slot \in Minutes
    BY <2>1, CronAssumption DEF TickState, Minutes, Never
  <2> QED
    BY <1>0, <1>1, <2>1, <2>2 DEF Complete
<1>2. (\E k \in Ticks : Complete(k)) \/ done' = done
  BY DEF Next, Progress, StartTick, EndTick, Claim, Skip, RunEnds, RunFails, LeaseLost,
         CompleteConflict, Release, Refresh, Cancelled, Dies, SetStatus, Create, Reschedule, Edit,
         LeaseExpires, ClockTicks, vars
<1> QED
  BY <1>0, <1>1, <1>2

LEMMA CountersNext ==
    ASSUME Types, [Next]_vars
    PROVE  late' \subseteq Crons /\ faults' \in 0..MaxFaults /\ edits' \in 0..MaxEdits
<1>0. /\ late \subseteq Crons /\ faults \in 0..MaxFaults /\ edits \in 0..MaxEdits
      /\ MaxFaults \in Nat /\ MaxEdits \in Nat
  BY CronAssumption DEF Types, TypeOK
<1>1. late' = late \/ \E a \in Crons : late' = late \cup {a}
  BY DEF Next, Progress, StartTick, EndTick, Claim, Skip, RunEnds, RunFails, LeaseLost, Complete,
         CompleteConflict, Release, Refresh, Cancelled, Dies, SetStatus, Create, Reschedule, Edit,
         LeaseExpires, ClockTicks, vars
<1>2. faults' = faults \/ (faults < MaxFaults /\ faults' = faults + 1)
  BY DEF Next, Progress, StartTick, EndTick, Claim, Skip, RunEnds, RunFails, LeaseLost, Complete,
         CompleteConflict, Release, Refresh, Cancelled, Dies, SetStatus, Create, Reschedule, Edit,
         LeaseExpires, ClockTicks, vars
<1>3. edits' = edits \/ (edits < MaxEdits /\ edits' = edits + 1)
  BY DEF Next, Progress, StartTick, EndTick, Claim, Skip, RunEnds, RunFails, LeaseLost, Complete,
         CompleteConflict, Release, Refresh, Cancelled, Dies, SetStatus, Create, Reschedule, Edit,
         LeaseExpires, ClockTicks, vars
<1>4. late' \subseteq Crons
  BY <1>0, <1>1
<1> QED
  BY <1>0, <1>2, <1>3, <1>4

LEMMA TypeNext == Types /\ [Next]_vars => Types'
  BY TickNext, CronNext, DoneNext, ClockNext, CountersNext DEF Types, TypeOK, CronTyped

\* Type correctness; in particular a claim and the end of its lease are set and
\* cleared together.
THEOREM TypeCorrect == Spec => []TypeOK
<1>1. Spec => []Types
  BY TypeInit, TypeNext, PTL DEF Spec
<1> QED
  BY <1>1, PTL DEF Types

-----------------------------------------------------------------------------
(* Completed times are past *)

\* What makes it inductive: a completed time is also before the clock, from
\* which a changed schedule starts, and no later than the start of the tick that
\* holds the claim, from which that tick will compute the next time.
DoneInv ==
    /\ \A a \in Crons : \A s \in done[a] : s <= now /\ s < cron[a].next
    /\ \A k \in Ticks : Busy(k) /\ Holds(k) => \A s \in done[Current(k)] : s <= tick[k].start

\* Two steps later than NextRunIsLater, for a set of times.
LEMMA NextAfterAll ==
    ASSUME NEW T \in SUBSET Minutes, NEW t \in Minutes, \A s \in T : s <= t, NEW sch \in Schedules
    PROVE  \A s \in T : s < NextRun(sch, t)
<1>1. NextRun(sch, t) \in 1..Never /\ t < NextRun(sch, t) /\ MaxTime \in Nat
  BY NextRunIsLater, CronAssumption
<1> DEFINE n == NextRun(sch, t)
<1>2. n \in Nat /\ t < n /\ t \in Nat /\ T \subseteq Nat
  BY <1>1 DEF Never, Minutes
<1> HIDE DEF n
<1>3. \A s \in T : s < n
  BY <1>2
<1> QED
  BY <1>3 DEF n

\* What a step does to a tick that is busy after it: it has just claimed, or it
\* was busy on the same row, with the same start.
LEMMA TickStep ==
    ASSUME Types, [Next]_vars, NEW k \in Ticks, Busy(k)'
    PROVE  Claim(k) \/ (Busy(k) /\ Current(k)' = Current(k) /\ tick'[k].start = tick[k].start)
<1> DEFINE Same == Busy(k) /\ Current(k)' = Current(k) /\ tick'[k].start = tick[k].start
<1>0. tick \in [Ticks -> TickState] /\ tick' \in [Ticks -> TickState]
  BY TickNext DEF Types, TypeOK
<1>1. ASSUME tick'[k] = tick[k] PROVE Same
  BY <1>1 DEF Busy, Current
<1>2. ASSUME NEW j \in Ticks, tick' = [tick EXCEPT ![j] = Idle] PROVE Same
  <2>1. CASE j = k
    BY <1>0, <1>2, <2>1 DEF Busy, Idle
  <2>2. CASE j # k
    BY <1>0, <1>1, <1>2, <2>2
  <2> QED
    BY <2>1, <2>2
<1>3. ASSUME NEW j \in Ticks, tick' = NextRow(j) PROVE Same
  <2>1. CASE j = k
    <3>1. tick'[k].place = "picking"
      BY <1>0, <1>3, <2>1 DEF NextRow, TickState
    <3> QED
      BY <3>1 DEF Busy
  <2>2. CASE j # k
    BY <1>0, <1>1, <1>3, <2>2 DEF NextRow
  <2> QED
    BY <2>1, <2>2
<1>4. ASSUME NEW j \in Ticks, Busy(j), NEW p, tick' = Place(j, p) PROVE Same
  <2>1. CASE j = k
    BY <1>0, <1>4, <2>1 DEF Place, TickState, Current
  <2>2. CASE j # k
    BY <1>0, <1>1, <1>4, <2>2 DEF Place
  <2> QED
    BY <2>1, <2>2
<1>5. ASSUME NEW j \in Ticks, Claim(j) PROVE Claim(k) \/ Same
  <2>1. j # k => tick'[k] = tick[k]
    BY <1>0, <1>5 DEF Claim
  <2> QED
    BY <1>1, <1>5, <2>1
<1>6. ASSUME NEW j \in Ticks, StartTick(j) PROVE Same
  <2>1. PICK s \in DueRows :
          tick' = [tick EXCEPT ![j] = [Idle EXCEPT !.place = "picking", !.start = now,
                                                   !.rows = AsRead(s)]]
    BY <1>6 DEF StartTick
  <2> DEFINE new == [Idle EXCEPT !.place = "picking", !.start = now, !.rows = AsRead(s)]
  <2>2. tick' = [tick EXCEPT ![j] = new] /\ new.place = "picking"
    BY <2>1 DEF Idle
  <2> HIDE DEF new
  <2>3. CASE j = k
    BY <1>0, <2>2, <2>3 DEF Busy
  <2>4. CASE j # k
    BY <1>0, <1>1, <2>2, <2>4
  <2> QED
    BY <2>3, <2>4
<1>7. ASSUME UNCHANGED tick PROVE Same
  BY <1>1, <1>7
<1> HIDE DEF Same
<1>8. ASSUME NEW j \in Ticks, Cancelled(j) PROVE Same
  BY <1>2, <1>4, <1>8 DEF Cancelled, At, Busy
<1>9. ASSUME NEW j \in Ticks,
             RunEnds(j) \/ RunFails(j) \/ LeaseLost(j) \/ CompleteConflict(j)
      PROVE  Same
  <2>1. Busy(j)
    BY <1>9 DEF RunEnds, RunFails, LeaseLost, CompleteConflict, At, Busy
  <2> QED
    BY <1>4, <1>9, <2>1 DEF RunEnds, RunFails, LeaseLost, CompleteConflict
<1>10. ASSUME NEW j \in Ticks, EndTick(j) \/ Dies(j) \/ Skip(j) \/ Complete(j) \/ Release(j)
       PROVE  Same
  BY <1>2, <1>3, <1>10 DEF EndTick, Dies, Skip, Complete, Release
<1>11. Claim(k) \/ Same
  BY <1>5, <1>6, <1>7, <1>8, <1>9, <1>10
     DEF Next, Progress, Refresh, SetStatus, Create, Reschedule, Edit, LeaseExpires, ClockTicks, vars
<1> QED
  BY <1>11 DEF Same

\* So a busy tick holds its row only if it has just claimed it or held it before.
LEMMA HolderKept ==
    ASSUME Types, [Next]_vars, NEW k \in Ticks, Busy(k)', Holds(k)', ~Claim(k)
    PROVE  Busy(k) /\ Holds(k) /\ Current(k)' = Current(k) /\ tick'[k].start = tick[k].start
<1>1. Busy(k) /\ Current(k)' = Current(k) /\ tick'[k].start = tick[k].start
  BY TickStep
<1>2. Current(k) \in Crons /\ NoTick \notin Ticks
  BY <1>1, CurrentType, CronAssumption DEF Types, RowsThere
<1>3. cron'[Current(k)].token = k
  BY <1>1 DEF Holds
<1>4. cron[Current(k)].token = k
  <2>1. ASSUME cron[Current(k)].token # k PROVE \E j \in Ticks : Claim(j) /\ k = j
    BY <1>2, <1>3, <2>1, OnlyClaimTakes
  <2> QED
    BY <2>1
<1> QED
  BY <1>1, <1>4 DEF Holds

LEMMA DoneInvInit == Init => DoneInv
  BY DEF Init, DoneInv, Busy, Idle

\* A completing tick holds the claim, and its due time was past when it started.
LEMMA CompletedPast ==
    ASSUME Types, DoneInv, NEW k \in Ticks, Complete(k), Current(k) \in Crons
    PROVE  \A s \in done[Current(k)] \cup {tick[k].slot} : s <= tick[k].start
  BY DEF Complete, DoneInv, Types, RowsThere, At, Busy

LEMMA DoneStep ==
    ASSUME Types, DoneInv, [Next]_vars, NEW a \in Crons, NEW s \in done'[a]
    PROVE  s <= now' /\ s < cron'[a].next
<1>0. /\ cron \in [Crons -> CronRow] /\ done \in [Crons -> SUBSET Minutes]
      /\ now \in Minutes /\ now' \in Minutes /\ now <= now' /\ Minutes \subseteq Nat
      /\ \A k \in Ticks : tick[k].start \in Minutes /\ tick[k].start <= now
  BY ClockNext DEF Types, TypeOK, ClockInv, TickState, Minutes
<1>1. s \in Minutes /\ done' \in [Crons -> SUBSET Minutes]
  BY DoneNext
<1>2. ASSUME NEW k \in Ticks, Complete(k), Current(k) = a
      PROVE  s <= tick[k].start /\ s < cron'[a].next
  <2>1. done' = [done EXCEPT ![a] = done[a] \cup {tick[k].slot}]
    BY <1>2 DEF Complete
  <2>2. s <= tick[k].start /\ {s} \in SUBSET Minutes
    BY <1>0, <1>1, <1>2, <2>1, CompletedPast
  <2>3. Head(tick[k].rows).schedule \in Schedules
    BY <1>2, CurrentType DEF Complete, Types, RowsThere, At, Busy, DueRow
  <2> DEFINE n == NextRun(Head(tick[k].rows).schedule, tick[k].start)
  <2>4. s < n
    BY <1>0, <2>2, <2>3, NextAfterAll
  <2>5. cron'[a].next = n
    <3>1. cron' = [cron EXCEPT ![a] = [Free(@) EXCEPT !.last = tick[k].start, !.next = n]]
      BY <1>2 DEF Complete
    <3>2. Free(cron[a]) \in CronRow
      BY <1>0, FreeType
    <3> HIDE DEF n
    <3> QED
      BY <1>0, <3>1, <3>2 DEF CronRow
  <2> QED
    BY <2>2, <2>4, <2>5
<1>3. CASE \E k \in Ticks : Complete(k) /\ Current(k) = a
  <2>1. PICK k \in Ticks : Complete(k) /\ Current(k) = a
    BY <1>3
  <2>2. s <= tick[k].start /\ s < cron'[a].next /\ tick[k].start <= now /\ now <= now'
    BY <1>0, <1>2, <2>1
  <2>3. s \in Nat /\ tick[k].start \in Nat /\ now \in Nat /\ now' \in Nat
    BY <1>0, <1>1
  <2> QED
    BY <2>2, <2>3
<1>4. CASE ~\E k \in Ticks : Complete(k) /\ Current(k) = a
  <2>1. done'[a] = done[a]
    <3>1. CASE done' = done
      BY <3>1
    <3>2. ASSUME NEW k \in Ticks, Complete(k) PROVE done'[a] = done[a]
      BY <1>0, <1>4, <3>2 DEF Complete
    <3> QED
      BY <3>1, <3>2, DoneNext
  <2>2. s <= now /\ s < cron[a].next
    BY <2>1 DEF DoneInv
  <2>3. ASSUME NEW sch \in Schedules PROVE s < NextRun(sch, now)
    <3>1. {s} \in SUBSET Minutes
      BY <1>1
    <3> QED
      BY <1>0, <2>2, <3>1, NextAfterAll
  <2>4. cron'[a].next = cron[a].next \/ \E sch \in Schedules : cron'[a].next = NextRun(sch, now)
    BY <1>0, <1>4, TableStep DEF NextTimeFrom
  <2> QED
    BY <1>0, <1>1, <2>2, <2>3, <2>4
<1> QED
  BY <1>3, <1>4

LEMMA DoneInvNext == Types /\ DoneInv /\ [Next]_vars => DoneInv'
<1> SUFFICES ASSUME Types, DoneInv, [Next]_vars PROVE DoneInv'
  OBVIOUS
<1>1. \A a \in Crons : \A s \in done'[a] : s <= now' /\ s < cron'[a].next
  BY DoneStep
<1>2. ASSUME NEW k \in Ticks, Busy(k)', Holds(k)', NEW s \in done'[Current(k)']
      PROVE  s <= tick'[k].start
  <2>0. /\ cron \in [Crons -> CronRow] /\ done \in [Crons -> SUBSET Minutes]
        /\ tick \in [Ticks -> TickState] /\ Minutes \subseteq Nat
    BY DEF Types, TypeOK, Minutes
  <2>1. CASE Claim(k)
    <3>1. /\ Current(k) \in Crons /\ done' = done /\ cron[Current(k)].next <= tick[k].start
      BY <2>1, CurrentType DEF Claim, Due
    <3>2. Current(k)' = Current(k) /\ tick'[k].start = tick[k].start
      <4> DEFINE n == cron[Current(k)].next
      <4>1. tick' = [tick EXCEPT ![k].place = "running", ![k].slot = n]
        BY <2>1 DEF Claim
      <4> HIDE DEF n
      <4> QED
        BY <2>0, <4>1 DEF Current, TickState
    <3>3. s \in Minutes /\ s < cron[Current(k)].next
      BY <1>2, <2>0, <3>1, <3>2 DEF DoneInv
    <3>4. s \in Nat /\ cron[Current(k)].next \in Nat /\ tick[k].start \in Nat
      <4>1. cron[Current(k)] \in CronRow /\ tick[k] \in TickState
        BY <2>0, <3>1
      <4>2. cron[Current(k)].next \in 1..Never
        BY <4>1 DEF CronRow
      <4>3. tick[k].start \in Nat /\ s \in Nat
        BY <2>0, <3>3, <4>1 DEF TickState
      <4> QED
        BY <4>2, <4>3
    <3> QED
      BY <3>1, <3>2, <3>3, <3>4
  <2>2. CASE ~Claim(k)
    <3>1. Busy(k) /\ Holds(k) /\ Current(k)' = Current(k) /\ tick'[k].start = tick[k].start
      BY <1>2, <2>2, HolderKept
    <3>2. ASSUME NEW j \in Ticks, Complete(j), Current(j) = Current(k) PROVE FALSE
      <4>1. j = k
        BY <3>1, <3>2 DEF Complete, Holds
      <4>2. tick'[k].place = "picking"
        BY <2>0, <3>2, <4>1 DEF Complete, NextRow, TickState
      <4> QED
        BY <1>2, <4>2 DEF Busy
    <3>3. done'[Current(k)] = done[Current(k)]
      <4>1. ASSUME NEW j \in Ticks, Complete(j), Current(j) \in Crons
            PROVE  done'[Current(k)] = done[Current(k)]
        <5>1. Current(j) # Current(k)
          BY <3>2, <4>1
        <5>2. PICK d : done' = [done EXCEPT ![Current(j)] = d]
          BY <4>1 DEF Complete
        <5>3. Current(k) \in Crons
          BY <3>1, CurrentType DEF Types, RowsThere
        <5> QED
          BY <2>0, <5>1, <5>2, <5>3
      <4> QED
        BY <4>1, DoneNext
    <3> QED
      BY <1>2, <3>1, <3>3 DEF DoneInv
  <2> QED
    BY <2>1, <2>2
<1> QED
  BY <1>1, <1>2 DEF DoneInv

\* An execution that was completed never becomes due again, for every number of
\* ticks and whatever they claim, lose and complete late.
THEOREM CompletedStayPast == Spec => []CompletedTimesPast
<1>1. Types /\ DoneInv => CompletedTimesPast
  BY DEF DoneInv, CompletedTimesPast
<1> QED
  BY <1>1, TypeInit, TypeNext, DoneInvInit, DoneInvNext, PTL DEF Spec

-----------------------------------------------------------------------------
(* One execution at a time, and lost claims *)

\* A busy tick holds its row under a lease that runs, unless the lease ran out
\* while the tick was alive.
OwnInv ==
    /\ \A k \in Ticks : Busy(k) => \/ Holds(k) /\ cron[Current(k)].until = Live
                                   \/ Current(k) \in late
    /\ \A a \in Crons : cron[a].status = "absent" => cron[a].token = NoTick

LEMMA OwnInvInit == Init => OwnInv
<1> SUFFICES ASSUME Init PROVE OwnInv
  OBVIOUS
<1>1. \A a \in Crons : cron[a].token = NoTick
  BY DEF Init, NewRow
<1>2. \A k \in Ticks : ~Busy(k)
  BY DEF Init, Busy, Idle
<1> QED
  BY <1>1, <1>2 DEF OwnInv

LEMMA LateGrows ==
    ASSUME [Next]_vars
    PROVE  late \subseteq late'
  BY DEF Next, Progress, StartTick, EndTick, Claim, Skip, RunEnds, RunFails, LeaseLost, Complete,
         CompleteConflict, Release, Refresh, Cancelled, Dies, SetStatus, Create, Reschedule, Edit,
         LeaseExpires, ClockTicks, vars

\* No step ends the lease of a tick that stays busy, except that it runs out.
LEMMA OwnRowStep ==
    ASSUME Types, OwnInv, [Next]_vars, NEW k \in Ticks, Busy(k)', Busy(k), Holds(k),
           NEW a \in Crons, a = Current(k), cron[a].until = Live
    PROVE  (cron'[a].token = k /\ cron'[a].until = Live) \/ a \in late'
<1>0. /\ cron \in [Crons -> CronRow] /\ tick \in [Ticks -> TickState]
      /\ cron[a].token = k /\ NoTick \notin Ticks
  BY CronAssumption DEF Types, TypeOK, Holds
<1>1. ASSUME NEW row \in CronRow, cron' = [cron EXCEPT ![a] = row], RowChange(a, row)
      PROVE  (row.token = k /\ row.until = Live) \/ a \in late'
  <2>1. ASSUME NEW j \in Ticks, Claim(j), Current(j) = a PROVE FALSE
    <3>1. cron[a].until <= tick[j].start
      BY <1>0, <2>1 DEF Claim, Due
    <3>2. tick[j].start \in Minutes /\ MaxTime \in Nat
      BY <1>0, CronAssumption DEF TickState
    <3> QED
      BY <3>1, <3>2 DEF Live, Minutes
  <2>2. CASE LeaseExpires(a)
    <3>1. Attended(a)
      BY DEF Attended
    <3> QED
      BY <2>2, <3>1 DEF LeaseExpires
  <2>3. ASSUME NEW j \in Ticks, Complete(j) \/ Release(j), Holds(j), Current(j) = a PROVE FALSE
    <3>1. j = k
      BY <1>0, <2>3 DEF Holds
    <3>2. tick'[k].place \in {"picking", "idle"}
      BY <1>0, <2>3, <3>1 DEF Complete, Release, NextRow, Idle, TickState
    <3> QED
      BY <3>2 DEF Busy
  <2>4. cron[a].status # "absent"
    BY <1>0 DEF OwnInv
  <2> QED
    BY <1>0, <1>1, <2>1, <2>2, <2>3, <2>4 DEF RowChange, Claimed, Renewed, Expired, Ended, Edited
<1>2. CASE cron' = cron
  BY <1>0, <1>2
<1>3. ASSUME NEW b \in Crons, NEW row \in CronRow, cron' = [cron EXCEPT ![b] = row],
             RowChange(b, row)
      PROVE  (cron'[a].token = k /\ cron'[a].until = Live) \/ a \in late'
  BY <1>0, <1>1, <1>3
<1> QED
  BY <1>2, <1>3, TableStep

LEMMA OwnInvNext == Types /\ OwnInv /\ [Next]_vars => OwnInv'
<1> SUFFICES ASSUME Types, OwnInv, [Next]_vars PROVE OwnInv'
  OBVIOUS
<1>0. cron \in [Crons -> CronRow] /\ tick \in [Ticks -> TickState] /\ late \subseteq late'
  BY LateGrows DEF Types, TypeOK
<1>1. ASSUME NEW k \in Ticks, Busy(k)'
      PROVE  (Holds(k)' /\ cron'[Current(k)'].until = Live) \/ Current(k)' \in late'
  <2>1. CASE Claim(k)
    <3>1. Current(k) \in Crons
      BY <2>1, CurrentType DEF Claim
    <3>2. Current(k)' = Current(k)
      <4> DEFINE n == cron[Current(k)].next
      <4>1. tick' = [tick EXCEPT ![k].place = "running", ![k].slot = n]
        BY <2>1 DEF Claim
      <4> HIDE DEF n
      <4> QED
        BY <1>0, <4>1 DEF Current, TickState
    <3>3. cron' = [cron EXCEPT ![Current(k)].token = k, ![Current(k)].until = Live]
      BY <2>1 DEF Claim
    <3>4. cron'[Current(k)].token = k /\ cron'[Current(k)].until = Live
      BY <1>0, <3>1, <3>3 DEF CronRow
    <3> QED
      BY <3>2, <3>4 DEF Holds
  <2>2. CASE ~Claim(k)
    <3>1. Busy(k) /\ Current(k)' = Current(k)
      BY <1>1, <2>2, TickStep
    <3>2. Current(k) \in Crons
      BY <3>1, CurrentType DEF Types, RowsThere
    <3>3. CASE Current(k) \in late
      BY <1>0, <3>1, <3>3
    <3>4. CASE Current(k) \notin late
      <4>1. Holds(k) /\ cron[Current(k)].until = Live
        BY <3>1, <3>4 DEF OwnInv
      <4> QED
        BY <1>1, <3>1, <3>2, <4>1, OwnRowStep DEF Holds
    <3> QED
      BY <3>3, <3>4
  <2> QED
    BY <2>1, <2>2
<1>2. ASSUME NEW a \in Crons, cron'[a].status = "absent" PROVE cron'[a].token = NoTick
  BY <1>0, <1>2, TableStep DEF OwnInv, RowChange, Claimed, Renewed, Expired, Ended, Edited
<1> QED
  BY <1>1, <1>2 DEF OwnInv

\* No row is executed by two ticks at once, for every number of daemons, unless
\* a lease ran out under a live tick.
THEOREM OneAtATime == Spec => []NeverTwiceAtOnce
<1>1. OwnInv => NeverTwiceAtOnce
  BY DEF OwnInv, NeverTwiceAtOnce, Holds
<1> QED
  BY <1>1, TypeInit, TypeNext, OwnInvInit, OwnInvNext, PTL DEF Spec

\* For every step of every tick: one that no longer holds the claim changes no
\* row.
LEMMA LostClaimStep ==
    ASSUME Types, [Next]_vars, NEW k \in Ticks, Busy(k), cron[Current(k)].token # k,
           tick'[k] # tick[k]
    PROVE  cron' = cron
<1>0. tick \in [Ticks -> TickState]
  BY DEF Types, TypeOK
<1>1. ASSUME NEW j \in Ticks, j # k, Claim(j) \/ Complete(j) \/ Release(j) PROVE FALSE
  <2>1. CASE Claim(j)
    BY <1>0, <1>1, <2>1 DEF Claim
  <2>2. CASE Complete(j)
    BY <1>0, <1>1, <2>2 DEF Complete, NextRow
  <2>3. CASE Release(j)
    BY <1>0, <1>1, <2>3 DEF Release, NextRow
  <2> QED
    BY <1>1, <2>1, <2>2, <2>3
<1>2. ~Claim(k) /\ ~Complete(k)
  BY DEF Claim, Complete, Busy, At, Holds
<1>3. CASE Release(k)
  BY <1>3 DEF Release, Holds
<1>4. CASE UNCHANGED tick
  BY <1>4
<1> QED
  BY <1>1, <1>2, <1>3, <1>4
     DEF Next, Progress, StartTick, EndTick, Skip, RunEnds, RunFails, LeaseLost, CompleteConflict,
         Refresh, Cancelled, Dies, SetStatus, Create, Reschedule, Edit, LeaseExpires, ClockTicks, vars

THEOREM LostClaimsChangeNothing == Spec => LostClaimHarmless
<1>1. Types /\ [Next]_vars =>
        [\A k \in Ticks :
          (Busy(k) /\ cron[Current(k)].token # k /\ tick'[k] # tick[k]) => cron' = cron]_vars
  BY LostClaimStep
<1> QED
  BY <1>1, TypeInit, TypeNext, PTL DEF Spec, LostClaimHarmless

-----------------------------------------------------------------------------
(* Claims are leases *)

LEMMA SetExpired ==
    ASSUME NEW r, NEW holder, NEW e, r = [holder |-> holder, expired |-> e]
    PROVE  r.holder = holder /\ \A f : [r EXCEPT !.expired = f] = [holder |-> holder, expired |-> f]
  OBVIOUS

LEMMA LeaseStep ==
    ASSUME Types, [Next]_vars
    PROVE  [Lease!Next]_Leases
<1>0. /\ cron \in [Crons -> CronRow] /\ tick \in [Ticks -> TickState]
      /\ now \in Minutes /\ MaxTime \in Nat /\ NoTick \notin Ticks
  BY CronAssumption DEF Types, TypeOK
<1>1. CASE cron' = cron
  BY <1>1 DEF Leases
<1>2. ASSUME NEW a \in Crons, NEW row \in CronRow, cron' = [cron EXCEPT ![a] = row],
             RowChange(a, row)
      PROVE  Lease!Next \/ Leases' = Leases
  <2> DEFINE h == [holder |-> row.token, expired |-> row.token # NoTick /\ row.until # Live]
  <2>1. Leases' = [Leases EXCEPT ![a] = h]
    BY <1>0, <1>2 DEF Leases
  <2>2. CASE Claimed(a, row)
    <3>1. PICK k \in Ticks : Claim(k) /\ Current(k) = a /\ row.token = k /\ row.until = Live
      BY <2>2 DEF Claimed
    <3>2. cron[a].token = NoTick \/ cron[a].until <= tick[k].start
      BY <3>1 DEF Claim, Due
    <3>3. cron[a].until <= tick[k].start => cron[a].until # Live
      BY <1>0, <3>1 DEF TickState, Minutes, Live
    <3>4. Leases[a].holder = NoTick \/ Leases[a].expired
      BY <3>2, <3>3 DEF Leases
    <3>5. h = [holder |-> k, expired |-> FALSE]
      BY <3>1
    <3>6. Leases' = [Leases EXCEPT ![a] = [holder |-> k, expired |-> FALSE]]
      BY <2>1, <3>5
    <3>7. Lease!Take(a, k)
      BY <3>4, <3>6 DEF Lease!Take
    <3> QED
      BY <3>7 DEF Lease!Next
  <2>3. CASE Renewed(a, row)
    <3>a. h = [holder |-> cron[a].token, expired |-> FALSE] /\ cron[a].token # NoTick
      BY <2>3 DEF Renewed
    <3>b. PICK e : Leases[a] = [holder |-> cron[a].token, expired |-> e]
      BY DEF Leases
    <3>1. Leases[a].holder # NoTick /\ h = [Leases[a] EXCEPT !.expired = FALSE]
      <4> HIDE DEF h
      <4>1. \A f : [Leases[a] EXCEPT !.expired = f] = [holder |-> cron[a].token, expired |-> f]
        BY <3>b, SetExpired
      <4> QED
        BY <3>a, <3>b, <4>1
    <3>2. Leases' = [Leases EXCEPT ![a].expired = FALSE]
      BY <2>1, <3>1
    <3> QED
      BY <3>1, <3>2 DEF Lease!Next, Lease!Renew
  <2>4. CASE Expired(a, row)
    <3>0. now # Live
      BY <1>0 DEF Minutes, Live
    <3>a. h = [holder |-> cron[a].token, expired |-> TRUE] /\ cron[a].token # NoTick
      BY <2>4, <3>0 DEF Expired
    <3>b. PICK e : Leases[a] = [holder |-> cron[a].token, expired |-> e]
      BY DEF Leases
    <3>1. Leases[a].holder # NoTick /\ h = [Leases[a] EXCEPT !.expired = TRUE]
      <4> HIDE DEF h
      <4>1. \A f : [Leases[a] EXCEPT !.expired = f] = [holder |-> cron[a].token, expired |-> f]
        BY <3>b, SetExpired
      <4> QED
        BY <3>a, <3>b, <4>1
    <3>2. Leases' = [Leases EXCEPT ![a].expired = TRUE]
      BY <2>1, <3>1
    <3> QED
      BY <3>1, <3>2 DEF Lease!Next, Lease!Expire
  <2>5. CASE Ended(a, row)
    <3>1. h = Lease!Unheld
      BY <2>5 DEF Ended, Lease!Unheld
    <3> QED
      BY <2>1, <3>1 DEF Lease!Next, Lease!GiveUp
  <2>6. CASE Edited(a, row)
    <3>1. h = Leases[a]
      BY <2>6 DEF Edited, Leases
    <3> QED
      BY <2>1, <3>1 DEF Leases
  <2> QED
    BY <1>2, <2>2, <2>3, <2>4, <2>5, <2>6 DEF RowChange
<1> QED
  BY <1>1, <1>2, TableStep

\* The claim columns behave as LeasedResource promises: a claim is taken when the
\* row is free or its lease ran out, and kept by its holder otherwise.
THEOREM ClaimsImplementLeases == Spec => ClaimsAreLeases
<1>1. Init => Lease!Init
  <2> SUFFICES ASSUME Init PROVE Lease!Init
    OBVIOUS
  <2>1. \A a \in Crons : cron[a].token = NoTick
    BY DEF Init, NewRow
  <2> QED
    BY <2>1 DEF Lease!Init, Lease!Unheld, Leases
<1>2. Types /\ [Next]_vars => [Lease!Next]_Leases
  BY LeaseStep
<1> QED
  BY <1>1, <1>2, TypeInit, TypeNext, PTL DEF Spec, ClaimsAreLeases, Lease!Spec
=============================================================================
