---------------------------- MODULE SessionTurns ----------------------------
(***************************************************************************)
(* The turns of one chat session: requests of several callers (chat, API,  *)
(* automations, Task Flow, subagents) pass an idempotency claim when they  *)
(* carry a client message id, and then a queue of durable markers that     *)
(* lets one of them run at a time.  Each caller polls the tables; a step   *)
(* is one SQL statement, or one transaction from its first write on, since *)
(* reads before the first write see whatever is committed at that moment   *)
(* (SerializedSQLiteSession takes the write gate at the first write).  On  *)
(* PostgreSQL there is no gate: Sweep is what the deletion does there.     *)
(*                                                                         *)
(* Abstractions.  The owner tokens of a request are the request.  ids has  *)
(* the requests in the order of the ids of their markers (a new id is      *)
(* above all present ones, and a request inserts one marker); status tells *)
(* which markers are in the table.  A row is stale when its last heartbeat *)
(* lies before the cutoff.  The result of a turn is the request whose turn *)
(* produced it.                                                            *)
(***************************************************************************)
EXTENDS Integers, Sequences, FiniteSets, SequencesExt

CONSTANTS
    Requests,       \* calls of run_chat_turn and of SessionOrchestrator.run_turn
    Keys,           \* client message ids
    NoKey,          \* a call without one
    Nobody,         \* no request
    Calls,          \* the assignments of keys to requests to consider
    MaxFaults       \* bound: failures, crashes, late heartbeats

ASSUME SessionAssumption ==
    /\ NoKey \notin Keys /\ Nobody \notin Requests /\ MaxFaults \in Nat
    /\ Calls \subseteq [Requests -> Keys \cup {NoKey}]

VARIABLES
    turn,       \* every request: its place, key, success of its turn, answer,
                \* and whether its turn goes on although the caller has left it
    ids,        \* requests that inserted a queue marker, in the order of id
    status,     \* table chat_session_turn_queue: the status, "none" without a row
    stale,      \* owners of a marker that is older than the cutoff
    claim,      \* table chat_turn_idempotency_claim, and whether it is stale
    stored,     \* table chat_turn_idempotency
    started,    \* history: requests whose turn was started
    late,       \* history: markers and claims that aged under a live request
    split,      \* history: markers and claims taken upon a read no longer true
    faults      \* failures, crashes, late heartbeats so far (bounded)

queue == <<ids, status, stale>>
keys == <<claim, stored>>
vars == <<turn, queue, keys, started, late, split, faults>>

Places == {"looking", "claiming", "waiting", "checking",     \* idempotency
           "entering", "queueing", "peeked", "first", "running",    \* the queue
           "leaving", "storing", "unclaiming", "answered", "failed", "dead"}

Turn == [place : Places, key : Keys \cup {NoKey}, ok : BOOLEAN, orphan : BOOLEAN,
         answer : Requests \cup {Nobody}]

\* What a request holds: its queue marker and the claim on its key.
Lease == {"marker", "claim"} \X Requests

Claim == [owner : Requests \cup {Nobody}, stale : BOOLEAN]

TypeOK ==
    /\ turn \in [Requests -> Turn]
    /\ ids \in Seq(Requests)
    /\ \A i, j \in DOMAIN ids : ids[i] = ids[j] => i = j
    /\ status \in [Requests -> {"none", "queued", "running"}]
    /\ stale \subseteq {r \in Requests : status[r] # "none"}
    /\ claim \in [Keys -> Claim]
    /\ stored \in [Keys -> Requests \cup {Nobody}]
    /\ started \subseteq Requests /\ late \subseteq Lease /\ split \subseteq Lease
    /\ faults \in 0..MaxFaults

----------------------------------------------------------------------------
At(r, place) == turn[r].place = place
Key(r) == turn[r].key
Goes(r, place) == [turn EXCEPT ![r].place = place]
Alive(r) == turn[r].place \notin {"answered", "failed", "dead"}
Fault == faults < MaxFaults /\ faults' = faults + 1

\* try_mark_running, first read: no marker is running.
NoneRunning(st) == \A s \in Requests : st[s] # "running"

\* Broken: the queue is read in any order.
AnyInLine(r, st) == st[r] = "queued"

\* try_mark_running, second read: the queued marker with the lowest id.
FirstInLine(r, st) ==
    \E i \in DOMAIN ids :
        /\ ids[i] = r /\ st[r] = "queued"
        /\ \A j \in 1..(i - 1) : st[ids[j]] # "queued"

\* The table without the markers of some owners.
Without(owners) == [s \in Requests |-> IF s \in owners THEN "none" ELSE status[s]]

\* Broken: a running marker is left to its owner.
StaleQueued == {s \in stale : status[s] = "queued"}

\* Broken: how old the marker is does not matter.
StaleOrNot == {s \in Requests : status[s] # "none"}

\* release_stale.
Stale == stale

\* What follows the turn when the slot is given up or was never had.
AfterTurn(r) ==
    LET result == IF turn[r].ok THEN r ELSE Nobody IN
    IF Key(r) = NoKey
    THEN [turn EXCEPT ![r].place = IF turn[r].ok THEN "answered" ELSE "failed",
                      ![r].answer = result]
    ELSE Goes(r, IF turn[r].ok THEN "storing" ELSE "unclaiming")

----------------------------------------------------------------------------
(* The idempotency claim: run_idempotent_chat_turn *)

\* _claim_or_load_existing_result reads the stored result first ...
Look(r) ==
    /\ At(r, "looking")
    /\ turn' = IF stored[Key(r)] = Nobody THEN Goes(r, "claiming")
               ELSE [turn EXCEPT ![r].place = "answered", ![r].answer = stored[Key(r)]]
    /\ UNCHANGED <<queue, keys, started, late, split, faults>>

\* ... and inserts a claim, unless there is one.
TryClaim(r) ==
    LET k == Key(r) IN
    /\ At(r, "claiming")
    /\ IF claim[k].owner = Nobody
       THEN /\ turn' = Goes(r, "entering")
            /\ claim' = [claim EXCEPT ![k] = [owner |-> r, stale |-> FALSE]]
            /\ split' = IF stored[k] # Nobody THEN split \cup {<<"claim", r>>} ELSE split
       ELSE turn' = Goes(r, "waiting") /\ UNCHANGED <<claim, split>>
    /\ UNCHANGED <<queue, stored, started, late, faults>>

\* wait_for_claimed_turn_result polls for the result ...
Wait(r) ==
    /\ At(r, "waiting")
    /\ turn' = IF stored[Key(r)] = Nobody THEN Goes(r, "checking")
               ELSE [turn EXCEPT ![r].place = "answered", ![r].answer = stored[Key(r)]]
    /\ UNCHANGED <<queue, keys, started, late, split, faults>>

\* ... and for the end of the claim: released, or stale and then deleted.
CheckClaim(r) ==
    LET k == Key(r) IN
    /\ At(r, "checking")
    /\ IF claim[k].stale \/ claim[k].owner = Nobody
       THEN /\ turn' = Goes(r, "looking")
            /\ claim' = [claim EXCEPT ![k] = [owner |-> Nobody, stale |-> FALSE]]
       ELSE turn' = Goes(r, "waiting") /\ UNCHANGED claim
    /\ UNCHANGED <<queue, stored, started, late, split, faults>>

\* IDEMPOTENCY_WAIT_TIMEOUT_SEC.
WaitTimesOut(r) ==
    /\ At(r, "waiting")
    /\ turn' = Goes(r, "failed")
    /\ UNCHANGED <<queue, keys, started, late, split, faults>>

----------------------------------------------------------------------------
(* The turn queue: open_turn_lease *)

\* Broken: an insertion that is retried inserts a second marker.
EnqueueRetried(r) ==
    /\ At(r, "entering")
    /\ turn' = Goes(r, "queueing")
    /\ ids' = ids \o <<r, r>>
    /\ status' = [status EXCEPT ![r] = "queued"]
    /\ UNCHANGED <<stale, keys, started, late, split, faults>>

Enqueue(r) ==
    /\ At(r, "entering")
    /\ turn' = Goes(r, "queueing")
    /\ ids' = Append(ids, r)
    /\ status' = [status EXCEPT ![r] = "queued"]
    /\ UNCHANGED <<stale, keys, started, late, split, faults>>

\* A poll without a sweep: no row is running ...
PeekRunning(r) ==
    /\ At(r, "queueing") /\ NoneRunning(status)
    /\ turn' = Goes(r, "peeked")
    /\ UNCHANGED <<queue, keys, started, late, split, faults>>

\* ... the first queued row is the caller's ...
PeekFirst(r) ==
    /\ At(r, "peeked")
    /\ turn' = Goes(r, IF FirstInLine(r, status) THEN "first" ELSE "queueing")
    /\ UNCHANGED <<queue, keys, started, late, split, faults>>

\* ... and it is updated if it is still there.
MarkRunning(r) ==
    /\ At(r, "first")
    /\ IF status[r] = "queued"
       THEN /\ turn' = Goes(r, "running")
            /\ status' = [status EXCEPT ![r] = "running"]
            /\ stale' = stale \ {r}
            /\ started' = started \cup {r}
            /\ split' = IF NoneRunning(status) THEN split ELSE split \cup {<<"marker", r>>}
       ELSE turn' = Goes(r, "queueing") /\ UNCHANGED <<status, stale, started, split>>
    /\ UNCHANGED <<ids, keys, late, faults>>

\* A poll that sweeps: the deletion comes first, the reads and the update are
\* part of its transaction.
SweepPoll(r) ==
    LET left == Without(Stale) IN
    /\ At(r, "queueing")
    /\ stale' = stale \ Stale
    /\ IF NoneRunning(left) /\ FirstInLine(r, left)
       THEN /\ turn' = Goes(r, "running")
            /\ status' = [left EXCEPT ![r] = "running"]
            /\ started' = started \cup {r}
       ELSE turn' = turn /\ status' = left /\ UNCHANGED started
    /\ UNCHANGED <<ids, keys, late, split, faults>>

\* Without the write gate the deletion is a step of its own, and the reads and
\* the update that follow it are those of a poll without a sweep.
Sweep(r) ==
    /\ At(r, "queueing") /\ Stale # {}
    /\ stale' = stale \ Stale
    /\ status' = Without(Stale)
    /\ UNCHANGED <<turn, ids, keys, started, late, split, faults>>

\* _SESSION_QUEUE_WAIT_TIMEOUT_SEC.
QueueTimesOut(r) ==
    /\ At(r, "queueing")
    /\ turn' = Goes(r, "leaving")
    /\ UNCHANGED <<queue, keys, started, late, split, faults>>

TurnEnds(r) ==
    /\ At(r, "running")
    /\ turn' = [turn EXCEPT ![r].place = "leaving", ![r].ok = TRUE]
    /\ UNCHANGED <<queue, keys, started, late, split, faults>>

\* _await_turn_with_progress polls the events of the turn for a caller with a
\* progress sink.  When a poll or the sink raises, the caller leaves the slot and
\* neither cancels nor awaits the task of the turn, which goes on ...
ProgressRaises(r) ==
    /\ At(r, "running") /\ Fault
    /\ turn' = [turn EXCEPT ![r].place = "leaving", ![r].orphan = TRUE]
    /\ UNCHANGED <<queue, keys, started, late, split>>

\* ... until it ends, with nobody to take its result, or its process does.
OrphanEnds(r) ==
    /\ turn[r].orphan
    /\ turn' = [turn EXCEPT ![r].orphan = FALSE]
    /\ UNCHANGED <<queue, keys, started, late, split, faults>>

\* The turn or a database call raises, or the caller is cancelled and its turn
\* with it.
Raises(r) ==
    /\ Fault
    /\ \/ /\ turn[r].place \in {"queueing", "peeked", "first", "running"}
          /\ turn' = Goes(r, "leaving")
       \/ /\ At(r, "entering")
          /\ turn' = AfterTurn(r)
       \/ /\ At(r, "storing")
          /\ turn' = [turn EXCEPT ![r].place = "unclaiming", ![r].ok = FALSE]
       \/ /\ turn[r].place \in {"looking", "claiming", "waiting", "checking", "unclaiming"}
          /\ turn' = Goes(r, "failed")
    /\ UNCHANGED <<queue, keys, started, late, split>>

\* release deletes the row with the id and the owner token of the caller.
Own(r) == {r}

\* The end of open_turn_lease.
Leave(r) ==
    /\ At(r, "leaving")
    /\ status' = Without(Own(r))
    /\ stale' = stale \ Own(r)
    /\ turn' = AfterTurn(r)
    /\ UNCHANGED <<ids, keys, started, late, split, faults>>

\* The database stays locked: the marker is left behind.
LeaveLocked(r) ==
    /\ At(r, "leaving") /\ Fault
    /\ turn' = AfterTurn(r)
    /\ UNCHANGED <<queue, keys, started, late, split>>

----------------------------------------------------------------------------
(* The end of run_idempotent_chat_turn *)

\* Broken: a result that is stored already is neither kept nor returned.
StoreAlways(r) ==
    /\ stored' = [stored EXCEPT ![Key(r)] = r]
    /\ turn' = [turn EXCEPT ![r].place = "unclaiming", ![r].answer = r]

\* _store_or_reuse_result: the unique key admits one result.
StoreOrReuse(r) ==
    LET k == Key(r)
        kept == IF stored[k] = Nobody THEN r ELSE stored[k]
    IN  /\ stored' = [stored EXCEPT ![k] = kept]
        /\ turn' = [turn EXCEPT ![r].place = "unclaiming", ![r].answer = kept]

Store(r) ==
    /\ At(r, "storing")
    /\ StoreOrReuse(r)
    /\ UNCHANGED <<queue, claim, started, late, split, faults>>

\* Broken: the owner token is not compared.
ReleasesAny(r) == TRUE

\* release_claim deletes the claim with the owner token of the request.
Releases(r) == claim[Key(r)].owner = r

ReleaseClaim(r) ==
    /\ At(r, "unclaiming")
    /\ claim' = IF Releases(r)
                THEN [claim EXCEPT ![Key(r)] = [owner |-> Nobody, stale |-> FALSE]]
                ELSE claim
    /\ turn' = Goes(r, IF turn[r].ok THEN "answered" ELSE "failed")
    /\ UNCHANGED <<queue, stored, started, late, split, faults>>

----------------------------------------------------------------------------
(* Heartbeats, the clock and crashes *)

\* From its marker to the end of its turn, and from the start of
\* execute_turn to its result.
Queues(r) == turn[r].place \in {"queueing", "peeked", "first", "running", "leaving"}
Executes(r) == Queues(r) \/ turn[r].place \in {"entering", "storing", "unclaiming"}

Heartbeat(r) ==
    /\ Queues(r) /\ ~At(r, "leaving") /\ r \in stale
    /\ stale' = stale \ {r}
    /\ UNCHANGED <<turn, ids, status, keys, started, late, split, faults>>

ClaimHeartbeat(r) ==
    LET k == Key(r) IN
    /\ Executes(r) /\ ~At(r, "unclaiming") /\ k # NoKey
    /\ claim[k].owner = r /\ claim[k].stale
    /\ claim' = [claim EXCEPT ![k].stale = FALSE]
    /\ UNCHANGED <<turn, queue, stored, started, late, split, faults>>

\* A heartbeat that is late counts as a fault; who is gone sends none.
MarkerAges(r) ==
    /\ status[r] # "none" /\ r \notin stale
    /\ stale' = stale \cup {r}
    /\ IF Queues(r) THEN Fault /\ late' = late \cup {<<"marker", r>>}
                    ELSE UNCHANGED <<late, faults>>
    /\ UNCHANGED <<turn, ids, status, keys, started, split>>

ClaimAges(k) ==
    LET r == claim[k].owner IN
    /\ r # Nobody /\ ~claim[k].stale
    /\ claim' = [claim EXCEPT ![k].stale = TRUE]
    /\ IF Executes(r) THEN Fault /\ late' = late \cup {<<"claim", r>>}
                      ELSE UNCHANGED <<late, faults>>
    /\ UNCHANGED <<turn, queue, stored, started, split>>

Abandoned(k) == \A r \in Requests : claim[k].owner = r => ~Executes(r)

\* The process of the request is gone; its rows stay.
Dies(r) ==
    /\ Alive(r) /\ Fault
    /\ turn' = [turn EXCEPT ![r].place = "dead", ![r].orphan = FALSE]
    /\ UNCHANGED <<queue, keys, started, late, split>>

----------------------------------------------------------------------------
\* run_chat_turn with or without a client message id; a request arrives when it
\* takes its first step.
Call(k) == [place |-> IF k = NoKey THEN "entering" ELSE "looking",
            key |-> k, ok |-> FALSE, orphan |-> FALSE, answer |-> Nobody]

Init ==
    /\ \E key \in Calls : turn = [r \in Requests |-> Call(key[r])]
    /\ ids = <<>> /\ status = [r \in Requests |-> "none"] /\ stale = {}
    /\ claim = [k \in Keys |-> [owner |-> Nobody, stale |-> FALSE]]
    /\ stored = [k \in Keys |-> Nobody]
    /\ started = {} /\ late = {} /\ split = {} /\ faults = 0

Polls(r) == PeekRunning(r) \/ PeekFirst(r) \/ MarkRunning(r)

Proceeds(r) ==
    \/ Look(r) \/ TryClaim(r) \/ Wait(r) \/ CheckClaim(r) \/ Enqueue(r)
    \/ TurnEnds(r) \/ Leave(r) \/ Store(r) \/ ReleaseClaim(r)

Next ==
    \/ \E r \in Requests :
          \/ Proceeds(r) \/ Polls(r) \/ SweepPoll(r) \/ Sweep(r)
          \/ WaitTimesOut(r) \/ QueueTimesOut(r) \/ Raises(r) \/ LeaveLocked(r)
          \/ ProgressRaises(r) \/ OrphanEnds(r)
          \/ Heartbeat(r) \/ ClaimHeartbeat(r) \/ MarkerAges(r) \/ Dies(r)
    \/ \E k \in Keys : ClaimAges(k)

Spec == Init /\ [][Next]_vars

\* Callers go on, a poll sweeps now and again, a turn ends, a wait without a
\* marker comes to its deadline, and what nobody refreshes becomes stale.
Fairness ==
    /\ \A r \in Requests :
          /\ WF_vars(Proceeds(r)) /\ WF_vars(PeekFirst(r) \/ MarkRunning(r))
          /\ SF_vars(SweepPoll(r) \/ (status[r] = "none" /\ QueueTimesOut(r)))
          /\ WF_vars(~Queues(r) /\ MarkerAges(r))
    /\ \A k \in Keys : WF_vars(Abandoned(k) /\ ClaimAges(k))

FairSpec == Spec /\ Fairness

----------------------------------------------------------------------------
(* What must hold *)

\* A turn runs under its caller, or goes on after it.
Runs(r) == At(r, "running") \/ turn[r].orphan

\* The session has one active writer (SessionOrchestrator, "It provides one
\* active writer"): never do two turns run at once.
OneActiveWriter == \A r, s \in Requests : Runs(r) /\ Runs(s) => r = s

\* Two turns run at once only if the heartbeat of one came late, one took the
\* slot upon a read that was no longer true, or one goes on after the progress
\* stream of its caller failed: crashes, cancellations, failed turns, sweeps and
\* markers left behind never let a second turn in.
OverlapExplained == \A r, s \in Requests : (r # s /\ Runs(r) /\ Runs(s))
    => \E q \in {r, s} : <<"marker", q>> \in late \cup split \/ turn[q].orphan

\* Turns start in the order of their markers, although the update acts upon
\* what was read before (try_mark_running).
StartsInOrder == [][\A i, j \in DOMAIN ids :
    (i < j /\ status[ids[j]] = "queued" /\ status'[ids[j]] = "running")
        => status'[ids[i]] # "queued"]_vars

\* A request that ended, or gave its turn up, before the result was stored.
Unstored(r) ==
    /\ turn[r].answer = Nobody
    /\ \/ turn[r].place \in {"failed", "dead"}
       \/ turn[r].place \in {"leaving", "unclaiming"} /\ ~turn[r].ok

\* A key is executed a second time only if the first request ended, or gave its
\* turn up, before the result was stored, its heartbeat came late, or the claim
\* was taken upon a read that was no longer true (ChatTurnIdempotencyClaim, "Per-key execution
\* claim to serialize parallel idempotent turn requests").
ReplayExplained == \A r, s \in started :
    (r # s /\ Key(r) = Key(s) /\ Key(r) # NoKey)
        => \E q \in {r, s} : Unstored(q) \/ <<"claim", q>> \in late \cup split

\* Callers that use the same key are answered alike, however often the turn
\* was executed (_store_or_reuse_result, "Persist one deterministic result").
AnswersAgree == \A r, s \in Requests :
    (At(r, "answered") /\ At(s, "answered") /\ Key(r) = Key(s) /\ Key(r) # NoKey)
        => turn[r].answer = turn[s].answer /\ turn[r].answer # Nobody

\* Every request comes to an end: neither a claim nor a marker that its owner
\* left behind makes the others wait for ever.
RequestsEnd == \A r \in Requests : Alive(r) ~> ~Alive(r)
=============================================================================
