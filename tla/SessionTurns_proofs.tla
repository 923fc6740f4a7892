------------------------- MODULE SessionTurns_proofs ------------------------
(***************************************************************************)
(* Proofs about SessionTurns, for every number of requests, keys and       *)
(* faults: type correctness, why two turns may run at once, in which order *)
(* turns start, why a key is executed again, and that callers with one key *)
(* get one answer.                                                         *)
(***************************************************************************)
EXTENDS SessionTurns, SequenceTheorems, TLAPS

-----------------------------------------------------------------------------
(* How requests move *)

\* The request r goes to a place, the others stay where they are.
Moves(r, place, ok, answer) ==
    /\ turn' \in [Requests -> Turn]
    /\ turn'[r].place = place /\ turn'[r].key = turn[r].key
    /\ turn'[r].ok = ok /\ turn'[r].answer = answer
    /\ \A s \in Requests : s # r => turn'[s] = turn[s]

LEMMA GoesMoves ==
    ASSUME TypeOK, NEW r \in Requests, NEW p \in Places, turn' = Goes(r, p)
    PROVE  Moves(r, p, turn[r].ok, turn[r].answer)
<1>1. turn \in [Requests -> Turn]
  BY DEF TypeOK
<1> HIDE DEF Places
<1> QED
  BY <1>1 DEF Moves, Goes, Turn

LEMMA AnswerMoves ==
    ASSUME TypeOK, NEW r \in Requests, NEW p \in Places, NEW a \in Requests \cup {Nobody},
           turn' = [turn EXCEPT ![r].place = p, ![r].answer = a]
    PROVE  Moves(r, p, turn[r].ok, a)
<1>1. turn \in [Requests -> Turn]
  BY DEF TypeOK
<1> HIDE DEF Places
<1> QED
  BY <1>1 DEF Moves, Turn

LEMMA OkMoves ==
    ASSUME TypeOK, NEW r \in Requests, NEW p \in Places, NEW ok \in BOOLEAN,
           turn' = [turn EXCEPT ![r].place = p, ![r].ok = ok]
    PROVE  Moves(r, p, ok, turn[r].answer)
<1>1. turn \in [Requests -> Turn]
  BY DEF TypeOK
<1> HIDE DEF Places
<1> QED
  BY <1>1 DEF Moves, Turn

LEMMA OrphanMoves ==
    ASSUME TypeOK, NEW r \in Requests, NEW p \in Places, NEW orphan \in BOOLEAN,
           turn' = [turn EXCEPT ![r].place = p, ![r].orphan = orphan]
    PROVE  Moves(r, p, turn[r].ok, turn[r].answer)
<1>1. turn \in [Requests -> Turn]
  BY DEF TypeOK
<1> HIDE DEF Places
<1> QED
  BY <1>1 DEF Moves, Turn

\* What follows the turn, by the success of the turn and the key.
LEMMA AfterTurnMoves ==
    ASSUME TypeOK, NEW r \in Requests, turn' = AfterTurn(r)
    PROVE  \/ /\ Key(r) = NoKey
              /\ \E p \in {"answered", "failed"}, a \in {r, Nobody} : Moves(r, p, turn[r].ok, a)
           \/ Key(r) # NoKey /\ turn[r].ok /\ Moves(r, "storing", turn[r].ok, turn[r].answer)
           \/ Key(r) # NoKey /\ ~turn[r].ok /\ Moves(r, "unclaiming", turn[r].ok, turn[r].answer)
<1>0. {"answered", "failed", "storing", "unclaiming"} \subseteq Places
  BY DEF Places
<1>1. CASE Key(r) = NoKey
  <2>1. PICK p \in {"answered", "failed"}, a \in {r, Nobody} :
          turn' = [turn EXCEPT ![r].place = p, ![r].answer = a]
    BY <1>1 DEF AfterTurn
  <2> QED
    BY <1>0, <1>1, <2>1, AnswerMoves
<1>2. CASE Key(r) # NoKey /\ turn[r].ok
  <2>1. turn' = Goes(r, "storing")
    BY <1>2 DEF AfterTurn
  <2> QED
    BY <1>0, <1>2, <2>1, GoesMoves
<1>3. CASE Key(r) # NoKey /\ ~turn[r].ok
  <2>1. turn' = Goes(r, "unclaiming")
    BY <1>3 DEF AfterTurn
  <2> QED
    BY <1>0, <1>3, <2>1, GoesMoves
<1> QED
  BY <1>1, <1>2, <1>3

\* The moves of a request, action by action.
Enters(r) == TryClaim(r) /\ claim[Key(r)].owner = Nobody
             /\ Moves(r, "entering", turn[r].ok, turn[r].answer)
Reads(r) == /\ Look(r) \/ Wait(r)
            /\ stored[Key(r)] # Nobody /\ Moves(r, "answered", turn[r].ok, stored[Key(r)])
Circles(r) == /\ turn[r].place \in {"looking", "claiming", "waiting", "checking"}
              /\ \E p \in {"looking", "claiming", "waiting", "checking"} :
                    Moves(r, p, turn[r].ok, turn[r].answer)
              /\ UNCHANGED <<queue, stored, started, late, split>>
              /\ claim' = claim \/ CheckClaim(r)
Queued(r) == Enqueue(r) /\ Moves(r, "queueing", turn[r].ok, turn[r].answer)
Polled(r) == /\ turn[r].place \in {"queueing", "peeked", "first"}
             /\ \/ \E p \in {"peeked", "queueing"} : Moves(r, p, turn[r].ok, turn[r].answer)
                \/ /\ PeekFirst(r) /\ FirstInLine(r, status)
                   /\ Moves(r, "first", turn[r].ok, turn[r].answer)
             /\ UNCHANGED <<queue, keys, started, late, split>>
Starts(r) == /\ \/ MarkRunning(r) /\ status[r] = "queued"
                \/ SweepPoll(r) /\ NoneRunning(Without(Stale)) /\ FirstInLine(r, Without(Stale))
             /\ Moves(r, "running", turn[r].ok, turn[r].answer)
Finishes(r) == TurnEnds(r) /\ Moves(r, "leaving", TRUE, turn[r].answer)
GivesUp(r) == /\ turn[r].place \in {"queueing", "peeked", "first", "running"}
              /\ Moves(r, "leaving", turn[r].ok, turn[r].answer)
              /\ UNCHANGED <<queue, keys, started, late, split>>
Exits(r) == /\ turn[r].place \in {"leaving", "entering"}
            /\ \/ /\ Key(r) = NoKey
                  /\ \E p \in {"answered", "failed"}, a \in {r, Nobody} : Moves(r, p, turn[r].ok, a)
               \/ Key(r) # NoKey /\ turn[r].ok /\ Moves(r, "storing", turn[r].ok, turn[r].answer)
               \/ /\ Key(r) # NoKey /\ ~turn[r].ok
                  /\ Moves(r, "unclaiming", turn[r].ok, turn[r].answer)
            /\ UNCHANGED <<ids, keys, started, late, split>>
            /\ Leave(r) \/ UNCHANGED queue
Stores(r) == /\ Store(r)
             /\ Moves(r, "unclaiming", turn[r].ok, IF stored[Key(r)] = Nobody THEN r ELSE stored[Key(r)])
FailsToStore(r) == /\ At(r, "storing") /\ Moves(r, "unclaiming", FALSE, turn[r].answer)
                   /\ UNCHANGED <<queue, keys, started, late, split>>
Finally(r) == /\ ReleaseClaim(r)
              /\ Moves(r, IF turn[r].ok THEN "answered" ELSE "failed", turn[r].ok, turn[r].answer)
Stops(r) == /\ \E p \in {"failed", "dead"} : Moves(r, p, turn[r].ok, turn[r].answer)
            /\ Alive(r) /\ UNCHANGED <<queue, keys, started, late, split>>
Fades(r) == /\ Moves(r, turn[r].place, turn[r].ok, turn[r].answer)
            /\ UNCHANGED <<queue, keys, started, late, split>>
Still == turn' = turn

Move(r) ==
    \/ Enters(r) \/ Reads(r) \/ Circles(r) \/ Queued(r) \/ Polled(r) \/ Starts(r) \/ Finishes(r)
    \/ GivesUp(r) \/ Exits(r) \/ Stores(r) \/ FailsToStore(r) \/ Finally(r) \/ Stops(r)
    \/ Fades(r)

\* Only requests with a key pass the claim, and a request enters the queue once.
Keyed == \A r \in Requests :
    turn[r].place \in {"looking", "claiming", "waiting", "checking", "storing", "unclaiming"}
        => turn[r].key \in Keys
Before == {"looking", "claiming", "waiting", "checking", "entering"}
EntersOnce == \A r \in Requests :
    turn[r].place \in Before => /\ status[r] = "none" /\ r \notin started
                               /\ \A i \in DOMAIN ids : ids[i] # r

Types == TypeOK /\ Keyed /\ EntersOnce

LEMMA StepMoves ==
    ASSUME Types, [Next]_vars
    PROVE  Still \/ \E r \in Requests : Move(r)
<1>0. TypeOK /\ Keyed
  BY DEF Types
<1>1. ASSUME NEW r \in Requests, NEW p \in Places, turn' = Goes(r, p)
      PROVE  Moves(r, p, turn[r].ok, turn[r].answer)
  BY <1>0, <1>1, GoesMoves
<1>p. {"looking", "claiming", "waiting", "checking", "entering", "queueing", "peeked", "first",
       "running", "leaving", "storing", "unclaiming", "answered", "failed", "dead"} \subseteq Places
  BY DEF Places
<1> HIDE DEF Places
<1>2. ASSUME NEW r \in Requests, Look(r) \/ Wait(r) PROVE Move(r)
  <2>1. CASE stored[Key(r)] = Nobody
    <3>1. \E p \in {"claiming", "checking"} : turn' = Goes(r, p)
      BY <1>2, <2>1 DEF Look, Wait
    <3>2. Circles(r)
      BY <1>1, <1>2, <1>p, <3>1 DEF Circles, Look, Wait, At, keys
    <3> QED
      BY <3>2 DEF Move
  <2>2. CASE stored[Key(r)] # Nobody
    <3> DEFINE a == stored[Key(r)]
    <3>1. turn' = [turn EXCEPT ![r].place = "answered", ![r].answer = a]
      BY <1>2, <2>2 DEF Look, Wait
    <3>2. a \in Requests \cup {Nobody}
      BY <1>0, <1>2 DEF Look, Wait, At, Keyed, TypeOK, Key
    <3> HIDE DEF a
    <3>3. Moves(r, "answered", turn[r].ok, a)
      BY <1>0, <1>p, <3>1, <3>2, AnswerMoves
    <3> QED
      BY <1>2, <2>2, <3>3 DEF Move, Reads, a
  <2> QED
    BY <2>1, <2>2
<1>3. ASSUME NEW r \in Requests, TryClaim(r) PROVE Move(r)
  <2>1. CASE claim[Key(r)].owner = Nobody
    <3>1. Enters(r)
      BY <1>1, <1>3, <1>p, <2>1 DEF Enters, TryClaim
    <3> QED
      BY <3>1 DEF Move
  <2>2. CASE claim[Key(r)].owner # Nobody
    <3>1. Circles(r)
      BY <1>1, <1>3, <1>p, <2>2 DEF Circles, TryClaim, At, keys
    <3> QED
      BY <3>1 DEF Move
  <2> QED
    BY <2>1, <2>2
<1>4. ASSUME NEW r \in Requests, CheckClaim(r) PROVE Move(r)
  <2>1. \E p \in {"looking", "waiting"} : turn' = Goes(r, p)
    BY <1>4 DEF CheckClaim
  <2>2. Circles(r)
    BY <1>1, <1>4, <1>p, <2>1 DEF Circles, CheckClaim, At, keys
  <2> QED
    BY <2>2 DEF Move
<1>5. ASSUME NEW r \in Requests, WaitTimesOut(r) \/ Dies(r) PROVE Move(r)
  <2>1. CASE WaitTimesOut(r)
    BY <1>1, <1>p, <2>1 DEF Move, Stops, WaitTimesOut, Alive, At
  <2>2. CASE Dies(r)
    <3>1. Moves(r, "dead", turn[r].ok, turn[r].answer)
      BY <1>0, <1>p, <2>2, OrphanMoves DEF Dies
    <3> QED
      BY <2>2, <3>1 DEF Move, Stops, Dies
  <2> QED
    BY <1>5, <2>1, <2>2
<1>6. ASSUME NEW r \in Requests, Enqueue(r) PROVE Move(r)
  BY <1>1, <1>6, <1>p DEF Move, Queued, Enqueue
<1>7. ASSUME NEW r \in Requests, PeekRunning(r) \/ PeekFirst(r) PROVE Move(r)
  <2>1. Polled(r)
    BY <1>1, <1>7, <1>p DEF Polled, PeekRunning, PeekFirst, At
  <2> QED
    BY <2>1 DEF Move
<1>8. ASSUME NEW r \in Requests, MarkRunning(r) PROVE Move(r)
  <2>1. CASE status[r] = "queued"
    BY <1>1, <1>8, <1>p, <2>1 DEF Move, Starts, MarkRunning
  <2>2. CASE status[r] # "queued"
    <3>1. Polled(r)
      BY <1>1, <1>8, <1>p, <2>2 DEF Polled, MarkRunning, At, queue
    <3> QED
      BY <3>1 DEF Move
  <2> QED
    BY <2>1, <2>2
<1>9. ASSUME NEW r \in Requests, SweepPoll(r) PROVE Still \/ Move(r)
  <2>1. CASE NoneRunning(Without(Stale)) /\ FirstInLine(r, Without(Stale))
    <3>1. turn' = Goes(r, "running")
      BY <1>9, <2>1 DEF SweepPoll
    <3> QED
      BY <1>1, <1>9, <1>p, <2>1, <3>1 DEF Move, Starts
  <2>2. CASE ~(NoneRunning(Without(Stale)) /\ FirstInLine(r, Without(Stale)))
    BY <1>9, <2>2 DEF SweepPoll, Still
  <2> QED
    BY <2>1, <2>2
<1>10. ASSUME NEW r \in Requests, QueueTimesOut(r) PROVE Move(r)
  BY <1>1, <1>10, <1>p DEF Move, GivesUp, QueueTimesOut, At
<1>11. ASSUME NEW r \in Requests, TurnEnds(r) PROVE Move(r)
  <2>1. turn' = [turn EXCEPT ![r].place = "leaving", ![r].ok = TRUE]
    BY <1>11 DEF TurnEnds
  <2>2. Moves(r, "leaving", TRUE, turn[r].answer)
    BY <1>0, <1>p, <2>1, OkMoves
  <2> QED
    BY <1>11, <2>2 DEF Move, Finishes
<1>12. ASSUME NEW r \in Requests, Leave(r) \/ LeaveLocked(r) PROVE Move(r)
  <2>1. turn' = AfterTurn(r) /\ At(r, "leaving")
    BY <1>12 DEF Leave, LeaveLocked
  <2>2. UNCHANGED <<ids, keys, started, late, split>> /\ (Leave(r) \/ UNCHANGED queue)
    BY <1>12 DEF Leave, LeaveLocked, queue
  <2> QED
    BY <1>0, <2>1, <2>2, AfterTurnMoves DEF Move, Exits, At
<1>13. ASSUME NEW r \in Requests, Raises(r) PROVE Move(r)
  <2>0. UNCHANGED <<queue, keys, started, late, split>>
    BY <1>13 DEF Raises
  <2>1. CASE turn[r].place \in {"queueing", "peeked", "first", "running"} /\ turn' = Goes(r, "leaving")
    BY <1>1, <1>p, <2>0, <2>1 DEF Move, GivesUp
  <2>2. CASE At(r, "entering") /\ turn' = AfterTurn(r)
    BY <1>0, <2>0, <2>2, AfterTurnMoves DEF Move, Exits, At, queue
  <2>3. CASE /\ At(r, "storing")
             /\ turn' = [turn EXCEPT ![r].place = "unclaiming", ![r].ok = FALSE]
    <3>1. Moves(r, "unclaiming", FALSE, turn[r].answer)
      BY <1>0, <1>p, <2>3, OkMoves
    <3> QED
      BY <2>0, <2>3, <3>1 DEF Move, FailsToStore
  <2>4. CASE /\ turn[r].place \in {"looking", "claiming", "waiting", "checking", "unclaiming"}
             /\ turn' = Goes(r, "failed")
    BY <1>1, <1>p, <2>0, <2>4 DEF Move, Stops, Alive
  <2> QED
    BY <1>13, <2>1, <2>2, <2>3, <2>4 DEF Raises
<1>o. ASSUME NEW r \in Requests, ProgressRaises(r) \/ OrphanEnds(r) PROVE Move(r)
  <2>1. CASE ProgressRaises(r)
    <3>1. Moves(r, "leaving", turn[r].ok, turn[r].answer)
      BY <1>0, <1>p, <2>1, OrphanMoves DEF ProgressRaises
    <3> QED
      BY <2>1, <3>1 DEF Move, GivesUp, ProgressRaises, At
  <2>2. CASE OrphanEnds(r)
    <3>1. turn' = [turn EXCEPT ![r].orphan = FALSE] /\ turn \in [Requests -> Turn]
      BY <1>0, <2>2 DEF OrphanEnds, TypeOK
    <3>2. Moves(r, turn[r].place, turn[r].ok, turn[r].answer)
      BY <3>1 DEF Moves, Turn
    <3> QED
      BY <2>2, <3>2 DEF Move, Fades, OrphanEnds
  <2> QED
    BY <1>o, <2>1, <2>2
<1>14. ASSUME NEW r \in Requests, Store(r) PROVE Move(r)
  <2> DEFINE a == IF stored[Key(r)] = Nobody THEN r ELSE stored[Key(r)]
  <2>1. turn' = [turn EXCEPT ![r].place = "unclaiming", ![r].answer = a]
    BY <1>14 DEF Store, StoreOrReuse
  <2>2. a \in Requests \cup {Nobody}
    BY <1>0, <1>14 DEF Store, At, Keyed, TypeOK, Key
  <2> HIDE DEF a
  <2>3. Moves(r, "unclaiming", turn[r].ok, a)
    BY <1>0, <1>p, <2>1, <2>2, AnswerMoves
  <2> QED
    BY <1>14, <2>3 DEF Move, Stores, a
<1>15. ASSUME NEW r \in Requests, ReleaseClaim(r) PROVE Move(r)
  <2>1. turn' = Goes(r, IF turn[r].ok THEN "answered" ELSE "failed")
    BY <1>15 DEF ReleaseClaim
  <2> QED
    BY <1>1, <1>15, <1>p, <2>1 DEF Move, Finally
<1>16. ASSUME NEW r \in Requests, Heartbeat(r) \/ ClaimHeartbeat(r) \/ MarkerAges(r) \/ Sweep(r)
      PROVE  Still
  BY <1>16 DEF Sweep, Heartbeat, ClaimHeartbeat, MarkerAges, Still
<1>17. ASSUME NEW k \in Keys, ClaimAges(k) PROVE Still
  BY <1>17 DEF ClaimAges, Still
<1>18. CASE UNCHANGED vars
  BY <1>18 DEF vars, Still
<1> QED
  BY <1>2, <1>3, <1>4, <1>5, <1>6, <1>7, <1>8, <1>9, <1>10, <1>11, <1>12, <1>13, <1>o, <1>14, <1>15,
     <1>16, <1>17, <1>18 DEF Next, Proceeds, Polls

-----------------------------------------------------------------------------
(* The tables, step by step *)

\* A marker is inserted, set to running by its owner, deleted when it is stale,
\* or released by its owner.
LEMMA StatusStep ==
    ASSUME Types, [Next]_vars
    PROVE  /\ status' \in [Requests -> {"none", "queued", "running"}]
           /\ \A r \in Requests :
                \/ status'[r] = status[r]
                \/ Enqueue(r) /\ status'[r] = "queued"
                \/ Starts(r) /\ status'[r] = "running"
                \/ status'[r] = "none" /\ (r \in stale \/ Leave(r))
<1> DEFINE Changes == /\ status' \in [Requests -> {"none", "queued", "running"}]
                      /\ \A r \in Requests :
                            \/ status'[r] = status[r]
                            \/ Enqueue(r) /\ status'[r] = "queued"
                            \/ Starts(r) /\ status'[r] = "running"
                            \/ status'[r] = "none" /\ (r \in stale \/ Leave(r))
<1>0. TypeOK /\ status \in [Requests -> {"none", "queued", "running"}]
  BY DEF Types, TypeOK
<1>p. "running" \in Places
  BY DEF Places
<1>1. ASSUME NEW r \in Requests, Enqueue(r) PROVE Changes
  BY <1>0, <1>1 DEF Enqueue
<1>2. ASSUME NEW r \in Requests, MarkRunning(r) PROVE Changes
  <2>1. CASE status[r] = "queued"
    <3>1. Starts(r)
      BY <1>0, <1>2, <1>p, <2>1, GoesMoves DEF Starts, MarkRunning
    <3> QED
      BY <1>0, <1>2, <2>1, <3>1 DEF MarkRunning
  <2>2. CASE status[r] # "queued"
    BY <1>0, <1>2, <2>2 DEF MarkRunning
  <2> QED
    BY <2>1, <2>2
<1>3. ASSUME NEW r \in Requests, SweepPoll(r) PROVE Changes
  <2> DEFINE left == Without(Stale)
  <2>1. /\ left \in [Requests -> {"none", "queued", "running"}]
        /\ \A s \in Requests : left[s] = status[s] \/ (left[s] = "none" /\ s \in stale)
    BY <1>0 DEF Without, Stale
  <2>2. CASE NoneRunning(left) /\ FirstInLine(r, left)
    <3>1. status' = [left EXCEPT ![r] = "running"] /\ turn' = Goes(r, "running")
      BY <1>3, <2>2 DEF SweepPoll
    <3>2. Starts(r)
      BY <1>0, <1>3, <1>p, <2>2, <3>1, GoesMoves DEF Starts
    <3> HIDE DEF left
    <3> QED
      BY <2>1, <3>1, <3>2
  <2>3. CASE ~(NoneRunning(left) /\ FirstInLine(r, left))
    <3>1. status' = left
      BY <1>3, <2>3 DEF SweepPoll
    <3> HIDE DEF left
    <3> QED
      BY <2>1, <3>1
  <2> QED
    BY <2>2, <2>3
<1>4. ASSUME NEW r \in Requests, Leave(r) PROVE Changes
  BY <1>0, <1>4 DEF Leave, Without, Own
<1>s. ASSUME NEW r \in Requests, Sweep(r) PROVE Changes
  BY <1>0, <1>s DEF Sweep, Without, Stale
<1>5. ASSUME status' = status PROVE Changes
  BY <1>0, <1>5
<1> HIDE DEF Changes
<1>6. Changes
  BY <1>1, <1>2, <1>3, <1>4, <1>s, <1>5
     DEF Next, Proceeds, Polls, Look, TryClaim, Wait, CheckClaim, TurnEnds, Store, ReleaseClaim,
         PeekRunning, PeekFirst, WaitTimesOut, QueueTimesOut, Raises, ProgressRaises, OrphanEnds,
         LeaveLocked, Heartbeat,
         ClaimHeartbeat, MarkerAges, Dies, ClaimAges, vars, queue
<1> QED
  BY <1>6 DEF Changes

\* Markers are appended, one for each request.
LEMMA IdsStep ==
    ASSUME Types, [Next]_vars
    PROVE  \/ ids' = ids
           \/ \E r \in Requests : /\ Enqueue(r) /\ ids' = Append(ids, r)
                                  /\ \A i \in DOMAIN ids : ids[i] # r
<1>1. ids' = ids \/ \E r \in Requests : Enqueue(r)
  BY DEF Next, Proceeds, Polls, Look, TryClaim, Wait, CheckClaim, TurnEnds, Store, ReleaseClaim,
         PeekRunning, PeekFirst, MarkRunning, SweepPoll, Sweep, WaitTimesOut, QueueTimesOut,
         Raises, ProgressRaises, OrphanEnds,
         Leave, LeaveLocked, Heartbeat, ClaimHeartbeat, MarkerAges, Dies, ClaimAges, vars, queue
<1> QED
  BY <1>1 DEF Enqueue, Types, EntersOnce, Before, At

LEMMA IdsNext ==
    ASSUME Types, [Next]_vars
    PROVE  /\ ids' \in Seq(Requests)
           /\ \A i, j \in DOMAIN ids' : ids'[i] = ids'[j] => i = j
           /\ \A i \in DOMAIN ids : i \in DOMAIN ids' /\ ids'[i] = ids[i]
           /\ \A i \in DOMAIN ids' : i \in DOMAIN ids \/ Enqueue(ids'[i])
<1>0. /\ ids \in Seq(Requests) /\ \A i, j \in DOMAIN ids : ids[i] = ids[j] => i = j
      /\ DOMAIN ids = 1..Len(ids) /\ Len(ids) \in Nat
  BY LenProperties DEF Types, TypeOK
<1>1. CASE ids' = ids
  BY <1>0, <1>1
<1>2. ASSUME NEW r \in Requests, Enqueue(r), ids' = Append(ids, r), \A i \in DOMAIN ids : ids[i] # r
      PROVE  /\ ids' \in Seq(Requests)
             /\ \A i, j \in DOMAIN ids' : ids'[i] = ids'[j] => i = j
             /\ \A i \in DOMAIN ids : i \in DOMAIN ids' /\ ids'[i] = ids[i]
             /\ \A i \in DOMAIN ids' : i \in DOMAIN ids \/ Enqueue(ids'[i])
  <2>1. /\ ids' \in Seq(Requests) /\ DOMAIN ids' = 1..(Len(ids) + 1)
        /\ \A i \in 1..Len(ids) : ids'[i] = ids[i]
        /\ ids'[Len(ids) + 1] = r
    BY <1>0, <1>2, AppendProperties, LenProperties
  <2>2. \A i \in DOMAIN ids' : i \in 1..Len(ids) \/ i = Len(ids) + 1
    BY <1>0, <2>1
  <2>3. \A i \in 1..Len(ids) : i \in DOMAIN ids'
    BY <1>0, <2>1
  <2> QED
    BY <1>0, <1>2, <2>1, <2>2, <2>3
<1> QED
  BY <1>1, <1>2, IdsStep

\* A claim is inserted, deleted by its owner or when it is stale, or it ages.
ClaimChange(k) ==
    \/ claim'[k].owner = claim[k].owner
    \/ /\ claim[k].owner = Nobody
       /\ \E r \in Requests : TryClaim(r) /\ Key(r) = k /\ claim'[k].owner = r
    \/ /\ claim'[k].owner = Nobody
       /\ claim[k].stale \/ \E r \in Requests : ReleaseClaim(r) /\ claim[k].owner = r

LEMMA ClaimStep ==
    ASSUME Types, [Next]_vars
    PROVE  claim' \in [Keys -> Claim] /\ \A k \in Keys : ClaimChange(k)
<1> DEFINE Changes == claim' \in [Keys -> Claim] /\ \A k \in Keys : ClaimChange(k)
<1>0. claim \in [Keys -> Claim] /\ Keyed
  BY DEF Types, TypeOK
<1>1. ASSUME NEW r \in Requests, TryClaim(r) PROVE Changes
  <2>1. PICK k \in Keys : k = Key(r)
    BY <1>0, <1>1 DEF TryClaim, Keyed, At, Key
  <2>2. CASE claim[k].owner = Nobody
    <3>1. claim' = [claim EXCEPT ![k] = [owner |-> r, stale |-> FALSE]]
      BY <1>1, <2>1, <2>2 DEF TryClaim
    <3>2. claim' \in [Keys -> Claim] /\ claim'[k].owner = r
          /\ \A j \in Keys : j # k => claim'[j] = claim[j]
      BY <1>0, <3>1 DEF Claim
    <3> QED
      BY <1>1, <2>1, <2>2, <3>2 DEF ClaimChange
  <2>3. CASE claim[k].owner # Nobody
    BY <1>0, <1>1, <2>1, <2>3 DEF TryClaim, ClaimChange
  <2> QED
    BY <2>2, <2>3
<1>2. ASSUME NEW r \in Requests, CheckClaim(r) PROVE Changes
  <2>1. PICK k \in Keys : k = Key(r)
    BY <1>0, <1>2 DEF CheckClaim, Keyed, At, Key
  <2>2. CASE claim[k].stale \/ claim[k].owner = Nobody
    <3>1. claim' = [claim EXCEPT ![k] = [owner |-> Nobody, stale |-> FALSE]]
      BY <1>2, <2>1, <2>2 DEF CheckClaim
    <3>2. claim' \in [Keys -> Claim] /\ claim'[k].owner = Nobody
          /\ \A j \in Keys : j # k => claim'[j] = claim[j]
      BY <1>0, <3>1 DEF Claim
    <3> QED
      BY <2>2, <3>2 DEF ClaimChange
  <2>3. CASE ~(claim[k].stale \/ claim[k].owner = Nobody)
    BY <1>0, <1>2, <2>1, <2>3 DEF CheckClaim, ClaimChange
  <2> QED
    BY <2>2, <2>3
<1>3. ASSUME NEW r \in Requests, ReleaseClaim(r) PROVE Changes
  BY <1>0, <1>3 DEF ClaimChange, ReleaseClaim, Releases, Claim, Keyed, At, Key
<1>4. ASSUME NEW r \in Requests, ClaimHeartbeat(r) PROVE Changes
  BY <1>0, <1>4 DEF ClaimChange, ClaimHeartbeat, Claim
<1>5. ASSUME NEW k \in Keys, ClaimAges(k) PROVE Changes
  BY <1>0, <1>5 DEF ClaimChange, ClaimAges, Claim
<1>6. ASSUME claim' = claim PROVE Changes
  BY <1>0, <1>6 DEF ClaimChange
<1> HIDE DEF Changes
<1>7. Changes
  BY <1>1, <1>2, <1>3, <1>4, <1>5, <1>6
     DEF Next, Proceeds, Polls, Look, Wait, Enqueue, TurnEnds, Leave, Store, PeekRunning,
         PeekFirst, MarkRunning, SweepPoll, Sweep, WaitTimesOut, QueueTimesOut, Raises,
         ProgressRaises, OrphanEnds, LeaveLocked,
         Heartbeat, MarkerAges, Dies, vars, keys
<1> QED
  BY <1>7 DEF Changes

\* A stored result stays.
LEMMA StoredStep ==
    ASSUME Types, [Next]_vars
    PROVE  /\ stored' \in [Keys -> Requests \cup {Nobody}]
           /\ \A k \in Keys : stored[k] # Nobody => stored'[k] = stored[k]
<1>0. stored \in [Keys -> Requests \cup {Nobody}] /\ Keyed
  BY DEF Types, TypeOK
<1>1. ASSUME NEW r \in Requests, Store(r)
      PROVE  /\ stored' \in [Keys -> Requests \cup {Nobody}]
             /\ \A k \in Keys : stored[k] # Nobody => stored'[k] = stored[k]
  BY <1>0, <1>1 DEF Store, StoreOrReuse, Keyed, At, Key
<1>2. stored' = stored \/ \E r \in Requests : Store(r)
  BY DEF Next, Proceeds, Polls, Look, TryClaim, Wait, CheckClaim, Enqueue, TurnEnds, ReleaseClaim,
         PeekRunning, PeekFirst, MarkRunning, SweepPoll, Sweep, WaitTimesOut, QueueTimesOut,
         Raises, ProgressRaises, OrphanEnds,
         Leave, LeaveLocked, Heartbeat, ClaimHeartbeat, MarkerAges, Dies, ClaimAges, vars, keys
<1> QED
  BY <1>0, <1>1, <1>2

\* The histories: a start, an overlap and a late heartbeat are recorded.
LEMMA HistoryStep ==
    ASSUME Types, [Next]_vars
    PROVE  /\ started' \subseteq Requests /\ late' \subseteq Lease /\ split' \subseteq Lease
           /\ faults' \in 0..MaxFaults
           /\ started \subseteq started' /\ late \subseteq late' /\ split \subseteq split'
           /\ \A r \in started' : r \in started \/ Starts(r)
<1>0. /\ TypeOK /\ started \subseteq Requests /\ late \subseteq Lease /\ split \subseteq Lease
      /\ faults \in 0..MaxFaults /\ MaxFaults \in Nat
  BY SessionAssumption DEF Types, TypeOK
<1>p. "running" \in Places
  BY DEF Places
<1>1. started' = started \/ \E r \in Requests : started' = started \cup {r} /\ Starts(r)
  <2>1. ASSUME NEW r \in Requests, MarkRunning(r)
        PROVE  started' = started \/ (started' = started \cup {r} /\ Starts(r))
    BY <1>0, <1>p, <2>1, GoesMoves DEF MarkRunning, Starts
  <2>2. ASSUME NEW r \in Requests, SweepPoll(r)
        PROVE  started' = started \/ (started' = started \cup {r} /\ Starts(r))
    BY <1>0, <1>p, <2>2, GoesMoves DEF SweepPoll, Starts
  <2> QED
    BY <2>1, <2>2 DEF Next, Proceeds, Polls, Look, TryClaim, Wait, CheckClaim, Enqueue, TurnEnds,
       Store, ReleaseClaim, PeekRunning, PeekFirst, Sweep, WaitTimesOut, QueueTimesOut, Raises,
       ProgressRaises, OrphanEnds, Leave,
       LeaveLocked, Heartbeat, ClaimHeartbeat, MarkerAges, Dies, ClaimAges, vars
<1>2. late' = late \/ \E l \in Lease : late' = late \cup {l}
  <2>1. ASSUME NEW r \in Requests, MarkerAges(r) PROVE late' = late \/ \E l \in Lease : late' = late \cup {l}
    <3>1. <<"marker", r>> \in Lease
      BY DEF Lease
    <3> QED
      BY <2>1, <3>1 DEF MarkerAges
  <2>2. ASSUME NEW k \in Keys, ClaimAges(k) PROVE late' = late \/ \E l \in Lease : late' = late \cup {l}
    <3>1. <<"claim", claim[k].owner>> \in Lease
      BY <1>0, <2>2 DEF ClaimAges, Lease, TypeOK, Claim
    <3> QED
      BY <2>2, <3>1 DEF ClaimAges
  <2> QED
    BY <2>1, <2>2 DEF Next, Proceeds, Polls, Look, TryClaim, Wait, CheckClaim, Enqueue, TurnEnds,
       Store, ReleaseClaim, PeekRunning, PeekFirst, MarkRunning, SweepPoll, Sweep, WaitTimesOut,
       QueueTimesOut, Raises, ProgressRaises, OrphanEnds, Leave, LeaveLocked, Heartbeat,
       ClaimHeartbeat, Dies, vars
<1>3. split' = split \/ \E l \in Lease : split' = split \cup {l}
  <2>1. ASSUME NEW r \in Requests, MarkRunning(r) PROVE split' = split \/ \E l \in Lease : split' = split \cup {l}
    <3>1. <<"marker", r>> \in Lease
      BY DEF Lease
    <3> QED
      BY <2>1, <3>1 DEF MarkRunning
  <2>2. ASSUME NEW r \in Requests, TryClaim(r) PROVE split' = split \/ \E l \in Lease : split' = split \cup {l}
    <3>1. <<"claim", r>> \in Lease
      BY DEF Lease
    <3> QED
      BY <2>2, <3>1 DEF TryClaim
  <2> QED
    BY <2>1, <2>2 DEF Next, Proceeds, Polls, Look, Wait, CheckClaim, Enqueue, TurnEnds,
       Store, ReleaseClaim, PeekRunning, PeekFirst, SweepPoll, Sweep, WaitTimesOut, QueueTimesOut,
       Raises, ProgressRaises, OrphanEnds, Leave, LeaveLocked, Heartbeat, ClaimHeartbeat,
       MarkerAges, Dies, ClaimAges, vars
<1>4. faults' = faults \/ Fault
  BY DEF Next, Proceeds, Polls, Look, TryClaim, Wait, CheckClaim, Enqueue, TurnEnds, Store,
     ReleaseClaim, PeekRunning, PeekFirst, MarkRunning, SweepPoll, Sweep, WaitTimesOut, QueueTimesOut,
     Raises, ProgressRaises, OrphanEnds, Leave, LeaveLocked, Heartbeat, ClaimHeartbeat,
     MarkerAges, Dies, ClaimAges, vars
<1>5. faults' \in 0..MaxFaults
  BY <1>0, <1>4 DEF Fault
<1>6. late' \subseteq Lease /\ split' \subseteq Lease /\ started' \subseteq Requests
  BY <1>0, <1>1, <1>2, <1>3
<1> QED
  BY <1>1, <1>2, <1>3, <1>5, <1>6

\* A marker is stale only while it is in the table; one that becomes stale under
\* a live request is recorded.
LEMMA StaleStep ==
    ASSUME Types, [Next]_vars
    PROVE  /\ stale' \subseteq {r \in Requests : status'[r] # "none"}
           /\ \A r \in stale' : r \in stale \/ ~Queues(r) \/ <<"marker", r>> \in late'
<1> DEFINE Goal == /\ stale' \subseteq {r \in Requests : status'[r] # "none"}
                   /\ \A r \in stale' : r \in stale \/ ~Queues(r) \/ <<"marker", r>> \in late'
<1>0. /\ status \in [Requests -> {"none", "queued", "running"}]
      /\ stale \subseteq {r \in Requests : status[r] # "none"}
  BY DEF Types, TypeOK
<1>1. ASSUME NEW r \in Requests, Enqueue(r) PROVE Goal
  BY <1>0, <1>1 DEF Enqueue
<1>2. ASSUME NEW r \in Requests, MarkRunning(r) PROVE Goal
  BY <1>0, <1>2 DEF MarkRunning
<1>3. ASSUME NEW r \in Requests, SweepPoll(r) PROVE Goal
  <2>1. stale' = {}
    BY <1>3 DEF SweepPoll, Stale
  <2> QED
    BY <2>1
<1>s. ASSUME NEW r \in Requests, Sweep(r) PROVE Goal
  <2>1. stale' = {}
    BY <1>s DEF Sweep, Stale
  <2> QED
    BY <2>1
<1>4. ASSUME NEW r \in Requests, Leave(r) PROVE Goal
  BY <1>0, <1>4 DEF Leave, Without, Own
<1>5. ASSUME NEW r \in Requests, Heartbeat(r) PROVE Goal
  BY <1>0, <1>5 DEF Heartbeat
<1>6. ASSUME NEW r \in Requests, MarkerAges(r) PROVE Goal
  BY <1>0, <1>6 DEF MarkerAges
<1>7. ASSUME UNCHANGED <<stale, status>> PROVE Goal
  BY <1>0, <1>7
<1> HIDE DEF Goal
<1>8. Goal
  BY <1>1, <1>2, <1>3, <1>s, <1>4, <1>5, <1>6, <1>7
     DEF Next, Proceeds, Polls, Look, TryClaim, Wait, CheckClaim, TurnEnds, Store, ReleaseClaim,
         PeekRunning, PeekFirst, WaitTimesOut, QueueTimesOut, Raises, ProgressRaises, OrphanEnds,
         LeaveLocked, ClaimHeartbeat,
         Dies, ClaimAges, vars, queue
<1> QED
  BY <1>8 DEF Goal

-----------------------------------------------------------------------------
(* Type correctness *)

LEMMA TypeInit == Init => Types
<1> SUFFICES ASSUME Init PROVE Types
  OBVIOUS
<1>1. PICK key \in Calls : turn = [r \in Requests |-> Call(key[r])]
  BY DEF Init
<1>2. key \in [Requests -> Keys \cup {NoKey}] /\ MaxFaults \in Nat /\ NoKey \notin Keys
  BY SessionAssumption
<1>3. \A r \in Requests : /\ turn[r] \in Turn /\ turn[r].key = key[r]
                          /\ turn[r].place = IF key[r] = NoKey THEN "entering" ELSE "looking"
  BY <1>1, <1>2 DEF Call, Turn, Places
<1>4. turn \in [Requests -> Turn]
  BY <1>1, <1>3
<1>5. ids \in Seq(Requests) /\ DOMAIN ids = {}
  BY DEF Init
<1>6. Keyed
  BY <1>2, <1>3 DEF Keyed
<1>7. EntersOnce
  BY <1>5 DEF Init, EntersOnce
<1>8. /\ status \in [Requests -> {"none", "queued", "running"}] /\ stale = {}
      /\ claim \in [Keys -> Claim] /\ stored \in [Keys -> Requests \cup {Nobody}]
      /\ started = {} /\ late = {} /\ split = {} /\ faults \in 0..MaxFaults
  BY <1>2 DEF Init, Claim
<1> QED
  BY <1>4, <1>5, <1>6, <1>7, <1>8 DEF Types, TypeOK

LEMMA KeyedNext ==
    ASSUME Types, [Next]_vars
    PROVE  /\ turn' \in [Requests -> Turn] /\ Keyed'
           /\ \A r \in Requests : turn'[r].key = turn[r].key
<1>0. turn \in [Requests -> Turn] /\ Keyed
  BY DEF Types, TypeOK
<1>1. CASE Still
  BY <1>0, <1>1 DEF Still, Keyed
<1>2. ASSUME NEW r \in Requests, Move(r)
      PROVE  /\ turn' \in [Requests -> Turn] /\ Keyed'
             /\ \A s \in Requests : turn'[s].key = turn[s].key
  <2>1. /\ turn' \in [Requests -> Turn] /\ turn'[r].key = turn[r].key
        /\ \A s \in Requests : s # r => turn'[s] = turn[s]
    BY <1>2 DEF Move, Enters, Reads, Circles, Queued, Polled, Starts, Finishes, GivesUp, Exits,
       Stores, FailsToStore, Finally, Stops, Fades, Moves
  <2>2. turn'[r].place \in {"looking", "claiming", "waiting", "checking", "storing", "unclaiming"}
          => turn[r].key \in Keys
    <3>1. CASE Circles(r) \/ FailsToStore(r) \/ Stores(r)
      BY <1>0, <3>1 DEF Circles, FailsToStore, Stores, Store, Keyed, At
    <3>2. CASE Exits(r)
      BY <1>0, <3>2 DEF Exits, Moves, Key, Turn
    <3>f. CASE Fades(r)
      BY <1>0, <3>f DEF Fades, Moves, Keyed
    <3>3. CASE ~(Circles(r) \/ FailsToStore(r) \/ Stores(r) \/ Exits(r) \/ Fades(r))
      BY <1>2, <3>3 DEF Move, Enters, Reads, Queued, Polled, Starts, Finishes, GivesUp, Finally,
         Stops, Fades, Moves
    <3> QED
      BY <3>1, <3>2, <3>3, <3>f
  <2> QED
    BY <1>0, <2>1, <2>2 DEF Keyed
<1> QED
  BY <1>0, <1>1, <1>2, StepMoves

\* Nobody comes back before the queue.
LEMMA BeforeStep ==
    ASSUME Types, [Next]_vars, NEW r \in Requests, turn'[r].place \in Before
    PROVE  turn[r].place \in Before /\ ~Enqueue(r) /\ ~Starts(r) /\ ~Leave(r)
<1>0. TypeOK /\ turn \in [Requests -> Turn]
  BY DEF Types, TypeOK
<1>1. ~Enqueue(r)
  <2>1. "queueing" \in Places
    BY DEF Places
  <2> QED
    BY <1>0, <2>1, GoesMoves DEF Enqueue, Moves, Before
<1>2. ~Starts(r)
  BY DEF Starts, Moves, Before
<1>3. ~Leave(r)
  BY <1>0, AfterTurnMoves DEF Leave, Moves, Before
<1>4. turn[r].place \in Before
  <2>1. CASE Still
    BY <2>1 DEF Still
  <2>2. ASSUME NEW s \in Requests, Move(s), s # r PROVE turn'[r] = turn[r]
    BY <2>2 DEF Move, Enters, Reads, Circles, Queued, Polled, Starts, Finishes, GivesUp, Exits,
       Stores, FailsToStore, Finally, Stops, Fades, Moves
  <2>3. CASE Move(r)
    BY <2>3 DEF Move, Enters, Reads, Circles, Queued, Polled, Starts, Finishes, GivesUp, Exits,
       Stores, FailsToStore, Finally, Stops, Fades, Moves, TryClaim, At, Before
  <2> QED
    BY <2>1, <2>2, <2>3, StepMoves
<1> QED
  BY <1>1, <1>2, <1>3, <1>4

LEMMA TypeNext ==
    ASSUME Types, [Next]_vars PROVE Types'
<1>1. Keyed' /\ turn' \in [Requests -> Turn]
  BY KeyedNext
<1>2. EntersOnce'
  <2> SUFFICES ASSUME NEW r \in Requests, turn'[r].place \in Before
               PROVE  /\ status'[r] = "none" /\ r \notin started'
                      /\ \A i \in DOMAIN ids' : ids'[i] # r
    BY DEF EntersOnce
  <2>1. turn[r].place \in Before /\ ~Enqueue(r) /\ ~Starts(r) /\ ~Leave(r)
    BY BeforeStep
  <2>2. /\ status[r] = "none" /\ r \notin started /\ r \notin stale
        /\ \A i \in DOMAIN ids : ids[i] # r
    BY <2>1 DEF Types, TypeOK, EntersOnce
  <2>3. status'[r] = "none"
    BY <2>1, <2>2, StatusStep
  <2>4. r \notin started'
    BY <2>1, <2>2, HistoryStep
  <2>5. \A i \in DOMAIN ids' : ids'[i] # r
    BY <2>1, <2>2, IdsNext
  <2> QED
    BY <2>3, <2>4, <2>5
<1>3. TypeOK'
  BY <1>1, IdsNext, StatusStep, ClaimStep, StoredStep, HistoryStep, StaleStep DEF TypeOK
<1> QED
  BY <1>1, <1>2, <1>3 DEF Types

\* The tables, the places of the requests and the histories keep their types,
\* and a request has one marker at most.
THEOREM TypeCorrect == Spec => []TypeOK
<1>1. Types /\ [Next]_vars => Types'
  BY TypeNext
<1>2. Spec => []Types
  BY <1>1, TypeInit, PTL DEF Spec
<1>3. Types => TypeOK
  BY DEF Types
<1> QED
  BY <1>2, <1>3, PTL

-----------------------------------------------------------------------------
(* Callers with one key get one answer *)

\* A request stays as it is unless it moves; its key is for life.
LEMMA MoveOrStay ==
    ASSUME Types, [Next]_vars, NEW r \in Requests
    PROVE  turn'[r] = turn[r] \/ Move(r)
<1>1. CASE Still
  BY <1>1 DEF Still
<1>2. ASSUME NEW s \in Requests, Move(s), s # r PROVE turn'[r] = turn[r]
  BY <1>2 DEF Move, Enters, Reads, Circles, Queued, Polled, Starts, Finishes, GivesUp, Exits,
     Stores, FailsToStore, Finally, Stops, Fades, Moves
<1> QED
  BY <1>1, <1>2, StepMoves

\* An answer is the stored result, and who leaves in success has one.
Answers == \A r \in Requests : Key(r) # NoKey =>
    /\ turn[r].answer # Nobody => turn[r].answer = stored[Key(r)]
    /\ At(r, "answered") \/ (At(r, "unclaiming") /\ turn[r].ok) => turn[r].answer # Nobody

LEMMA AnswersNext ==
    ASSUME Types, [Next]_vars, Answers PROVE Answers'
<1> SUFFICES ASSUME NEW r \in Requests, turn'[r].key # NoKey
             PROVE  /\ turn'[r].answer # Nobody => turn'[r].answer = stored'[turn'[r].key]
                    /\ \/ turn'[r].place = "answered"
                       \/ turn'[r].place = "unclaiming" /\ turn'[r].ok
                       => turn'[r].answer # Nobody
  BY DEF Answers, At, Key
<1>0. turn'[r].key = turn[r].key /\ Key(r) = turn[r].key /\ Key(r) # NoKey
  BY KeyedNext DEF Key
<1>1. Key(r) \in Keys /\ Nobody \notin Requests
  BY <1>0, SessionAssumption DEF Types, TypeOK, Turn
<1>2. /\ turn[r].answer # Nobody => turn[r].answer = stored[Key(r)]
      /\ At(r, "answered") \/ (At(r, "unclaiming") /\ turn[r].ok) => turn[r].answer # Nobody
  BY <1>0 DEF Answers
<1>3. stored[Key(r)] # Nobody => stored'[Key(r)] = stored[Key(r)]
  BY <1>1, StoredStep
<1>4. CASE turn'[r] = turn[r]
  BY <1>0, <1>2, <1>3, <1>4 DEF At
<1>5. CASE Reads(r)
  BY <1>0, <1>2, <1>3, <1>5 DEF Reads, Moves
<1>6. CASE Stores(r)
  <2>1. stored'[Key(r)] = IF stored[Key(r)] = Nobody THEN r ELSE stored[Key(r)]
    BY <1>1, <1>6 DEF Stores, Store, StoreOrReuse, Types, TypeOK
  <2> QED
    BY <1>0, <1>1, <1>6, <2>1 DEF Stores, Moves
<1>7. CASE Finally(r)
  BY <1>0, <1>2, <1>3, <1>7 DEF Finally, ReleaseClaim, Moves, At
<1>8. CASE Exits(r)
  BY <1>0, <1>2, <1>3, <1>8 DEF Exits, Moves
<1>9. CASE \/ Enters(r) \/ Circles(r) \/ Queued(r) \/ Polled(r) \/ Starts(r) \/ Finishes(r)
           \/ GivesUp(r) \/ FailsToStore(r) \/ Stops(r)
  BY <1>0, <1>2, <1>3, <1>9 DEF Enters, Circles, Queued, Polled, Starts, Finishes, GivesUp,
     FailsToStore, Stops, Moves
<1>f. CASE Fades(r)
  BY <1>0, <1>2, <1>3, <1>f DEF Fades, Moves, At
<1> QED
  BY <1>4, <1>5, <1>6, <1>7, <1>8, <1>9, <1>f, MoveOrStay DEF Move

LEMMA AnswersInit == Init => Answers
<1> SUFFICES ASSUME Init, NEW r \in Requests
             PROVE  turn[r].answer = Nobody /\ turn[r].place \in {"entering", "looking"}
  BY DEF Answers, At
<1> QED
  BY DEF Init, Call

\* Callers that use the same key are answered alike, however often the turn was
\* executed (_store_or_reuse_result).
THEOREM OneAnswer == Spec => []AnswersAgree
<1>1. (Types /\ Answers) /\ [Next]_vars => (Types /\ Answers)'
  BY TypeNext, AnswersNext
<1>2. Spec => [](Types /\ Answers)
  BY <1>1, TypeInit, AnswersInit, PTL DEF Spec
<1>3. Types /\ Answers => AnswersAgree
  BY DEF Answers, AnswersAgree
<1> QED
  BY <1>2, <1>3, PTL

-----------------------------------------------------------------------------
(* Why two turns may run at once *)

\* A request holds a marker from Enqueue on.
LEMMA QueuesStep ==
    ASSUME Types, [Next]_vars, NEW r \in Requests
    PROVE  /\ Queues(r)' => Queues(r) \/ Enqueue(r)
           /\ turn'[r].place = "running" => At(r, "running") \/ Starts(r)
<1>1. CASE turn'[r] = turn[r]
  BY <1>1 DEF Queues, At
<1>2. CASE Move(r)
  <2>1. CASE Starts(r)
    BY <2>1 DEF Starts, MarkRunning, SweepPoll, Queues, At
  <2>2. CASE Finishes(r)
    BY <2>2 DEF Finishes, TurnEnds, Moves, Queues, At
  <2>3. CASE ~Starts(r) /\ ~Finishes(r)
    BY <1>2, <2>3 DEF Move, Enters, Reads, Circles, Queued, Polled, GivesUp, Exits,
       Stores, FailsToStore, Finally, Stops, Fades, Moves, Queues, At
  <2> QED
    BY <2>1, <2>2, <2>3
<1> QED
  BY <1>1, <1>2, MoveOrStay

\* A turn runs under its marker unless the heartbeat came late, and a marker that
\* is stale under a live request is recorded.
Markers == \A r \in Requests :
    /\ At(r, "running") => status[r] = "running" \/ <<"marker", r>> \in late
    /\ r \in stale /\ Queues(r) => <<"marker", r>> \in late

LEMMA MarkersNext ==
    ASSUME Types, [Next]_vars, Markers PROVE Markers'
<1> SUFFICES ASSUME NEW r \in Requests
             PROVE  /\ turn'[r].place = "running"
                         => status'[r] = "running" \/ <<"marker", r>> \in late'
                    /\ r \in stale' /\ Queues(r)' => <<"marker", r>> \in late'
  BY DEF Markers, At
<1>0. late \subseteq late' /\ TypeOK
  BY HistoryStep DEF Types
<1>1. ASSUME turn'[r].place = "running" PROVE status'[r] = "running" \/ <<"marker", r>> \in late'
  <2>1. CASE At(r, "running")
    <3>1. ~Enqueue(r) /\ ~Leave(r) /\ Queues(r)
      BY <2>1 DEF Enqueue, Leave, At, Queues
    <3> QED
      BY <1>0, <2>1, <3>1, StatusStep DEF Markers
  <2>2. CASE Starts(r)
    BY <1>0, <2>2 DEF Starts, MarkRunning, SweepPoll, Without, TypeOK
  <2> QED
    BY <1>1, <2>1, <2>2, QueuesStep
<1>2. ASSUME r \in stale', Queues(r)' PROVE <<"marker", r>> \in late'
  <2>1. CASE Enqueue(r)
    <3>1. status[r] = "none" /\ stale' = stale
      BY <2>1 DEF Enqueue, At, Types, EntersOnce, Before
    <3> QED
      BY <1>0, <1>2, <3>1 DEF TypeOK
  <2>2. CASE Queues(r)
    BY <1>0, <1>2, <2>2, StaleStep DEF Markers
  <2> QED
    BY <1>2, <2>1, <2>2, QueuesStep
<1> QED
  BY <1>1, <1>2

\* Who starts meets another turn only if the marker of that one was lost to a
\* late heartbeat, or upon a read that is no longer true.
LEMMA StartMeets ==
    ASSUME Types, Markers, NEW r \in Requests, NEW s \in Requests, r # s, Starts(r), At(s, "running")
    PROVE  <<"marker", s>> \in late \/ <<"marker", r>> \in split'
<1>1. Queues(s)
  BY DEF At, Queues
<1>2. CASE MarkRunning(r) /\ status[r] = "queued"
  BY <1>2 DEF MarkRunning, NoneRunning, Markers
<1>3. CASE NoneRunning(Without(Stale))
  BY <1>1, <1>3 DEF NoneRunning, Without, Stale, Markers
<1> QED
  BY <1>2, <1>3 DEF Starts

\* Turns under their callers run at once only upon a late heartbeat or a read
\* that is no longer true.
Overlaps == \A r, s \in Requests : (r # s /\ At(r, "running") /\ At(s, "running"))
    => \E q \in {r, s} : <<"marker", q>> \in late \cup split

LEMMA OverlapNext ==
    ASSUME Types, [Next]_vars, Markers, Overlaps PROVE Overlaps'
<1> SUFFICES ASSUME NEW r \in Requests, NEW s \in Requests, r # s,
                    turn'[r].place = "running", turn'[s].place = "running"
             PROVE  \E q \in {r, s} : <<"marker", q>> \in late' \cup split'
  BY DEF Overlaps, At
<1>1. late \subseteq late' /\ split \subseteq split'
  BY HistoryStep
<1>2. CASE At(r, "running") /\ At(s, "running")
  BY <1>1, <1>2 DEF Overlaps
<1>3. CASE Starts(r) /\ At(s, "running")
  BY <1>1, <1>3, StartMeets
<1>4. CASE Starts(s) /\ At(r, "running")
  BY <1>1, <1>4, StartMeets
<1>5. CASE Starts(r) /\ Starts(s)
  <2>1. ~At(s, "running")
    BY <1>5 DEF Starts, MarkRunning, SweepPoll, At
  <2>2. turn'[s] = turn[s]
    BY <1>5 DEF Starts, Moves
  <2> QED
    BY <2>1, <2>2 DEF At
<1> QED
  BY <1>2, <1>3, <1>4, <1>5, QueuesStep

LEMMA OverlapInit == Init => Markers /\ Overlaps
<1> SUFFICES ASSUME Init PROVE \A r \in Requests : turn[r].place # "running" /\ r \notin stale
  BY DEF Markers, Overlaps, At
<1> QED
  BY DEF Init, Call

\* Two turns run at once only if the heartbeat of one came late, one took the slot
\* upon a read that was no longer true, or one goes on after the progress stream of
\* its caller failed (release_stale, try_mark_running, _await_turn_with_progress).
THEOREM OverlapsHaveACause == Spec => []OverlapExplained
<1>1. (Types /\ Markers /\ Overlaps) /\ [Next]_vars => (Types /\ Markers /\ Overlaps)'
  BY TypeNext, MarkersNext, OverlapNext
<1>2. Spec => [](Types /\ Markers /\ Overlaps)
  BY <1>1, TypeInit, OverlapInit, PTL DEF Spec
<1>3. Overlaps => OverlapExplained
  BY DEF Overlaps, OverlapExplained, Runs
<1> QED
  BY <1>2, <1>3, PTL

-----------------------------------------------------------------------------
(* In which order turns start *)

\* Who found itself first in line has no queued marker before its own.
Line == \A i, j \in DOMAIN ids :
    (i < j /\ At(ids[j], "first") /\ status[ids[j]] = "queued") => status[ids[i]] # "queued"

\* A marker that is in the table already is not queued again.
LEMMA NotQueuedAgain ==
    ASSUME Types, [Next]_vars, NEW i \in DOMAIN ids, status'[ids[i]] = "queued"
    PROVE  status[ids[i]] = "queued"
<1>1. ids[i] \in Requests
  BY DEF Types, TypeOK
<1>2. ~Enqueue(ids[i])
  BY <1>1 DEF Enqueue, At, Types, EntersOnce, Before
<1> QED
  BY <1>1, <1>2, StatusStep

\* The marker of a request has one place in the line.
LEMMA FirstHasNoneBefore ==
    ASSUME Types, NEW i \in DOMAIN ids, NEW j \in DOMAIN ids, i < j,
           NEW st, FirstInLine(ids[j], st)
    PROVE  st[ids[i]] # "queued"
<1>1. PICK n \in DOMAIN ids : ids[n] = ids[j] /\ \A m \in 1..(n - 1) : st[ids[m]] # "queued"
  BY DEF FirstInLine
<1>2. n = j /\ DOMAIN ids = 1..Len(ids) /\ Len(ids) \in Nat
  BY <1>1, LenProperties DEF Types, TypeOK
<1>3. i \in 1..(n - 1)
  BY <1>2
<1> QED
  BY <1>1, <1>3

LEMMA LineNext ==
    ASSUME Types, [Next]_vars, Line PROVE Line'
<1> SUFFICES ASSUME NEW i \in DOMAIN ids', NEW j \in DOMAIN ids', i < j,
                    turn'[ids'[j]].place = "first", status'[ids'[j]] = "queued"
             PROVE  status'[ids'[i]] # "queued"
  BY DEF Line, At
<1>0. /\ \A n \in DOMAIN ids : n \in DOMAIN ids' /\ ids'[n] = ids[n]
      /\ \A n \in DOMAIN ids' : n \in DOMAIN ids \/ Enqueue(ids'[n])
      /\ ids \in Seq(Requests) /\ ids' \in Seq(Requests)
  BY IdsNext DEF Types, TypeOK
<1>1. PICK r \in Requests : r = ids'[j]
  BY <1>0
<1>2. ~Enqueue(r)
  <2>1. TypeOK /\ "queueing" \in Places
    BY DEF Types, Places
  <2> QED
    BY <1>1, <2>1, GoesMoves DEF Enqueue, Moves
<1>3. j \in DOMAIN ids /\ i \in DOMAIN ids /\ ids'[j] = ids[j] /\ ids'[i] = ids[i]
  <2>1. j \in DOMAIN ids
    BY <1>0, <1>1, <1>2
  <2>2. DOMAIN ids = 1..Len(ids) /\ DOMAIN ids' = 1..Len(ids') /\ Len(ids) \in Nat /\ Len(ids') \in Nat
    BY <1>0, LenProperties
  <2>3. i \in DOMAIN ids
    BY <2>1, <2>2
  <2> QED
    BY <1>0, <2>1, <2>3
<1>4. status[ids[j]] = "queued" /\ (status'[ids[i]] = "queued" => status[ids[i]] = "queued")
  BY <1>3, NotQueuedAgain
<1>5. CASE At(r, "first")
  BY <1>1, <1>3, <1>4, <1>5 DEF Line
<1>6. CASE ~At(r, "first")
  <2>1. FirstInLine(r, status)
    <3>1. turn'[r] # turn[r] /\ ~Fades(r)
      BY <1>1, <1>6 DEF At, Fades, Moves
    <3> QED
      BY <1>1, <3>1, MoveOrStay DEF Move, Enters, Reads, Circles, Queued, Polled, Starts,
         Finishes, GivesUp, Exits, Stores, FailsToStore, Finally, Stops, Moves
  <2> QED
    BY <1>1, <1>3, <1>4, <2>1, FirstHasNoneBefore
<1> QED
  BY <1>5, <1>6

\* Turns start in the order of their markers, although the update acts upon what
\* was read before (try_mark_running).
THEOREM InOrder == Spec => StartsInOrder
<1> DEFINE Ordered == \A i, j \in DOMAIN ids :
        (i < j /\ status[ids[j]] = "queued" /\ status'[ids[j]] = "running")
            => status'[ids[i]] # "queued"
<1>1. Types /\ Line /\ [Next]_vars => Ordered
  <2> SUFFICES ASSUME Types, Line, [Next]_vars, NEW i \in DOMAIN ids, NEW j \in DOMAIN ids, i < j,
                      status[ids[j]] = "queued", status'[ids[j]] = "running"
               PROVE  status'[ids[i]] # "queued"
    OBVIOUS
  <2>1. ids[i] \in Requests /\ ids[j] \in Requests
    BY DEF Types, TypeOK
  <2>2. Starts(ids[j])
    BY <2>1, StatusStep
  <2>3. CASE MarkRunning(ids[j])
    <3>1. At(ids[j], "first")
      BY <2>3 DEF MarkRunning
    <3> QED
      BY <3>1, NotQueuedAgain DEF Line
  <2>4. CASE SweepPoll(ids[j]) /\ FirstInLine(ids[j], Without(Stale)) /\ NoneRunning(Without(Stale))
    <3> DEFINE left == Without(Stale)
    <3>1. status' = [left EXCEPT ![ids[j]] = "running"]
      BY <2>4 DEF SweepPoll
    <3>2. left[ids[i]] # "queued"
      BY <2>4, FirstHasNoneBefore
    <3>3. left \in [Requests -> {"none", "queued", "running"}]
      BY DEF Types, TypeOK, Without
    <3> HIDE DEF left
    <3> QED
      BY <2>1, <3>1, <3>2, <3>3
  <2> QED
    BY <2>2, <2>3, <2>4 DEF Starts
<1>2. Init => Line
  BY DEF Init, Line
<1>3. (Types /\ Line) /\ [Next]_vars => (Types /\ Line)'
  BY TypeNext, LineNext
<1>4. Spec => [](Types /\ Line)
  BY <1>2, <1>3, TypeInit, PTL DEF Spec
<1> HIDE DEF Ordered
<1>5. Spec => [][Ordered]_vars
  BY <1>1, <1>4, PTL DEF Spec
<1> QED
  BY <1>5 DEF StartsInOrder, Ordered

-----------------------------------------------------------------------------
(* Why a key is executed again *)

\* A request with a key starts to execute by its claim, and stops for good.
LEMMA ExecutesStep ==
    ASSUME Types, [Next]_vars, NEW r \in Requests, Key(r) # NoKey
    PROVE  /\ Executes(r)' => Executes(r) \/ Enters(r)
           /\ r \in started' => r \in started \/ Executes(r)
           /\ ReleaseClaim(r) => ~Executes(r)'
<1>1. Executes(r)' => Executes(r) \/ Enters(r)
  <2>1. CASE turn'[r] = turn[r]
    BY <2>1 DEF Executes, Queues, At
  <2>2. CASE Move(r)
    <3>1. CASE Starts(r)
      BY <3>1 DEF Starts, MarkRunning, SweepPoll, Executes, Queues, At
    <3>2. CASE Queued(r) \/ Finishes(r) \/ Stores(r) \/ Finally(r)
      BY <3>2 DEF Queued, Enqueue, Finishes, TurnEnds, Stores, Store, Finally, ReleaseClaim,
         Executes, Queues, At
    <3>3. CASE Reads(r) \/ Circles(r) \/ Polled(r) \/ GivesUp(r) \/ Exits(r) \/ FailsToStore(r) \/ Stops(r)
                 \/ Fades(r)
      BY <3>3 DEF Reads, Circles, Polled, GivesUp, Exits, FailsToStore, Stops, Fades, Moves,
         Executes, Queues, At
    <3> QED
      BY <2>2, <3>1, <3>2, <3>3 DEF Move
  <2> QED
    BY <2>1, <2>2, MoveOrStay
<1>2. r \in started' => r \in started \/ Executes(r)
  <2>1. Starts(r) => Executes(r)
    BY DEF Starts, MarkRunning, SweepPoll, Executes, Queues, At
  <2> QED
    BY <2>1, HistoryStep
<1>3. ReleaseClaim(r) => ~Executes(r)'
  <2>1. TypeOK /\ {"answered", "failed"} \subseteq Places
    BY DEF Types, Places
  <2> HIDE DEF Places
  <2>2. ASSUME ReleaseClaim(r) PROVE turn'[r].place \in {"answered", "failed"}
    BY <2>1, <2>2, GoesMoves DEF ReleaseClaim, Moves
  <2> QED
    BY <2>2 DEF Executes, Queues, At
<1> QED
  BY <1>1, <1>2, <1>3

\* Who executes a key owns its claim, unless its heartbeat came late, and a claim
\* that is stale under a live request is recorded.
Claims == \A r \in Requests : (Key(r) # NoKey /\ Executes(r)) =>
    \/ <<"claim", r>> \in late
    \/ claim[Key(r)].owner = r /\ ~claim[Key(r)].stale

LEMMA AgesStep ==
    ASSUME Types, [Next]_vars, NEW k \in Keys
    PROVE  \/ claim'[k].stale => claim[k].stale
           \/ ~Executes(claim[k].owner) \/ <<"claim", claim[k].owner>> \in late'
<1> DEFINE Goal == \/ claim'[k].stale => claim[k].stale
                   \/ ~Executes(claim[k].owner) \/ <<"claim", claim[k].owner>> \in late'
<1>0. claim \in [Keys -> Claim]
  BY DEF Types, TypeOK
<1>1. ASSUME NEW r \in Requests, TryClaim(r) \/ CheckClaim(r) \/ ReleaseClaim(r) PROVE Goal
  <2>1. claim' = claim \/ \E o \in Requests \cup {Nobody} :
          claim' = [claim EXCEPT ![Key(r)] = [owner |-> o, stale |-> FALSE]]
    BY <1>1 DEF TryClaim, CheckClaim, ReleaseClaim
  <2> QED
    BY <1>0, <2>1
<1>2. ASSUME NEW r \in Requests, ClaimHeartbeat(r) PROVE Goal
  <2>1. claim' = [claim EXCEPT ![Key(r)].stale = FALSE]
    BY <1>2 DEF ClaimHeartbeat
  <2> QED
    BY <1>0, <2>1 DEF Claim
<1>3. ASSUME NEW j \in Keys, ClaimAges(j) PROVE Goal
  <2>1. claim' = [claim EXCEPT ![j].stale = TRUE]
    BY <1>3 DEF ClaimAges
  <2>2. CASE j = k
    BY <1>3, <2>2 DEF ClaimAges
  <2>3. CASE j # k
    BY <1>0, <2>1, <2>3
  <2> QED
    BY <2>2, <2>3
<1>4. ASSUME claim' = claim PROVE Goal
  BY <1>4
<1> HIDE DEF Goal
<1>5. Goal
  BY <1>1, <1>2, <1>3, <1>4
     DEF Next, Proceeds, Polls, Look, Wait, Enqueue, TurnEnds, Leave, Store, PeekRunning,
         PeekFirst, MarkRunning, SweepPoll, Sweep, WaitTimesOut, QueueTimesOut, Raises,
         ProgressRaises, OrphanEnds, LeaveLocked,
         Heartbeat, MarkerAges, Dies, vars, keys
<1> QED
  BY <1>5 DEF Goal

LEMMA ClaimsNext ==
    ASSUME Types, [Next]_vars, Claims PROVE Claims'
<1> SUFFICES ASSUME NEW r \in Requests, turn'[r].key # NoKey, Executes(r)', <<"claim", r>> \notin late'
             PROVE  claim'[turn'[r].key].owner = r /\ ~claim'[turn'[r].key].stale
  BY DEF Claims, Key
<1>0. turn'[r].key = turn[r].key /\ Key(r) = turn[r].key /\ late \subseteq late' /\ claim \in [Keys -> Claim]
  BY KeyedNext, HistoryStep DEF Key, Types, TypeOK
<1>1. PICK k \in Keys : k = Key(r)
  BY <1>0 DEF Types, TypeOK, Turn
<1>2. CASE Enters(r)
  <2>1. claim' = [claim EXCEPT ![k] = [owner |-> r, stale |-> FALSE]]
    BY <1>1, <1>2 DEF Enters, TryClaim
  <2> QED
    BY <1>0, <1>1, <2>1
<1>3. CASE Executes(r)
  <2>1. claim[k].owner = r /\ ~claim[k].stale
    BY <1>0, <1>1, <1>3 DEF Claims
  <2>2. ~ReleaseClaim(r) /\ r # Nobody
    BY <1>0, <1>1, SessionAssumption, ExecutesStep
  <2>3. claim'[k].owner = r
    BY <1>1, <2>1, <2>2, ClaimStep DEF ClaimChange
  <2>4. ~claim'[k].stale
    BY <1>0, <1>1, <1>3, <2>1, AgesStep
  <2> QED
    BY <1>0, <1>1, <2>3, <2>4
<1> QED
  BY <1>0, <1>1, <1>2, <1>3, SessionAssumption, ExecutesStep

\* Requests that executed a key or are about to.
Had(r) == Executes(r) \/ r \in started

ReplayCause(r, s) == \E q \in {r, s} : Unstored(q) \/ <<"claim", q>> \in late \cup split

Replays == \A r, s \in Requests :
    (r # s /\ Key(r) = Key(s) /\ Key(r) # NoKey /\ Had(r) /\ Had(s)) => ReplayCause(r, s)

\* The turn that ended without a result stays so.
LEMMA UnstoredStays ==
    ASSUME Types, [Next]_vars, NEW r \in Requests, Key(r) # NoKey, Unstored(r)
    PROVE  Unstored(r)'
<1>1. CASE turn'[r] = turn[r]
  BY <1>1 DEF Unstored
<1>2. CASE Finally(r)
  BY <1>2 DEF Finally, ReleaseClaim, Moves, Unstored, At
<1>3. CASE Exits(r) \/ Stops(r) \/ Fades(r)
  BY <1>3 DEF Exits, Stops, Fades, Moves, Unstored, Alive
<1>4. CASE \/ Enters(r) \/ Reads(r) \/ Queued(r) \/ Starts(r) \/ Finishes(r) \/ Stores(r)
           \/ Circles(r) \/ Polled(r) \/ GivesUp(r) \/ FailsToStore(r)
  BY <1>4 DEF Enters, TryClaim, Reads, Look, Wait, Queued, Enqueue, Starts, MarkRunning, SweepPoll,
     Finishes, TurnEnds, Stores, Store, Circles, Polled, GivesUp, FailsToStore, Unstored, At
<1> QED
  BY <1>1, <1>2, <1>3, <1>4, MoveOrStay DEF Move

\* Who claims a key that was executed before meets a cause.
LEMMA ClaimMeets ==
    ASSUME Types, Answers, Claims, NEW r \in Requests, NEW s \in Requests, Key(r) = Key(s),
           Key(r) # NoKey, Had(r), Enters(s)
    PROVE  Unstored(r) \/ <<"claim", r>> \in late \/ <<"claim", s>> \in split'
<1>0. claim[Key(s)].owner = Nobody /\ r # Nobody /\ TryClaim(s)
  BY SessionAssumption DEF Enters
<1>1. CASE Executes(r)
  BY <1>0, <1>1 DEF Claims
<1>2. CASE ~Executes(r) /\ stored[Key(r)] # Nobody
  BY <1>0, <1>2 DEF TryClaim
<1>3. CASE ~Executes(r) /\ stored[Key(r)] = Nobody
  <2>1. r \in started
    BY <1>3 DEF Had
  <2>2. turn[r].place \notin Before /\ turn[r].place \in Places
    BY <2>1 DEF Types, TypeOK, EntersOnce, Turn
  <2>3. turn[r].place \in {"answered", "failed", "dead"}
    BY <1>3, <2>2 DEF Executes, Queues, At, Before, Places
  <2>4. turn[r].answer = Nobody /\ ~At(r, "answered")
    BY <1>3 DEF Answers
  <2> QED
    BY <2>3, <2>4 DEF Unstored, At
<1> QED
  BY <1>1, <1>2, <1>3

LEMMA ReplaysNext ==
    ASSUME Types, [Next]_vars, Answers, Claims, Replays PROVE Replays'
<1> SUFFICES ASSUME NEW r \in Requests, NEW s \in Requests, r # s, Key(r)' = Key(s)', Key(r)' # NoKey,
                    Had(r)', Had(s)'
             PROVE  ReplayCause(r, s)'
  BY DEF Replays
<1>0. /\ Key(r) = Key(s) /\ Key(r) # NoKey /\ Key(s) # NoKey
      /\ late \subseteq late' /\ split \subseteq split'
  BY KeyedNext, HistoryStep DEF Key
<1>1. (Had(r) \/ Enters(r)) /\ (Had(s) \/ Enters(s))
  <2>1. \A q \in {r, s} : Had(q)' => Had(q) \/ Enters(q)
    BY <1>0, ExecutesStep DEF Had
  <2> QED
    BY <2>1
<1>2. CASE Had(r) /\ Had(s)
  <2>1. PICK q \in {r, s} : Unstored(q) \/ <<"claim", q>> \in late \cup split
    BY <1>0, <1>2 DEF Replays, ReplayCause
  <2>2. Unstored(q)' \/ <<"claim", q>> \in late' \cup split'
    BY <1>0, <2>1, UnstoredStays
  <2> QED
    BY <2>2 DEF ReplayCause
<1>3. CASE Had(r) /\ Enters(s)
  BY <1>0, <1>3, ClaimMeets, UnstoredStays DEF ReplayCause
<1>4. CASE Had(s) /\ Enters(r)
  BY <1>0, <1>4, ClaimMeets, UnstoredStays DEF ReplayCause
<1>5. CASE Enters(r) /\ Enters(s)
  <2>1. turn'[s] = turn[s] /\ turn'[s].place = "entering" /\ turn[s].place = "claiming"
    BY <1>5 DEF Enters, TryClaim, Moves, At
  <2> QED
    BY <2>1
<1> QED
  BY <1>1, <1>2, <1>3, <1>4, <1>5

LEMMA ReplaysInit == Init => Claims /\ Replays
<1> SUFFICES ASSUME Init, NEW r \in Requests, turn[r].key # NoKey PROVE ~Executes(r) /\ r \notin started
  BY DEF Claims, Replays, Had, Key
<1>1. turn[r].place = "looking"
  BY DEF Init, Call
<1> QED
  BY <1>1 DEF Init, Executes, Queues, At

\* A key is executed a second time only if the first turn ended before its result
\* was stored, its heartbeat came late, or the claim was taken upon a read that
\* was no longer true (run_idempotent_chat_turn).
THEOREM ReplaysHaveACause == Spec => []ReplayExplained
<1> DEFINE Inv == Types /\ Answers /\ Claims /\ Replays
<1>1. Init => Inv
  BY TypeInit, AnswersInit, ReplaysInit
<1>2. Inv /\ [Next]_vars => Inv'
  BY TypeNext, AnswersNext, ClaimsNext, ReplaysNext
<1>3. Inv => ReplayExplained
  BY DEF Replays, ReplayExplained, Had, ReplayCause, Types, TypeOK
<1> HIDE DEF Inv
<1> QED
  BY <1>1, <1>2, <1>3, PTL DEF Spec
=============================================================================
