-------------------------- MODULE IngressCoalescer --------------------------
(* One channel endpoint's inbound side below its adapter: the table of pending
   messages (channels/ingress_persistence.py), the coalescer that groups the
   messages of a conversation and flushes each group into one agent turn and
   one reply (channels/ingress_coalescer.py), and what the Telegram and the
   PartyFlow adapter do when a flush succeeds or fails.  ChannelPolling adds
   the adapters' polling loops and the life of their process.

   A message is its number at the remote service.  A flusher is one asyncio
   task, or the part of one, that runs _flush_batch_safe on the batches it has
   left, one after the other; the await points of a flush are its steps.  What
   the remote user sees is `replies`. *)
EXTENDS Integers, FiniteSets, SequencesExt

CONSTANTS
    Messages,        \* 1..n: updates of Telegram, events of PartyFlow
    Conversation,    \* the conversation key of each message
    TextLength,      \* the number of characters of each message
    Endpoints,       \* the endpoint configurations to explore
    TurnResults,     \* "reply", "silent", "unroutable": how a turn may go
    MaxFaults        \* bound: errors, timeouts, stops and crashes together

ASSUME MessagesAssumption ==
    IsFiniteSet(Messages) /\ Messages = 1..Cardinality(Messages)
ASSUME TextAssumption == TextLength \in [Messages -> Nat]
ASSUME EndpointsAssumption ==
    Endpoints \subseteq [transport : {"telegram", "partyflow"}, batching : BOOLEAN,
                         maxBatchSize : Nat \ {0}, maxBufferChars : Nat]
ASSUME BoundsAssumption == MaxFaults \in Nat

VARIABLES
    endpoint,     \* its transport, and ingress_batch: enabled or not, its limits
    rows,         \* channel_ingress_pending_event, oldest first
    saved,        \* the state file: first message not acknowledged
    cursor,       \* in memory: first message the next poll asks for
    unacked,      \* _pending_update_order (Telegram)
    acked,        \* the ids of it that _pending_update_status maps to True
    buffer,       \* _pending_by_key: the batch that sleeps, per conversation
    flushers,     \* flushes in progress
    retry,        \* the batch of the retry task of a conversation, or empty
    turns,        \* history: the batches the agent has executed
    settled,      \* history: messages answered or closed without an answer
    replies,      \* history: replies each message got, counted up to two
    parked,       \* history: messages of failed flushes no task will repeat
    faults

coalescerVars == <<rows, saved, unacked, acked, flushers, retry,
                   turns, settled, replies, parked, faults>>

Conversations == {Conversation[m] : m \in Messages}
Telegram == endpoint.transport = "telegram"

Fault == faults < MaxFaults /\ faults' = faults + 1

-----------------------------------------------------------------------------
(* The pending table. *)

\* The elements of ms that are in S, in their order.
Those(S, ms) ==
    LET those[i \in 0..Len(ms)] ==
            IF i = 0 THEN <<>>
            ELSE IF ms[i] \in S THEN Append(those[i - 1], ms[i]) ELSE those[i - 1]
    IN those[Len(ms)]

\* Broken: the table has no unique key.
StoredNever(m) == FALSE
\* record_pending: false when the message is already stored.
Stored(m) == Contains(rows, m)
RecordPending(m) == rows' = Append(rows, m)

\* release_batch and release_event.
Release(ms) == rows' = Those(Messages \ ms, rows)

-----------------------------------------------------------------------------
(* Batches. *)

\* restore_pending groups stored messages by conversation, in the order the
\* conversations appear, and cuts each group to the limits of a batch.
OpensGroup(ms, i) == \A j \in 1..(i - 1) : Conversation[ms[j]] # Conversation[ms[i]]
Group(ms, c) == Those({m \in Messages : Conversation[m] = c}, ms)

Chars(b) ==
    LET upTo[i \in 0..Len(b)] == IF i = 0 THEN 0 ELSE upTo[i - 1] + TextLength[b[i]]
    IN upTo[Len(b)]

\* Without batching every message is a batch of its own.
Limits == IF endpoint.batching
          THEN [size |-> endpoint.maxBatchSize, chars |-> endpoint.maxBufferChars]
          ELSE [size |-> 1, chars |-> 0]

\* A single message is never too long.
Fits(b, limits) == Len(b) <= limits.size /\ (Len(b) > 1 => Chars(b) <= limits.chars)

\* Each message joins the part before it as long as that part fits with it;
\* from[i] is where the part with the i-th message begins.
Cut(ms, limits) ==
    LET from[i \in 0..Len(ms)] ==
            IF i > 1 /\ Fits(SubSeq(ms, from[i - 1], i), limits) THEN from[i - 1] ELSE i
        Closes(i) == i = Len(ms) \/ from[i + 1] = i + 1
    IN FlattenSeq([i \in DOMAIN ms |->
           IF Closes(i) THEN <<SubSeq(ms, from[i], i)>> ELSE <<>>])

SplitRestoreBatches(ms) ==
    FlattenSeq([i \in DOMAIN ms |->
        IF OpensGroup(ms, i) THEN Cut(Group(ms, Conversation[ms[i]]), Limits) ELSE <<>>])

Flusher(by, batches) == [by |-> by, left |-> batches, at |-> "turn"]
FlushersFor(by, batches) == IF batches = <<>> THEN {} ELSE {Flusher(by, batches)}

Batch(f) == Head(f.left)
ConversationOf(f) == Conversation[Head(Batch(f))]
Running(by) == {f \in flushers : f.by = by}

At(f, step) == flushers' = (flushers \ {f}) \union {[f EXCEPT !.at = step]}

\* The flusher as it goes on after its batch, `by` being who owns it from now on.
NextBatch(f, by) ==
    flushers' = (flushers \ {f}) \union FlushersFor(by, Tail(f.left))

\* The retry task forgets itself when it has run its last batch.
RetryAfter(f) ==
    IF f.by = "retry" /\ Len(f.left) = 1
    THEN [retry EXCEPT ![ConversationOf(f)] = <<>>]
    ELSE retry

-----------------------------------------------------------------------------
(* Acknowledgement (Telegram): the state file moves over the acknowledged
   prefix of the updates seen. *)

\* _mark_update_processed puts updates it does not know behind those it knows.
InOrder(ms) == unacked \o Those(Messages \ Range(unacked), ms)

\* _drain_acknowledged_updates_locked once the updates ms of the order are marked.
Acknowledge(order, ms) ==
    LET done == acked \union Range(ms)
        open == {i \in DOMAIN order : order[i] \notin done}
        drained == IF open = {} THEN Len(order)
                   ELSE (CHOOSE i \in open : \A j \in open : i <= j) - 1
    IN /\ unacked' = SubSeq(order, drained + 1, Len(order))
       /\ acked' = done \ {order[i] : i \in 1..drained}
       /\ saved' = IF drained = 0 THEN saved ELSE order[drained] + 1

-----------------------------------------------------------------------------
(* The steps of a flush: _flush_inbound_batch of the adapter within
   _flush_batch_safe. *)

AfterReply == IF Telegram THEN "ack" ELSE "release"

\* The conversation is routed and the agent takes the turn.  Its idempotency
\* key names the batch: a batch the agent has seen is replayed, not executed.
RunTurn(f, result) ==
    /\ f.at = "turn"
    /\ turns' = IF result = "unroutable" THEN turns ELSE turns \union {Batch(f)}
    /\ IF result = "reply"
       THEN At(f, "deliver") /\ UNCHANGED settled
       ELSE At(f, AfterReply) /\ settled' = settled \union Range(Batch(f))
    /\ UNCHANGED <<rows, saved, unacked, acked, retry, replies, parked, faults>>

Reply(f) ==
    replies' = [m \in Messages |->
        IF Contains(Batch(f), m) /\ replies[m] < 2 THEN replies[m] + 1 ELSE replies[m]]

Deliver(f) ==
    /\ f.at = "deliver"
    /\ Reply(f)
    /\ settled' = settled \union Range(Batch(f))
    /\ At(f, AfterReply)
    /\ UNCHANGED <<rows, saved, unacked, acked, retry, turns, parked, faults>>

MarkBatchProcessed(f) ==
    /\ f.at = "ack"
    /\ Acknowledge(InOrder(Batch(f)), Batch(f))
    /\ At(f, "release")
    /\ UNCHANGED <<rows, retry, turns, settled, replies, parked, faults>>

ReleaseBatch(f) ==
    /\ f.at = "release"
    /\ Release(Range(Batch(f)))
    /\ NextBatch(f, f.by)
    /\ retry' = RetryAfter(f)
    /\ UNCHANGED <<saved, unacked, acked, turns, settled, replies, parked, faults>>

-----------------------------------------------------------------------------
(* A failed flush. *)

\* A conversation has one retry task.  Telegram asks for one only after a
\* delivery timeout, and the task it finds may be the very one that failed;
\* PartyFlow asks after any error and lets a retry replace itself.
RetryScheduled(f, timedOut) ==
    IF Telegram THEN timedOut /\ retry[ConversationOf(f)] = <<>>
    ELSE retry[ConversationOf(f)] = <<>> \/ f.by = "retry"

\* The adapter's error handler: the rows stay in the table in any case.
HandleError(f, timedOut) ==
    IF RetryScheduled(f, timedOut)
    THEN /\ retry' = [retry EXCEPT ![ConversationOf(f)] = Batch(f)]
         /\ NextBatch(f, IF f.by = "retry" THEN "replaced" ELSE f.by)
         /\ UNCHANGED parked
    ELSE /\ retry' = RetryAfter(f)
         /\ NextBatch(f, f.by)
         /\ parked' = parked \union Range(Batch(f))

\* A delivery that times out may still have reached the user.
DeliveryTimesOut(f) ==
    /\ f.at = "deliver"
    /\ Reply(f) \/ UNCHANGED replies
    /\ UNCHANGED <<saved, unacked, acked, turns, settled>>

\* Any other error: no binding can be read, the turn or the delivery raises.
FlushRaises(f) ==
    /\ f.at \in {"turn", "deliver"}
    /\ UNCHANGED <<saved, unacked, acked, turns, settled, replies>>

\* Every flush but the one a poll waits for hands its error to the handler.
FlushFails(f) ==
    /\ f.by # "poll"
    /\ Fault
    /\ \/ DeliveryTimesOut(f) /\ HandleError(f, TRUE)
       \/ FlushRaises(f) /\ HandleError(f, FALSE)
    /\ UNCHANGED rows

-----------------------------------------------------------------------------
(* The tasks that start a flush. *)

\* enqueue with batching: the message joins its conversation's batch and the
\* batch's sleep starts again.  The debounce time is never zero, so a full
\* batch sleeps as well.
Enqueue(m) == buffer' = [buffer EXCEPT ![Conversation[m]] = Append(@, m)]

\* Broken: the batch is flushed and stays in the buffer.
PoppedNever(c) == buffer
\* What is left of the buffer once the batch of c is taken.
Popped(c) == [buffer EXCEPT ![c] = <<>>]

\* _flush_after_delay: the sleep of a conversation's batch is over.
FlushAfterDelay(c) ==
    /\ buffer[c] # <<>>
    /\ flushers' = flushers \union {Flusher("timer", <<buffer[c]>>)}
    /\ buffer' = Popped(c)
    /\ UNCHANGED <<rows, saved, unacked, acked, retry, turns, settled, replies, parked, faults>>

\* The delay of a retry task is over: it restores the messages of its batch.
RetryAfterDelay(c) ==
    /\ retry[c] # <<>>
    /\ \A f \in Running("retry") : ConversationOf(f) # c
    /\ flushers' = flushers \union {Flusher("retry", SplitRestoreBatches(retry[c]))}
    /\ UNCHANGED <<rows, saved, unacked, acked, retry, turns, settled, replies, parked, faults>>

FlushStep == \E f \in flushers :
    \/ \E result \in TurnResults : RunTurn(f, result)
    \/ Deliver(f)
    \/ MarkBatchProcessed(f)
    \/ ReleaseBatch(f)
=============================================================================
