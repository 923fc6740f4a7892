--------------------------- MODULE ChannelPolling ---------------------------
(* A polled channel endpoint: the polling loop of the Telegram adapter
   (telegram_polling.py, telegram_polling_runtime.py) or of the PartyFlow
   adapter (partyflow_polling.py) over IngressCoalescer, with the remote
   service it polls and the life of the process around it.

   Telegram forgets the updates below the offset of a getUpdates call, so the
   pending table is the only place a message is safe in once the next poll has
   begun.  PartyFlow answers from any cursor; there a journal of claimed event
   keys (ingress_journal.py) keeps an event from being taken twice. *)
EXTENDS IngressCoalescer

CONSTANT
    Kinds            \* functions to explore: "message", "denied", "other" or "malformed"

VARIABLES
    kind,         \* what each message is to the adapter
    sent,         \* the remote service: messages 1..sent exist
    forgotten,    \* the remote service: first message it still returns
    claims,       \* channel_ingress_event: claimed event keys (PartyFlow)
    service,      \* "down", "starting", "polling" or "stopping"
    poll,         \* the poll: what it does with the messages left on its page
    interrupted,  \* history: claimed, and cut off before its row was stored
    restarted     \* history: the process has stopped or crashed

vars == <<endpoint, rows, saved, cursor, unacked, acked, buffer, flushers, retry,
          turns, settled, replies, parked, faults, kind, sent, forgotten, claims,
          service, poll, interrupted, restarted>>

remoteVars == <<sent, forgotten>>
configVars == <<endpoint, kind>>
historyVars == <<turns, settled, replies>>

Idle == [at |-> "idle", page |-> <<>>, next |-> 1]
EmptyBuffer == [c \in Conversations |-> <<>>]

Init ==
    /\ endpoint \in Endpoints /\ kind \in Kinds
    /\ rows = <<>> /\ saved = 1 /\ claims = {}
    /\ sent = 0 /\ forgotten = 1
    /\ service = "down" /\ cursor = 1 /\ unacked = <<>> /\ acked = {}
    /\ poll = Idle /\ buffer = EmptyBuffer /\ flushers = {} /\ retry = EmptyBuffer
    /\ turns = {} /\ settled = {} /\ replies = [m \in Messages |-> 0]
    /\ parked = {} /\ interrupted = {} /\ restarted = FALSE /\ faults = 0

\* A user writes a message.
Send ==
    /\ sent + 1 \in Messages
    /\ sent' = sent + 1
    /\ UNCHANGED <<configVars, coalescerVars, cursor, buffer, forgotten, claims, service,
                   poll, interrupted, restarted>>

-----------------------------------------------------------------------------
(* The poll: one getUpdates or events call and the work on its page. *)

Current == Head(poll.page)
Wanted(m) == kind[m] = "message"
OnPage(step) == service = "polling" /\ poll.at = step /\ poll.page # <<>>

PollAt(step) == poll' = [poll EXCEPT !.at = step]
NextOnPage == poll' = [poll EXCEPT !.at = "next", !.page = Tail(@)]

\* _fetch_updates and _fetch_events: a page starts at the cursor.  Asking
\* Telegram from an offset confirms everything below it.
Fetch ==
    /\ service = "polling" /\ poll.at = "idle"
    /\ forgotten' = IF Telegram /\ cursor > forgotten THEN cursor ELSE forgotten
    /\ LET first == IF Telegram THEN forgotten' ELSE cursor
       IN \E last \in (first - 1)..sent :
            poll' = IF last < first THEN poll
                    ELSE [at |-> "next", next |-> last + 1,
                          page |-> [i \in 1..(last - first + 1) |-> first + i - 1]]
    /\ UNCHANGED <<configVars, coalescerVars, cursor, buffer, sent, claims, service,
                   interrupted, restarted>>

\* Broken: the message is passed on without a row.
PassWithoutRow(m) ==
    /\ UNCHANGED rows
    /\ IF endpoint.batching
       THEN PollAt("buffer") /\ UNCHANGED flushers
       ELSE PollAt("flush") /\ flushers' = flushers \union {Flusher("poll", <<<<m>>>>)}

\* enqueue stores the message and either buffers it or flushes it at once; a
\* message that is stored already is taken as done.
StoreAndPass(m) ==
    /\ RecordPending(m)
    /\ IF endpoint.batching
       THEN PollAt("buffer") /\ UNCHANGED flushers
       ELSE PollAt("flush") /\ flushers' = flushers \union {Flusher("poll", <<<<m>>>>)}

\* _register_pending_update
Registered(m) == IF Contains(unacked, m) THEN unacked ELSE Append(unacked, m)
AdvanceFetchOffset(m) == cursor' = IF m + 1 > cursor THEN m + 1 ELSE cursor

\* Telegram acknowledges a message with its batch when it batches, and what it
\* does not answer at once; a message the access policy drops counts as
\* answered only without batching.
AcknowledgedAtOnce(m) == ~endpoint.batching \/ kind[m] \in {"other", "malformed"}

UpdateHandled(m) ==
    /\ AdvanceFetchOffset(m)
    /\ IF AcknowledgedAtOnce(m)
       THEN Acknowledge(Registered(m), <<m>>)
       ELSE unacked' = Registered(m) /\ UNCHANGED <<acked, saved>>
    /\ NextOnPage

\* _process_updates up to the commit of record_pending.
TakeUpdate ==
    /\ Telegram /\ OnPage("next")
    /\ LET m == Current
       IN IF Wanted(m) /\ ~Stored(m)
          THEN /\ StoreAndPass(m)
               /\ unacked' = Registered(m)
               /\ UNCHANGED <<cursor, acked, saved>>
          ELSE UpdateHandled(m) /\ UNCHANGED <<rows, flushers>>
    /\ UNCHANGED <<configVars, remoteVars, historyVars, claims, service, buffer, retry, parked,
                   faults, interrupted, restarted>>

\* _process_polled_event: the claim is a transaction of its own and comes first.
\* An event without readable payload raises.
ClaimEvent ==
    /\ ~Telegram /\ OnPage("next")
    /\ claims' = claims \union {Current}
    /\ IF Current \in claims \/ kind[Current] \in {"denied", "other"} THEN NextOnPage
       ELSE PollAt(IF Wanted(Current) THEN "store" ELSE "giveback")
    /\ UNCHANGED <<configVars, remoteVars, coalescerVars, cursor, buffer, service,
                   interrupted, restarted>>

\* record_pending raises.
StoreRaises ==
    /\ OnPage("store") /\ Fault
    /\ PollAt("giveback")
    /\ UNCHANGED <<configVars, remoteVars, historyVars, rows, saved, cursor, unacked, acked,
                   buffer, flushers, retry, parked, claims, service, interrupted, restarted>>

\* Broken: the poll ends and the claim stays.
KeepClaim ==
    /\ OnPage("giveback")
    /\ poll' = Idle
    /\ UNCHANGED <<configVars, remoteVars, coalescerVars, cursor, buffer, claims, service,
                   interrupted, restarted>>

\* After an error the claim is given back, and the poll ends: its cursor stays
\* where the page began.
GiveClaimBack ==
    /\ OnPage("giveback")
    /\ claims' = claims \ {Current}
    /\ poll' = Idle
    /\ UNCHANGED <<configVars, remoteVars, coalescerVars, cursor, buffer, service,
                   interrupted, restarted>>

StoreEvent ==
    /\ OnPage("store")
    /\ IF Stored(Current) THEN NextOnPage /\ UNCHANGED <<rows, flushers>>
       ELSE StoreAndPass(Current)
    /\ UNCHANGED <<configVars, remoteVars, historyVars, saved, cursor, unacked, acked, buffer,
                   retry, parked, faults, claims, service, interrupted, restarted>>

\* The end of _handle_inbound_message or enqueue: buffered, or flushed.
MessagePassed ==
    /\ \/ OnPage("buffer") /\ Enqueue(Current)
       \/ OnPage("flush") /\ Running("poll") = {} /\ UNCHANGED buffer
    /\ IF Telegram THEN UpdateHandled(Current)
       ELSE NextOnPage /\ UNCHANGED <<cursor, unacked, acked, saved>>
    /\ UNCHANGED <<configVars, remoteVars, historyVars, rows, flushers, retry, parked, faults,
                   claims, service, interrupted, restarted>>

\* The flush a poll waits for fails: Telegram deletes the row and will fetch the
\* update again; PartyFlow gives up its claim and keeps the row.
PollFails ==
    /\ OnPage("flush") /\ Fault
    /\ \E f \in Running("poll") :
        /\ DeliveryTimesOut(f) \/ FlushRaises(f)
        /\ flushers' = flushers \ {f}
    /\ poll' = Idle
    /\ IF Telegram
       THEN Release({Current}) /\ UNCHANGED <<claims, parked>>
       ELSE /\ claims' = claims \ {Current}
            /\ parked' = parked \union {Current}
            /\ UNCHANGED rows
    /\ UNCHANGED <<configVars, remoteVars, cursor, buffer, retry, service, interrupted, restarted>>

\* The page is done; PartyFlow now keeps the page's cursor.
EndPage ==
    /\ service = "polling" /\ poll.at = "next" /\ poll.page = <<>>
    /\ poll' = Idle
    /\ IF Telegram THEN UNCHANGED <<cursor, saved>>
       ELSE cursor' = poll.next /\ saved' = poll.next
    /\ UNCHANGED <<configVars, remoteVars, historyVars, rows, unacked, acked, buffer, flushers,
                   retry, parked, faults, claims, service, interrupted, restarted>>

PollStep ==
    \/ Fetch \/ TakeUpdate \/ ClaimEvent \/ StoreEvent \/ GiveClaimBack
    \/ MessagePassed \/ EndPage

-----------------------------------------------------------------------------
(* The life of the process. *)

\* start(): the offset is loaded and what the table holds is flushed first.
Start ==
    /\ service = "down"
    /\ service' = "starting"
    /\ cursor' = saved
    /\ flushers' = FlushersFor("start", SplitRestoreBatches(rows))
    /\ UNCHANGED <<configVars, remoteVars, historyVars, rows, saved, unacked, acked, buffer,
                   retry, parked, faults, claims, poll, interrupted, restarted>>

StartPolling ==
    /\ service = "starting" /\ Running("start") = {}
    /\ service' = "polling"
    /\ UNCHANGED <<configVars, remoteVars, coalescerVars, cursor, buffer, claims, poll,
                   interrupted, restarted>>

\* What a poll that is cut off leaves behind.
CutOff == IF poll.at \in {"store", "giveback"} /\ Wanted(Current)
          THEN interrupted \union {Current} ELSE interrupted

\* flush_all takes the batches in the order in which they were begun.
Pending ==
    LET begun == Those({Head(buffer[c]) : c \in {c \in Conversations : buffer[c] # <<>>}},
                       [m \in Messages |-> m])
    IN [i \in DOMAIN begun |-> buffer[Conversation[begun[i]]]]

\* stop(): the poll and the retry tasks are cancelled, the buffer is flushed
\* and the flushes in progress are awaited.
Stop ==
    /\ service = "polling" /\ Fault
    /\ service' = "stopping" /\ restarted' = TRUE
    /\ poll' = Idle /\ interrupted' = CutOff
    /\ flushers' = (flushers \ (Running("poll") \union Running("retry")))
           \union FlushersFor("stop", Pending)
    /\ buffer' = EmptyBuffer /\ retry' = EmptyBuffer
    /\ UNCHANGED <<configVars, remoteVars, historyVars, rows, saved, cursor, unacked, acked,
                   parked, claims>>

\* The end of the process, after stop() or by a crash: the memory is lost.
ProcessEnds ==
    /\ service' = "down" /\ restarted' = TRUE
    /\ poll' = Idle /\ interrupted' = CutOff
    /\ cursor' = 1 /\ unacked' = <<>> /\ acked' = {} /\ parked' = {}
    /\ buffer' = EmptyBuffer /\ flushers' = {} /\ retry' = EmptyBuffer
    /\ UNCHANGED <<configVars, remoteVars, historyVars, rows, saved, claims>>

Stopped == service = "stopping" /\ flushers = {} /\ ProcessEnds /\ UNCHANGED faults
Crash == service # "down" /\ Fault /\ ProcessEnds

\* The stop event ends PartyFlow's retry tasks before they act.
MayRetry == Telegram \/ service \in {"starting", "polling"}

BackgroundStep ==
    /\ \/ FlushStep /\ UNCHANGED buffer
       \/ \E c \in Conversations : FlushAfterDelay(c)
       \/ \E c \in Conversations : MayRetry /\ RetryAfterDelay(c) /\ UNCHANGED buffer
    /\ UNCHANGED <<configVars, remoteVars, cursor, claims, service, poll, interrupted, restarted>>

HandledFailure ==
    /\ \E f \in flushers : FlushFails(f)
    /\ UNCHANGED <<configVars, remoteVars, cursor, buffer, claims, service, poll,
                   interrupted, restarted>>

Next ==
    \/ Send \/ PollStep \/ PollFails \/ StoreRaises
    \/ Start \/ StartPolling \/ Stop \/ Stopped \/ Crash
    \/ BackgroundStep \/ HandledFailure

Spec == Init /\ [][Next]_vars

\* The event loop runs every task that can run, and the daemon is started again
\* after it went down.  Errors, stops and crashes need not happen.
FairSpec ==
    /\ Spec
    /\ WF_vars(PollStep)
    /\ WF_vars(BackgroundStep)
    /\ WF_vars(Start) /\ WF_vars(StartPolling) /\ WF_vars(Stopped)

-----------------------------------------------------------------------------
(* Correctness. *)

TypeOK ==
    /\ rows \in Seq(Messages) /\ IsInjective(rows)
    /\ saved \in 1..(sent + 1) /\ cursor \in 1..(sent + 1) /\ forgotten \in 1..(sent + 1)
    /\ IsInjective(unacked) /\ acked \subseteq Range(unacked)
    /\ \A f \in flushers : f.left # <<>> /\ f.at \in {"turn", "deliver", "ack", "release"}
    /\ \A c \in Conversations : \A m \in Range(buffer[c]) \union Range(retry[c]) :
           Conversation[m] = c
    /\ settled \union parked \union interrupted \subseteq {m \in 1..sent : Wanted(m)}

\* No message is lost.  The next process will not be given it again: the saved
\* position is past it, the remote service has forgotten it, or it is claimed.
\* Then it has been answered, or its row is in the table; the one exception is
\* an event whose claim was committed and whose poll ended before the row was.
GivenAgain(m) == m >= saved /\ m >= forgotten /\ m \notin claims
InHand(m) == poll.at \in {"store", "giveback"} /\ m = Current

NoMessageLost == \A m \in 1..sent :
    Wanted(m) /\ ~GivenAgain(m) =>
        \/ m \in settled \/ Contains(rows, m)
        \/ InHand(m) \/ m \in interrupted

\* Nothing is repeated without need.  While the process lives, a message is part
\* of one turn only: the debounce, the retries and the repeated polls never put it
\* into a second batch, save that a retry cuts a batch that has outgrown the limits
\* (in messages or in characters).  And without any failure nobody gets a second
\* reply.
NoNeedlessRepeat ==
    /\ \A b1, b2 \in turns :
         b1 # b2 /\ Range(b1) \intersect Range(b2) # {} =>
             restarted \/ ~Fits(b1, Limits) \/ ~Fits(b2, Limits)
    /\ \A m \in Messages : replies[m] > 1 => faults > 0

\* PartyFlow reads no further than an event without readable payload: its poll
\* fails there each time, and the next one begins with the same event.
Blocked(m) == ~Telegram /\ \E e \in 1..(m - 1) : kind[e] = "malformed"

\* Every message is answered, or a flush of it failed and no task repeats it
\* before the next start; the only messages that get neither are one whose claim
\* outlived its poll, and those of PartyFlow behind an event that cannot be read.
AnsweredOrParked == \A m \in Messages :
    m <= sent /\ Wanted(m) /\ ~Blocked(m)
        ~> m \in settled \union parked \union interrupted
=============================================================================
