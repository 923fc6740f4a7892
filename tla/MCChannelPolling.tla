-------------------------- MODULE MCChannelPolling --------------------------
(* Instances of ChannelPolling for TLC. *)
EXTENDS ChannelPolling

\* Messages 2 and 3 belong to one conversation, 1 to another.
TwoConversations == [m \in Messages |-> IF m > 1 THEN "a" ELSE "b"]

LongTexts == [m \in Messages |-> 200]

Endpoint(transport, batching, size, chars) ==
    [transport |-> transport, batching |-> batching,
     maxBatchSize |-> size, maxBufferChars |-> chars]

\* Both transports, with and without batching.  Two messages fit into one batch,
\* or are too many, or too long.
AllEndpoints ==
    {Endpoint(t, FALSE, 20, 12000) : t \in {"telegram", "partyflow"}}
    \union {Endpoint(t, TRUE, 2, 512) : t \in {"telegram", "partyflow"}}
    \union {Endpoint("partyflow", TRUE, 1, 512), Endpoint("partyflow", TRUE, 2, 256)}

\* The first message is dropped by the access policy, so that one conversation
\* has two messages for the agent, or the second cannot be read, so that one is
\* before it and one behind it.
OneNotForTheAgent ==
    {[m \in Messages |-> IF m = 1 THEN "denied" ELSE "message"],
     [m \in Messages |-> IF m = 2 THEN "malformed" ELSE "message"]}
=============================================================================
