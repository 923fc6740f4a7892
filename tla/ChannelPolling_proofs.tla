----------------------- MODULE ChannelPolling_proofs -----------------------
(***************************************************************************)
(* Proofs about ChannelPolling, for every number of messages, any limits   *)
(* of batches and any number of faults: what kind of values the state      *)
(* holds, that no message is lost, and that none is repeated without need. *)
(*                                                                         *)
(* A message is safe while the remote service will give it again, and      *)
(* later because its row is in the table or it is settled.  Nothing in the *)
(* code relates the saved position to the rows directly: the position      *)
(* moves over an acknowledged prefix of the updates, which batches,        *)
(* retries, stops and crashes acknowledge in any order.  The argument is   *)
(* one of order.  Whatever the process knows of (the rows, what it buffers *)
(* and flushes, what it has acknowledged) came before every message that   *)
(* neither the process nor the table knows, so that no position computed   *)
(* from known messages can pass an unknown one.                            *)
(*                                                                         *)
(* That nothing is repeated is an argument about batches.  The poll hands  *)
(* a message out once: what anybody has is below the cursor (Telegram) or  *)
(* claimed (PartyFlow).  From there it is in what sleeps or in a batch,    *)
(* never in both, and two batches share a message only if a retry cut one  *)
(* out of the other. Without a fault there is neither a retry nor a stop,  *)
(* so that the message is in one flush, whose delivery is its first reply. *)
(***************************************************************************)
EXTENDS ChannelPolling, FiniteSetTheorems, SequenceTheorems, WellFoundedInduction, TLAPS

-----------------------------------------------------------------------------
(* What is known of every state: the types *)

\* The messages the agent is to answer.
Arrived == {m \in 1..sent : Wanted(m)}

Sequence(b) == b \in Seq(Arrived) /\ IsInjective(b)
BatchOf(b, c) == Sequence(b) /\ \A i \in DOMAIN b : Conversation[b[i]] = c
Tidy(b) == b # <<>> /\ \E c \in Conversations : BatchOf(b, c)
Batches == {b \in Seq(Arrived) : Tidy(b)}

\* The message the poll takes next.
Position == poll.next - Len(poll.page)

Numbers ==
    /\ endpoint \in Endpoints
    /\ sent \in 0..Cardinality(Messages)
    /\ saved \in 1..(sent + 1) /\ cursor \in 1..(sent + 1) /\ forgotten \in 1..(sent + 1)
    /\ claims \subseteq 1..sent
    /\ settled \subseteq Arrived /\ parked \subseteq Arrived /\ interrupted \subseteq Arrived

Sequences ==
    /\ Sequence(rows)
    /\ unacked \in Seq(1..sent) /\ IsInjective(unacked) /\ acked \subseteq Range(unacked)
    /\ buffer = [c \in Conversations |-> buffer[c]]
    /\ retry = [c \in Conversations |-> retry[c]]
    /\ \A c \in Conversations : BatchOf(buffer[c], c) /\ BatchOf(retry[c], c)

FlusherOK(f) ==
    /\ f = [by |-> f.by, left |-> f.left, at |-> f.at]
    /\ f.left \in Seq(Batches) /\ f.left # <<>>
    /\ f.at \in {"turn", "deliver", "ack", "release"}
    /\ f.at \in {"ack", "release"} => Range(Batch(f)) \subseteq settled
    /\ f.at = "ack" => Telegram
    /\ f.by = "poll" => poll.at = "flush" /\ f.left = <<<<Current>>>>

\* The flush a poll waits for is about the message it has taken.
Flushes ==
    /\ \A f \in flushers : FlusherOK(f)
    /\ \A f, g \in Running("poll") : f = g

Page ==
    /\ poll \in [at : {"idle", "next", "store", "giveback", "buffer", "flush"},
                 page : Seq(1..sent), next : 1..(sent + 1)]
    /\ \A i \in 1..Len(poll.page) : poll.page[i] = Position + i - 1
    /\ poll.at # "idle" => service = "polling"
    /\ poll.at \in {"store", "giveback", "buffer", "flush"} => poll.page # <<>>
    /\ poll.at \in {"store", "buffer", "flush"} => Wanted(Current)
    /\ poll.at \in {"store", "giveback"} => ~Telegram
    /\ poll.at = "buffer" => endpoint.batching
    /\ poll.at = "flush" => ~endpoint.batching

\* A message joins a batch once: the poll is past what sleeps in the buffer, or
\* has claimed it, and what it has in hand is another one.
Passed(b) ==
    /\ IF Telegram THEN b < cursor ELSE b \in claims
    /\ poll.at \in {"store", "giveback", "buffer"} => b # Current
Behind ==
    /\ \A c \in Conversations :
           /\ buffer[c] # <<>> => endpoint.batching /\ service = "polling"
           /\ \A b \in Range(buffer[c]) : Passed(b)
    /\ Telegram /\ poll.at # "idle" => cursor <= Position
    /\ ~Telegram /\ poll.at \notin {"idle", "next"} => Current \in claims

Types == Numbers /\ Sequences /\ Flushes /\ Page /\ Behind

-----------------------------------------------------------------------------
(* What is known of every state: the order in which messages become known *)

\* Neither settled nor in the table, nor given up by a poll that was cut off.
Unknown == {u \in Arrived : u \notin settled \union Range(rows) \union interrupted}

\* What the process holds of messages whose flush no poll waits for.
InFlush(f) == UNION {Range(f.left[i]) : i \in DOMAIN f.left}
Kept(c) == Range(buffer[c]) \union Range(retry[c])
AllKept == UNION {Kept(c) : c \in Conversations}
Unawaited == {f \in flushers : f.by # "poll"}
AllInFlush == UNION {InFlush(f) : f \in Unawaited}
Held == AllKept \union AllInFlush

Before(S, u) == \A x \in S : x < u

\* The remote service will give the message again.
Given(u) ==
    /\ saved <= u /\ forgotten <= u /\ cursor <= u
    /\ poll.at # "idle" => Position <= u

Untaken(u) ==
    /\ Given(u)
    /\ u \in claims => InHand(u)
    /\ Telegram => Before(Range(rows) \union Held \union acked, u)

\* The message the poll has stored: if its flush fails, it becomes unknown again.
Taking ==
    /\ poll.at \in {"buffer", "flush"} => Current \in Range(rows) \union settled
    /\ Telegram /\ poll.at = "flush" /\ Current \notin settled =>
           Given(Current) /\ Before((Range(rows) \ {Current}) \union Held \union acked, Current)

\* Whatever is known came before everything that is not.
KnownFirst ==
    /\ \A u \in Unknown : Untaken(u)
    /\ Taking
    /\ Telegram => claims = {} /\ interrupted = {}

-----------------------------------------------------------------------------
(* What is known of every state: which batches may share a message *)

\* The batches that a turn was or may be taken for, other than what sleeps.
InFlight == UNION {Range(f.left) : f \in flushers}
Retried == {retry[c] : c \in Conversations} \ {<<>>}
Made == turns \union InFlight \union Retried

Meet(b, d) == \E m \in Range(b) : m \in Range(d)

\* A retry cuts a batch that has outgrown the limits.
PieceOf(d, b) == ~Fits(b, Limits) /\ d \in Range(Cut(b, Limits))
MayMeet(b, d) == b = d \/ PieceOf(b, d) \/ PieceOf(d, b)

\* As long as the process lives, what sleeps is in no batch, and two batches
\* that share a message are the same, or one is a piece of the other.
Apart ==
    /\ turns \subseteq Batches
    /\ ~restarted /\ ~endpoint.batching => \A b \in Made : Len(b) = 1
    /\ ~restarted /\ endpoint.batching => \A b, d \in Made : Meet(b, d) => MayMeet(b, d)
    /\ ~restarted => \A c \in Conversations : \A b \in Made : ~Meet(buffer[c], b)

\* A process that is down has nothing, and before the first start neither has
\* the table.
AtRest ==
    service = "down" =>
        /\ flushers = {} /\ \A c \in Conversations : retry[c] = <<>>
        /\ ~restarted => rows = <<>> /\ turns = {} /\ \A m \in Messages : replies[m] = 0

\* The poll hands a message out once, unless the flush it waits for fails.
Seen(m) ==
    \/ \E b \in Made : m \in Range(b)
    \/ \E c \in Conversations : m \in Range(buffer[c])
    \/ replies[m] > 0
Undisturbed == ~restarted /\ (endpoint.batching \/ faults = 0)
HandedOnce ==
    /\ poll.at \in {"store", "giveback", "buffer"} => ~Seen(Current)
    /\ \A m \in Messages : Seen(m) =>
           IF Telegram THEN m < cursor \/ (poll.at = "flush" /\ m = Current)
           ELSE m \in claims

\* Without a fault a message is in one flush, and has no reply before its delivery.
Single(f) ==
    /\ f.left = <<Batch(f)>>
    /\ f.at \in {"turn", "deliver"} => \A m \in Range(Batch(f)) : replies[m] = 0
RepliedOnce ==
    /\ ~restarted /\ service # "stopping"
    /\ \A c \in Conversations : retry[c] = <<>>
    /\ \A f \in flushers : Single(f)
    /\ \A f, g \in flushers : f = g \/ ~Meet(Batch(f), Batch(g))
    /\ \A c \in Conversations : \A m \in Range(buffer[c]) : replies[m] = 0
    /\ \A m \in Messages : replies[m] <= 1

Counted == replies \in [Messages -> 0..2] /\ faults \in Nat

Unrepeated ==
    /\ Counted /\ AtRest /\ Apart
    /\ Undisturbed => HandedOnce
    /\ faults = 0 => RepliedOnce

-----------------------------------------------------------------------------
(* Recursion over sequences *)

\* Induction over the natural numbers, for a set instead of a predicate.
LEMMA NatSetInduction ==
    ASSUME NEW S, 0 \in S, \A i \in Nat : i \in S => i + 1 \in S
    PROVE  Nat \subseteq S
<1> SUFFICES ASSUME Nat \ S # {} PROVE FALSE
  OBVIOUS
<1> DEFINE R == OpToRel(<, Nat)
<1>1. \A i, j \in Nat : i < j => <<i, j>> \in R
  BY DEF OpToRel
<1>2. IsWellFoundedOn(R, Nat)
  BY NatLessThanWellFounded
<1> HIDE DEF R
<1>3. \E i \in Nat \ S : \A j \in Nat \ S : ~(<<j, i>> \in R)
  BY <1>2, WFMin
<1>4. PICK i \in Nat \ S : \A j \in Nat \ S : ~(j < i)
  BY <1>1, <1>3
<1>5. i # 0 /\ i - 1 \in Nat /\ (i - 1) + 1 = i
  BY <1>4
<1>6. i - 1 \in S
  BY <1>4, <1>5
<1> QED
  BY <1>4, <1>5, <1>6

\* The values of a recursion over 1..n, each of whose steps is a function.
Steps(p, n, V, a, F) ==
    p \in [0..n -> V] /\ p[0] = a /\ \A i \in 1..n : p[i] = F[i][p[i - 1]]

LEMMA Recursion ==
    ASSUME NEW n \in Nat, NEW V, NEW a \in V, NEW F \in [1..n -> [V -> V]]
    PROVE  \E p : Steps(p, n, V, a, F)
<1> DEFINE Upto(k, p) == p \in [0..k -> V] /\ p[0] = a /\ \A i \in 1..k : p[i] = F[i][p[i - 1]]
           T == {k \in Nat : k <= n => \E p : Upto(k, p)}
<1>1. 0 \in T
  <2>1. Upto(0, [i \in 0..0 |-> a])
    OBVIOUS
  <2> QED
    BY <2>1
<1>2. ASSUME NEW k \in Nat, k \in T PROVE k + 1 \in T
  <2> SUFFICES ASSUME k + 1 <= n PROVE \E p : Upto(k + 1, p)
    OBVIOUS
  <2>1. PICK p : Upto(k, p)
    BY <1>2
  <2> DEFINE h == [i \in 0..(k + 1) |-> IF i = k + 1 THEN F[k + 1][p[k]] ELSE p[i]]
  <2>2. F[k + 1] \in [V -> V] /\ p[k] \in V
    BY <2>1
  <2>3. h \in [0..(k + 1) -> V]
    BY <2>1, <2>2
  <2>4. h[0] = a
    BY <2>1
  <2>5. \A i \in 1..(k + 1) : h[i] = F[i][h[i - 1]]
    <3> TAKE i \in 1..(k + 1)
    <3>1. CASE i = k + 1
      BY <3>1
    <3>2. CASE i # k + 1
      BY <2>1, <3>2
    <3> QED
      BY <3>1, <3>2
  <2> HIDE DEF h
  <2> QED
    BY <2>3, <2>4, <2>5
<1> HIDE DEF T
<1>3. Nat \subseteq T
  BY <1>1, <1>2, NatSetInduction
<1> QED
  BY <1>3 DEF T, Steps

\* The function by which Those filters a sequence: one step for each element.
FiltersBy(those, S, ms) ==
    /\ those[0] = <<>>
    /\ \A i \in Nat : i + 1 <= Len(ms) =>
         those[i + 1] = IF ms[i + 1] \in S THEN Append(those[i], ms[i + 1]) ELSE those[i]

LEMMA ThoseSteps ==
    ASSUME NEW S, NEW T, NEW ms \in Seq(T)
    PROVE  \E those : Those(S, ms) = those[Len(ms)] /\ FiltersBy(those, S, ms)
<1> DEFINE n == Len(ms)
           V == Seq(T)
           Def(p) == [i \in 0..n |-> IF i = 0 THEN <<>>
                                     ELSE IF ms[i] \in S THEN Append(p[i - 1], ms[i]) ELSE p[i - 1]]
           those == CHOOSE p : p = Def(p)
<1>1. Those(S, ms) = those[n]
  BY DEF Those
<1>2. n \in Nat /\ DOMAIN ms = 1..n /\ \A i \in 1..n : ms[i] \in T
  BY LenProperties, ElementOfSeq
<1> HIDE DEF n
<1>3. \E p : p = Def(p)
  <2> DEFINE F == [i \in 1..n |-> [s \in V |-> IF ms[i] \in S THEN Append(s, ms[i]) ELSE s]]
  <2>1. F \in [1..n -> [V -> V]] /\ <<>> \in V
    BY <1>2
  <2>2. \A i \in 1..n, s \in V : F[i][s] = IF ms[i] \in S THEN Append(s, ms[i]) ELSE s
    OBVIOUS
  <2> HIDE DEF F, V
  <2>3. PICK p \in [0..n -> V] : p[0] = <<>> /\ \A i \in 1..n : p[i] = F[i][p[i - 1]]
    <3> DEFINE a == <<>>
    <3>1. n \in Nat /\ a \in V /\ F \in [1..n -> [V -> V]]
      BY <1>2, <2>1
    <3> HIDE DEF a
    <3>2. \E p : Steps(p, n, V, a, F)
      BY <3>1, Recursion
    <3> QED
      BY <3>2 DEF a, Steps
  <2>4. \A i \in 0..n : p[i] = IF i = 0 THEN <<>>
                               ELSE IF ms[i] \in S THEN Append(p[i - 1], ms[i]) ELSE p[i - 1]
    <3> TAKE i \in 0..n
    <3>1. CASE i = 0
      BY <2>3, <3>1
    <3>2. CASE i # 0
      <4>1. i \in 1..n /\ i - 1 \in 0..n /\ p[i - 1] \in V
        BY <1>2, <2>3, <3>2
      <4> QED
        BY <2>2, <2>3, <3>2, <4>1
    <3> QED
      BY <3>1, <3>2
  <2>5. p = Def(p)
    BY <2>3, <2>4
  <2> QED
    BY <2>5
<1>4. those = Def(those)
  BY <1>3
<1> HIDE DEF those
<1>5. /\ those[0] = <<>>
      /\ \A i \in Nat : i + 1 <= n =>
           those[i + 1] = IF ms[i + 1] \in S THEN Append(those[i], ms[i + 1]) ELSE those[i]
  <2>1. \A i \in 0..n : those[i] = Def(those)[i]
    BY <1>4
  <2>2. 0 \in 0..n /\ \A i \in Nat : i + 1 <= n => i + 1 \in 0..n /\ i + 1 # 0 /\ (i + 1) - 1 = i
    BY <1>2
  <2> QED
    BY <2>1, <2>2
<1> QED
  BY <1>1, <1>5 DEF n, FiltersBy

\* Nothing is left out where everything is in the set.
LEMMA ThoseAll ==
    ASSUME NEW S, NEW T \in SUBSET S, NEW ms \in Seq(T)
    PROVE  Those(S, ms) = ms
<1> DEFINE n == Len(ms)
<1>1. n \in Nat /\ DOMAIN ms = 1..n /\ \A i \in 1..n : ms[i] \in S
  BY LenProperties, ElementOfSeq
<1>2. PICK those : Those(S, ms) = those[n] /\ FiltersBy(those, S, ms)
  BY ThoseSteps
<1> HIDE DEF n
<1> DEFINE K == {i \in Nat : i <= n => those[i] = SubSeq(ms, 1, i)}
<1>3. 0 \in K
  <2>1. SubSeq(ms, 1, 0) = <<>>
    BY SubSeqProperties
  <2>2. those[0] = <<>>
    BY <1>2 DEF FiltersBy
  <2> QED
    BY <2>1, <2>2
<1>4. ASSUME NEW i \in Nat, i \in K PROVE i + 1 \in K
  <2> SUFFICES ASSUME i + 1 <= n PROVE those[i + 1] = SubSeq(ms, 1, i + 1)
    OBVIOUS
  <2>1. i + 1 \in 1..n /\ those[i] = SubSeq(ms, 1, i)
    BY <1>1, <1>4
  <2>2. those[i + 1] = Append(SubSeq(ms, 1, i), ms[i + 1])
    BY <1>1, <1>2, <2>1 DEF FiltersBy, n
  <2>3. SubSeq(ms, 1, i + 1) = Append(SubSeq(ms, 1, i), ms[i + 1])
    BY <1>1, <2>1 DEF n
  <2> QED
    BY <2>2, <2>3
<1>5. n \in K
  <2> HIDE DEF K
  <2> QED
    BY <1>1, <1>3, <1>4, NatSetInduction
<1>6. SubSeq(ms, 1, n) = ms
  BY <1>1 DEF n
<1> QED
  BY <1>1, <1>2, <1>5, <1>6

\* What Those returns.
LEMMA ThoseOf ==
    ASSUME NEW S, NEW T, NEW ms \in Seq(T)
    PROVE  /\ Those(S, ms) \in Seq(T \cap S)
           /\ \A x : Contains(Those(S, ms), x) <=> Contains(ms, x) /\ x \in S
           /\ IsInjective(ms) => IsInjective(Those(S, ms))
<1> DEFINE n == Len(ms)
<1>2. n \in Nat /\ DOMAIN ms = 1..n /\ \A i \in 1..n : ms[i] \in T
  BY LenProperties, ElementOfSeq
<1>3. PICK those : Those(S, ms) = those[n] /\ FiltersBy(those, S, ms)
  BY ThoseSteps
<1>1. Those(S, ms) = those[n]
  BY <1>3
<1>5. /\ those[0] = <<>>
      /\ \A i \in Nat : i + 1 <= n =>
           those[i + 1] = IF ms[i + 1] \in S THEN Append(those[i], ms[i + 1]) ELSE those[i]
  BY <1>3 DEF FiltersBy
<1> HIDE DEF n
<1> DEFINE Inv(i, s) == /\ s \in Seq(T \cap S)
                        /\ \A k \in 1..Len(s) : \E j \in 1..i : s[k] = ms[j]
                        /\ \A j \in 1..i : ms[j] \in S => \E k \in 1..Len(s) : s[k] = ms[j]
                        /\ IsInjective(ms) => IsInjective(s)
           K == {i \in Nat : i <= n => Inv(i, those[i])}
<1>6. 0 \in K
  <2>1. <<>> \in Seq(T \cap S) /\ Len(<<>>) = 0 /\ IsInjective(<<>>)
    BY EmptySeq DEF IsInjective
  <2>2. Inv(0, <<>>)
    BY <2>1
  <2> HIDE DEF Inv
  <2> QED
    BY <1>5, <2>2
<1>7. ASSUME NEW i \in Nat, i \in K PROVE i + 1 \in K
  <2> SUFFICES ASSUME i + 1 <= n PROVE Inv(i + 1, those[i + 1])
    OBVIOUS
  <2> DEFINE s == those[i]
  <2>1. Inv(i, s)
    BY <1>2, <1>7
  <2>2. i + 1 \in 1..n /\ ms[i + 1] \in T
    BY <1>2
  <2>3. those[i + 1] = IF ms[i + 1] \in S THEN Append(s, ms[i + 1]) ELSE s
    BY <1>5
  <2> HIDE DEF s
  <2>4. CASE ms[i + 1] \notin S
    BY <2>1, <2>3, <2>4
  <2>5. CASE ms[i + 1] \in S
    <3> DEFINE r == Append(s, ms[i + 1])
    <3>1. Len(s) \in Nat /\ DOMAIN s = 1..Len(s)
      BY <2>1, LenProperties
    <3>2. /\ r \in Seq(T \cap S) /\ Len(r) = Len(s) + 1
          /\ \A k \in 1..(Len(s) + 1) : r[k] = IF k = Len(s) + 1 THEN ms[i + 1] ELSE s[k]
      BY <2>1, <2>2, <2>5
    <3> HIDE DEF r
    <3>3. \A k \in 1..Len(r) : \E j \in 1..(i + 1) : r[k] = ms[j]
      BY <2>1, <3>1, <3>2
    <3>4. \A j \in 1..(i + 1) : ms[j] \in S => \E k \in 1..Len(r) : r[k] = ms[j]
      <4> TAKE j \in 1..(i + 1)
      <4> HAVE ms[j] \in S
      <4>1. CASE j = i + 1
        BY <3>1, <3>2, <4>1
      <4>2. CASE j # i + 1
        <5>1. j \in 1..i
          BY <4>2
        <5>2. PICK k \in 1..Len(s) : s[k] = ms[j]
          BY <2>1, <5>1
        <5> QED
          BY <3>1, <3>2, <5>2
      <4> QED
        BY <4>1, <4>2
    <3>5. IsInjective(ms) => IsInjective(r)
      <4> SUFFICES ASSUME IsInjective(ms), NEW k \in 1..Len(r), NEW l \in 1..Len(r),
                          r[k] = r[l], k < l
                   PROVE  FALSE
        <5>1. DOMAIN r = 1..Len(r) /\ Len(r) \in Nat
          BY <3>2, LenProperties
        <5> QED
          BY <5>1 DEF IsInjective
      <4>1. k \in 1..Len(s) /\ r[k] = s[k]
        BY <3>1, <3>2
      <4>2. PICK j \in 1..i : s[k] = ms[j]
        BY <2>1, <4>1
      <4>3. CASE l = Len(s) + 1
        <5>1. r[l] = ms[i + 1]
          BY <3>1, <3>2, <4>3
        <5>2. ms[j] = ms[i + 1]
          BY <4>1, <4>2, <5>1
        <5>4. j \in 1..n
          BY <1>2
        <5>3. j = i + 1
          BY <1>2, <2>2, <5>2, <5>4 DEF IsInjective
        <5> QED
          BY <5>3
      <4>4. CASE l # Len(s) + 1
        <5>1. l \in 1..Len(s) /\ r[l] = s[l]
          BY <3>1, <3>2, <4>4
        <5>2. IsInjective(s)
          BY <2>1
        <5>3. s[k] = s[l]
          BY <4>1, <5>1
        <5> QED
          BY <3>1, <4>1, <5>1, <5>2, <5>3 DEF IsInjective
      <4> QED
        BY <4>3, <4>4
    <3> QED
      BY <2>3, <2>5, <3>2, <3>3, <3>4, <3>5 DEF r
  <2> QED
    BY <2>4, <2>5
<1> HIDE DEF K
<1>8. Nat \subseteq K
  BY <1>6, <1>7, NatSetInduction
<1>9. Inv(n, those[n])
  <2>1. n \in K /\ n <= n
    BY <1>2, <1>8
  <2> HIDE DEF Inv
  <2> QED
    BY <2>1 DEF K
<1> DEFINE s == those[n]
<1> HIDE DEF s
<1>10. s = Those(S, ms) /\ Inv(n, s)
  BY <1>1, <1>9 DEF s
<1>11. ASSUME NEW x, Contains(s, x) PROVE Contains(ms, x) /\ x \in S
  <2>1. PICK k \in 1..Len(s) : s[k] = x
    BY <1>11 DEF Contains
  <2>2. PICK j \in 1..n : s[k] = ms[j]
    BY <1>10
  <2>3. s[k] \in T \cap S
    <3>1. s \in Seq(T \cap S)
      BY <1>10
    <3> QED
      BY <3>1, ElementOfSeq
  <2> QED
    BY <2>1, <2>2, <2>3 DEF Contains, n
<1>12. ASSUME NEW x, Contains(ms, x), x \in S PROVE Contains(s, x)
  <2>1. PICK j \in 1..n : ms[j] = x
    BY <1>12 DEF Contains, n
  <2>2. PICK k \in 1..Len(s) : s[k] = ms[j]
    BY <1>10, <1>12, <2>1
  <2> QED
    BY <2>1, <2>2 DEF Contains
<1> QED
  BY <1>10, <1>11, <1>12

\* The concatenations of the first elements of g.
PartsJoined(p, n, B, g) ==
    p \in [0..n -> Seq(B)] /\ p[0] = <<>> /\ \A i \in 1..n : p[i] = p[i - 1] \o g[i]

LEMMA Concatenation ==
    ASSUME NEW n \in Nat, NEW B, NEW g \in [1..n -> Seq(B)]
    PROVE  \E p : PartsJoined(p, n, B, g)
<1> DEFINE V == Seq(B)
           F == [i \in 1..n |-> [s \in V |-> s \o g[i]]]
           a == <<>>
<1>1. a \in V /\ F \in [1..n -> [V -> V]]
  OBVIOUS
<1>2. \A i \in 1..n, s \in V : F[i][s] = s \o g[i]
  OBVIOUS
<1> HIDE DEF V, F, a
<1>3. PICK p : Steps(p, n, V, a, F)
  BY <1>1, Recursion
<1>4. p \in [0..n -> V] /\ p[0] = a /\ \A i \in 1..n : p[i] = F[i][p[i - 1]]
  BY <1>3 DEF Steps
<1>5. \A i \in 1..n : p[i] = p[i - 1] \o g[i]
  <2> TAKE i \in 1..n
  <2>1. i - 1 \in 0..n
    OBVIOUS
  <2>2. p[i - 1] \in V
    BY <1>4, <2>1
  <2>3. p[i] = F[i][p[i - 1]]
    BY <1>4
  <2> QED
    BY <1>2, <2>1, <2>2, <2>3
<1> QED
  BY <1>4, <1>5 DEF V, a, PartsJoined

LEMMA FlattenOf ==
    ASSUME NEW B, NEW ss \in Seq(Seq(B))
    PROVE  /\ FlattenSeq(ss) \in Seq(B)
           /\ (\E i \in 1..Len(ss) : ss[i] # <<>>) => FlattenSeq(ss) # <<>>
<1> DEFINE n == Len(ss)
           V == Seq(B)
           Def(p) == [i \in 1..n |-> IF i = 1 THEN ss[i] ELSE p[i - 1] \o ss[i]]
           flatten == CHOOSE p : p = Def(p)
<1>1. n \in Nat /\ \A i \in 1..n : ss[i] \in V
  BY LenProperties, ElementOfSeq
<1> HIDE DEF n
<1>2. \E p \in [0..n -> V] : p[0] = <<>> /\ \A i \in 1..n : p[i] = p[i - 1] \o ss[i]
  <2> DEFINE g == [i \in 1..n |-> ss[i]]
  <2>1. g \in [1..n -> V] /\ \A i \in 1..n : g[i] = ss[i]
    BY <1>1
  <2> HIDE DEF g
  <2>2. PICK p : PartsJoined(p, n, B, g)
    BY <1>1, <2>1, Concatenation
  <2>3. \A i \in 1..n : p[i] = p[i - 1] \o ss[i]
    <3> TAKE i \in 1..n
    <3>1. p[i] = p[i - 1] \o g[i] /\ g[i] = ss[i]
      BY <2>1, <2>2 DEF PartsJoined
    <3> QED
      BY <3>1
  <2> QED
    BY <2>2, <2>3 DEF PartsJoined
<1>3. CASE n = 0
  BY <1>3, EmptySeq DEF FlattenSeq, n
<1>4. CASE n # 0
  <2>1. FlattenSeq(ss) = flatten[n]
    BY <1>4 DEF FlattenSeq, n
  <2>2. \E p : p = Def(p)
    <3>1. PICK p \in [0..n -> V] : p[0] = <<>> /\ \A i \in 1..n : p[i] = p[i - 1] \o ss[i]
      BY <1>2
    <3>2. \A i \in 1..n : p[i] = IF i = 1 THEN ss[i] ELSE p[i - 1] \o ss[i]
      <4> TAKE i \in 1..n
      <4>1. CASE i = 1
        <5>0. i - 1 = 0
          BY <4>1
        <5>1. p[0] = <<>> /\ p[i] = p[i - 1] \o ss[i]
          BY <3>1
        <5>2. <<>> \o ss[i] = ss[i]
          BY <1>1, ConcatEmptySeq
        <5> QED
          BY <4>1, <5>0, <5>1, <5>2
      <4>2. CASE i # 1
        BY <3>1, <4>2
      <4> QED
        BY <4>1, <4>2
    <3> DEFINE r == [i \in 1..n |-> p[i]]
    <3>3. \A i \in 1..n : r[i] = IF i = 1 THEN ss[i] ELSE r[i - 1] \o ss[i]
      BY <1>1, <3>2
    <3>4. r = Def(r)
      BY <3>3
    <3> QED
      BY <3>4
  <2>3. flatten = Def(flatten)
    BY <2>2
  <2> HIDE DEF flatten
  <2>4. /\ flatten[1] = ss[1]
        /\ \A i \in Nat \ {0} : i + 1 <= n => flatten[i + 1] = flatten[i] \o ss[i + 1]
    <3>1. \A i \in 1..n : flatten[i] = Def(flatten)[i]
      BY <2>3
    <3>2. 1 \in 1..n /\ \A i \in Nat \ {0} : i + 1 <= n => i + 1 \in 1..n /\ i + 1 # 1 /\ (i + 1) - 1 = i
      BY <1>1, <1>4
    <3> QED
      BY <3>1, <3>2
  <2> HIDE DEF Def
  <2> DEFINE Inv(i, s) == s \in V /\ ((\E j \in 1..i : ss[j] # <<>>) => s # <<>>)
             K == {i \in Nat : i + 1 <= n => Inv(i + 1, flatten[i + 1])}
  <2>5. 0 \in K
    <3>1. Inv(1, ss[1])
      BY <1>1, <1>4
    <3> HIDE DEF Inv
    <3> QED
      BY <2>4, <3>1
  <2>6. ASSUME NEW i \in Nat, i \in K PROVE i + 1 \in K
    <3> SUFFICES ASSUME (i + 1) + 1 <= n PROVE Inv((i + 1) + 1, flatten[(i + 1) + 1])
      OBVIOUS
    <3> DEFINE k == i + 1
    <3>1. k \in Nat \ {0} /\ k + 1 <= n /\ k + 1 \in 1..n
      BY <1>1
    <3>2. Inv(k, flatten[k])
      BY <2>6, <1>1
    <3> HIDE DEF k
    <3>3. flatten[k + 1] = flatten[k] \o ss[k + 1]
      BY <2>4, <3>1
    <3> DEFINE s == flatten[k]
               t == ss[k + 1]
    <3>4. s \in Seq(B) /\ t \in Seq(B)
      BY <1>1, <3>1, <3>2
    <3> HIDE DEF s, t
    <3>5. s \o t \in Seq(B) /\ (s \o t = <<>> <=> s = <<>> /\ t = <<>>)
      BY <3>4, ConcatProperties, ConcatEqualIffEmpty
    <3>6. Inv(k + 1, s \o t)
      BY <3>1, <3>2, <3>5 DEF s, t
    <3> QED
      BY <3>3, <3>6 DEF k, s, t
  <2> HIDE DEF K
  <2>7. Nat \subseteq K
    BY <2>5, <2>6, NatSetInduction
  <2>8. Inv(n, flatten[n])
    <3>1. n - 1 \in K /\ (n - 1) + 1 = n /\ n <= n
      BY <1>1, <1>4, <2>7
    <3> HIDE DEF Inv
    <3> QED
      BY <3>1 DEF K
  <2> QED
    BY <2>1, <2>8 DEF n
<1> QED
  BY <1>3, <1>4

\* The number of characters of a sequence, message by message.
Counts(p, ms) ==
    /\ p \in [0..Len(ms) -> Nat] /\ p[0] = 0
    /\ \A i \in 1..Len(ms) : p[i] = p[i - 1] + TextLength[ms[i]]

LEMMA CharsSteps ==
    ASSUME NEW ms \in Seq(Messages)
    PROVE  \E p : Counts(p, ms) /\ Chars(ms) = p[Len(ms)]
<1> DEFINE n == Len(ms)
           Def(p) == [i \in 0..n |-> IF i = 0 THEN 0 ELSE p[i - 1] + TextLength[ms[i]]]
           upTo == CHOOSE p : p = Def(p)
<1>1. Chars(ms) = upTo[n]
  BY DEF Chars
<1>2. n \in Nat /\ \A i \in 1..n : TextLength[ms[i]] \in Nat
  BY LenProperties, ElementOfSeq, TextAssumption DEF TextAssumption
<1> DEFINE F == [i \in 1..n |-> [s \in Nat |-> s + TextLength[ms[i]]]]
           a == 0
<1> HIDE DEF n
<1>3. a \in Nat /\ F \in [1..n -> [Nat -> Nat]] /\ \A i \in 1..n, s \in Nat : F[i][s] = s + TextLength[ms[i]]
  BY <1>2
<1> HIDE DEF F, a
<1>4. PICK p : Steps(p, n, Nat, a, F)
  BY <1>2, <1>3, Recursion
<1>5. p \in [0..n -> Nat] /\ p[0] = 0 /\ \A i \in 1..n : p[i] = F[i][p[i - 1]]
  BY <1>4 DEF Steps, a
<1>6. \A i \in 1..n : p[i] = p[i - 1] + TextLength[ms[i]]
  <2> TAKE i \in 1..n
  <2>1. i - 1 \in 0..n
    BY <1>2
  <2>2. p[i - 1] \in Nat
    BY <1>5, <2>1
  <2> QED
    BY <1>3, <1>5, <2>2
<1>7. p = Def(p)
  <2>1. \A i \in 0..n : p[i] = IF i = 0 THEN 0 ELSE p[i - 1] + TextLength[ms[i]]
    BY <1>2, <1>5, <1>6
  <2> QED
    BY <1>5, <2>1
<1>8. upTo = Def(upTo)
  BY <1>7
<1> HIDE DEF upTo
<1>9. upTo[0] = 0 /\ \A i \in 1..n : upTo[i] = upTo[i - 1] + TextLength[ms[i]]
  <2>1. \A i \in 0..n : upTo[i] = Def(upTo)[i]
    BY <1>8
  <2> QED
    BY <1>2, <2>1
<1> HIDE DEF Def
<1> DEFINE K == {i \in Nat : i <= n => upTo[i] = p[i]}
<1>10. 0 \in K
  BY <1>5, <1>9
<1>11. ASSUME NEW i \in Nat, i \in K PROVE i + 1 \in K
  <2> SUFFICES ASSUME i + 1 <= n PROVE upTo[i + 1] = p[i + 1]
    OBVIOUS
  <2>1. i + 1 \in 1..n /\ (i + 1) - 1 = i /\ i <= n
    BY <1>2
  <2>2. upTo[i] = p[i]
    BY <1>11, <2>1
  <2> QED
    BY <1>6, <1>9, <2>1, <2>2
<1> HIDE DEF K
<1>12. n \in K
  BY <1>2, <1>10, <1>11, NatSetInduction
<1>13. upTo[n] = p[n]
  BY <1>2, <1>12 DEF K
<1> QED
  BY <1>1, <1>5, <1>6, <1>13 DEF Counts, n

\* The first messages of a batch that fits fit as well.
LEMMA FitsPrefix ==
    ASSUME NEW ms \in Seq(Messages), NEW limits \in [size : Nat \ {0}, chars : Nat],
           Fits(ms, limits), NEW k \in 1..Len(ms)
    PROVE  Fits(SubSeq(ms, 1, k), limits)
<1> DEFINE n == Len(ms)
           s == SubSeq(ms, 1, k)
<1>1. n \in Nat /\ \A i \in 1..n : ms[i] \in Messages
  BY LenProperties, ElementOfSeq
<1>2. s \in Seq(Messages) /\ Len(s) = k /\ \A i \in 1..k : s[i] = ms[i]
  BY <1>1, SubSeqProperties
<1> HIDE DEF s
<1>3. PICK p : Counts(p, ms) /\ Chars(ms) = p[Len(ms)]
  BY CharsSteps
<1>4. PICK q : Counts(q, s) /\ Chars(s) = q[Len(s)]
  BY <1>2, CharsSteps
<1>5. /\ p \in [0..n -> Nat] /\ p[0] = 0
      /\ \A i \in 1..n : p[i] = p[i - 1] + TextLength[ms[i]] /\ TextLength[ms[i]] \in Nat
  BY <1>1, <1>3, TextAssumption DEF Counts, TextAssumption
<1>6. q[0] = 0 /\ \A i \in 1..k : q[i] = q[i - 1] + TextLength[ms[i]]
  BY <1>2, <1>4 DEF Counts
<1> HIDE DEF n
<1>7. k \in 1..n
  BY DEF n
<1> DEFINE K == {i \in Nat : i <= k => q[i] = p[i]}
           L == {i \in Nat : k + i <= n => p[k] <= p[k + i]}
<1>8. 0 \in K
  BY <1>5, <1>6
<1>9. ASSUME NEW i \in Nat, i \in K PROVE i + 1 \in K
  <2> SUFFICES ASSUME i + 1 <= k PROVE q[i + 1] = p[i + 1]
    OBVIOUS
  <2>1. i + 1 \in 1..k /\ i + 1 \in 1..n /\ (i + 1) - 1 = i /\ i <= k
    BY <1>1, <1>7
  <2>2. q[i] = p[i]
    BY <1>9, <2>1
  <2> QED
    BY <1>5, <1>6, <2>1, <2>2
<1>10. 0 \in L
  BY <1>1, <1>5, <1>7
<1>11. ASSUME NEW i \in Nat, i \in L PROVE i + 1 \in L
  <2> SUFFICES ASSUME k + (i + 1) <= n PROVE p[k] <= p[k + (i + 1)]
    OBVIOUS
  <2> DEFINE j == k + (i + 1)
  <2>1. j \in 1..n /\ j - 1 = k + i /\ k + i <= n /\ j - 1 \in 0..n /\ k \in 0..n
    BY <1>1, <1>7
  <2>2. p[k] <= p[j - 1] /\ p[j] = p[j - 1] + TextLength[ms[j]] /\ TextLength[ms[j]] \in Nat
    BY <1>5, <1>11, <2>1
  <2>3. p[k] \in Nat /\ p[j - 1] \in Nat
    BY <1>5, <2>1
  <2> HIDE DEF j
  <2>4. p[k] <= p[j]
    BY <2>2, <2>3
  <2> QED
    BY <2>4 DEF j
<1> HIDE DEF K, L
<1>12. Nat \subseteq K
  BY <1>8, <1>9, NatSetInduction
<1>20. Nat \subseteq L
  BY <1>10, <1>11, NatSetInduction
<1>21. k \in Nat /\ n - k \in Nat /\ k + (n - k) = n
  BY <1>1, <1>7
<1>13. q[k] = p[k] /\ p[k] <= p[n]
  <2>1. k \in K /\ n - k \in L
    BY <1>12, <1>20, <1>21
  <2> QED
    BY <1>1, <1>7, <1>21, <2>1 DEF K, L
<1>14. p[k] \in Nat /\ p[n] \in Nat
  BY <1>1, <1>5, <1>7
<1>15. Chars(s) <= Chars(ms) /\ Chars(s) \in Nat /\ Chars(ms) \in Nat
  BY <1>2, <1>3, <1>4, <1>13, <1>14 DEF n
<1>16. n <= limits.size /\ (n > 1 => Chars(ms) <= limits.chars)
  BY DEF Fits, n
<1>17. limits.size \in Nat /\ limits.chars \in Nat
  OBVIOUS
<1>18. k <= limits.size /\ (k > 1 => Chars(s) <= limits.chars)
  BY <1>1, <1>7, <1>15, <1>16, <1>17
<1> QED
  BY <1>2, <1>18 DEF Fits, s

\* A message alone fits.
LEMMA OneFits ==
    ASSUME NEW b, Len(b) = 1, NEW limits \in [size : Nat \ {0}, chars : Nat]
    PROVE  Fits(b, limits)
<1>1. limits.size >= 1
  OBVIOUS
<1> QED
  BY <1>1 DEF Fits

\* Where the part with each message begins, and which messages close a part.
Begins(from, ms, limits) ==
    /\ from \in [0..Len(ms) -> 0..Len(ms)]
    /\ \A i \in 1..Len(ms) :
         from[i] = IF i > 1 /\ Fits(SubSeq(ms, from[i - 1], i), limits) THEN from[i - 1] ELSE i
PartsBy(from, ms) ==
    [i \in DOMAIN ms |-> IF i = Len(ms) \/ from[i + 1] = i + 1
                         THEN <<SubSeq(ms, from[i], i)>> ELSE <<>>]

LEMMA CutSteps ==
    ASSUME NEW T, NEW ms \in Seq(T), NEW limits
    PROVE  \E from : Begins(from, ms, limits) /\ Cut(ms, limits) = FlattenSeq(PartsBy(from, ms))
<1> DEFINE n == Len(ms)
           Step(i, s) == IF i > 1 /\ Fits(SubSeq(ms, s, i), limits) THEN s ELSE i
           Def(p) == [i \in 0..n |-> IF i > 1 /\ Fits(SubSeq(ms, p[i - 1], i), limits)
                                     THEN p[i - 1] ELSE i]
           from == CHOOSE p : p = Def(p)
           V == 0..n
           a == 0
           F == [i \in 1..n |-> [s \in V |-> Step(i, s)]]
<1>1. Cut(ms, limits) = FlattenSeq(PartsBy(from, ms))
  BY DEF Cut, PartsBy
<1>2. n \in Nat
  BY LenProperties
<1> HIDE DEF n
<1>3. a \in V /\ \A i \in 1..n, s \in V : Step(i, s) \in V
  BY <1>2
<1> HIDE DEF Step
<1>4. F \in [1..n -> [V -> V]] /\ \A i \in 1..n, s \in V : F[i][s] = Step(i, s)
  BY <1>3
<1> HIDE DEF F, a
<1>5. PICK p : Steps(p, n, V, a, F)
  <2> HIDE DEF V
  <2> QED
    BY <1>2, <1>3, <1>4, Recursion
<1>6. p \in [0..n -> V] /\ p[0] = 0 /\ \A i \in 1..n : p[i] = F[i][p[i - 1]]
  BY <1>5 DEF Steps, a
<1>7. \A i \in 1..n : p[i] = Step(i, p[i - 1])
  <2> TAKE i \in 1..n
  <2>1. i - 1 \in 0..n
    BY <1>2
  <2>2. p[i - 1] \in V
    BY <1>6, <2>1
  <2> QED
    BY <1>4, <1>6, <2>2
<1>8. p = Def(p)
  <2>1. \A i \in 0..n : p[i] = IF i > 1 /\ Fits(SubSeq(ms, p[i - 1], i), limits)
                               THEN p[i - 1] ELSE i
    <3> TAKE i \in 0..n
    <3>1. CASE i = 0
      BY <1>6, <3>1
    <3>2. CASE i # 0
      <4>1. i \in 1..n
        BY <1>2, <3>2
      <4> QED
        BY <1>7, <4>1 DEF Step
    <3> QED
      BY <3>1, <3>2
  <2> QED
    BY <1>6, <2>1
<1>9. from = Def(from)
  BY <1>8
<1> HIDE DEF from
<1>10. from[0] = 0 /\ \A i \in 1..n : from[i] = Step(i, from[i - 1])
  <2>1. \A i \in 0..n : from[i] = Def(from)[i]
    BY <1>9
  <2>2. \A i \in 0..n : from[i] = IF i > 1 /\ Fits(SubSeq(ms, from[i - 1], i), limits)
                                  THEN from[i - 1] ELSE i
    BY <2>1
  <2>3. 0 \in 0..n /\ \A i \in 1..n : i \in 0..n
    BY <1>2
  <2> QED
    BY <2>2, <2>3 DEF Step
<1>11. DOMAIN from = 0..n
  BY <1>9
<1> HIDE DEF Def
<1> DEFINE K == {i \in Nat : i <= n => from[i] \in V}
<1>12. 0 \in K
  BY <1>2, <1>10
<1>13. ASSUME NEW i \in Nat, i \in K PROVE i + 1 \in K
  <2> SUFFICES ASSUME i + 1 <= n PROVE from[i + 1] \in V
    OBVIOUS
  <2>1. i + 1 \in 1..n /\ (i + 1) - 1 = i /\ i <= n
    BY <1>2
  <2>2. from[i] \in V
    BY <1>13, <2>1
  <2> HIDE DEF V
  <2>3. from[i + 1] = Step(i + 1, from[i])
    BY <1>10, <2>1
  <2> QED
    BY <1>3, <2>1, <2>2, <2>3
<1> HIDE DEF K
<1>14. Nat \subseteq K
  BY <1>12, <1>13, NatSetInduction
<1>15. \A i \in 0..n : from[i] \in V
  BY <1>2, <1>14 DEF K
<1>16. from \in [0..n -> V]
  <2>1. from = [i \in 0..n |-> from[i]]
    BY <1>9, <1>11 DEF Def
  <2> QED
    BY <1>15, <2>1
<1> QED
  BY <1>1, <1>10, <1>16 DEF Begins, Step, n

\* The parts of a sequence by their first and last index.
CutAt(ms, limits, ends, from) ==
    /\ ends \subseteq 1..Len(ms)
    /\ \A i \in ends : from[i] \in 1..i /\ Fits(SubSeq(ms, from[i], i), limits)
    /\ \A i, j \in ends : i < j => i < from[j]
    /\ Cut(ms, limits) \in Seq({SubSeq(ms, from[i], i) : i \in ends})
    /\ ms # <<>> => Cut(ms, limits) # <<>>
    /\ Fits(ms, limits) => \A i \in ends : from[i] = 1 /\ i = Len(ms)

LEMMA CutPoints ==
    ASSUME NEW T \in SUBSET Messages, NEW ms \in Seq(T),
           NEW limits \in [size : Nat \ {0}, chars : Nat]
    PROVE  \E ends, from : CutAt(ms, limits, ends, from)
<1> DEFINE n == Len(ms)
<1>1. PICK from : Begins(from, ms, limits) /\ Cut(ms, limits) = FlattenSeq(PartsBy(from, ms))
  BY CutSteps
<1>2. n \in Nat /\ DOMAIN ms = 1..n /\ (ms # <<>> => n > 0) /\ ms \in Seq(Messages)
  BY LenProperties, EmptySeq, SeqMonotonic
<1>3. /\ from \in [0..n -> 0..n]
      /\ \A i \in 1..n : from[i] = IF i > 1 /\ Fits(SubSeq(ms, from[i - 1], i), limits)
                                   THEN from[i - 1] ELSE i
  BY <1>1 DEF Begins
<1> DEFINE ends == {i \in 1..n : i = n \/ from[i + 1] = i + 1}
           part(i) == SubSeq(ms, from[i], i)
<1> HIDE DEF n
<1>4. \A i \in 1..n : from[i] \in 1..i /\ Fits(part(i), limits)
  <2> DEFINE K == {i \in Nat : i + 1 <= n =>
                      from[i + 1] \in 1..(i + 1) /\ Fits(part(i + 1), limits)}
  <2>1. ASSUME NEW i \in 1..n, from[i] = i PROVE from[i] \in 1..i /\ Fits(part(i), limits)
    <3>1. i \in Nat /\ 1 <= i /\ i <= Len(ms)
      BY <1>2 DEF n
    <3>2. Len(SubSeq(ms, i, i)) = 1
      BY <3>1
    <3>3. Fits(SubSeq(ms, i, i), limits)
      BY <3>2, OneFits
    <3> QED
      BY <1>2, <2>1, <3>1, <3>3
  <2>2. 0 \in K
    <3> SUFFICES ASSUME 1 <= n PROVE from[1] \in 1..1 /\ Fits(part(1), limits)
      OBVIOUS
    <3>1. 1 \in 1..n /\ from[1] = 1
      BY <1>2, <1>3
    <3> HIDE DEF part
    <3> QED
      BY <2>1, <3>1
  <2>3. ASSUME NEW i \in Nat, i \in K PROVE i + 1 \in K
    <3> DEFINE j == i + 1
    <3> SUFFICES ASSUME j + 1 <= n PROVE from[j + 1] \in 1..(j + 1) /\ Fits(part(j + 1), limits)
      OBVIOUS
    <3>1. j \in 1..n /\ j + 1 \in 1..n /\ (j + 1) - 1 = j /\ j + 1 > 1
      BY <1>2
    <3>2. from[j] \in 1..j
      BY <1>2, <2>3, <3>1
    <3> HIDE DEF j
    <3>3. CASE Fits(SubSeq(ms, from[j], j + 1), limits)
      <4>1. from[j + 1] = from[j]
        BY <1>3, <3>1, <3>3
      <4> QED
        BY <3>1, <3>2, <3>3, <4>1
    <3>4. CASE ~Fits(SubSeq(ms, from[j], j + 1), limits)
      <4>1. from[j + 1] = j + 1
        BY <1>3, <3>1, <3>4
      <4> HIDE DEF part
      <4> QED
        BY <2>1, <3>1, <4>1
    <3> QED
      BY <3>3, <3>4
  <2> HIDE DEF K
  <2>4. Nat \subseteq K
    BY <2>2, <2>3, NatSetInduction
  <2>5. ASSUME NEW i \in 1..n PROVE from[i] \in 1..i /\ Fits(part(i), limits)
    <3>1. i - 1 \in K /\ (i - 1) + 1 = i /\ i <= n
      BY <1>2, <2>4
    <3> HIDE DEF part
    <3> QED
      BY <3>1 DEF K
  <2> QED
    BY <2>5
<1>5. ASSUME NEW i \in ends, NEW j \in ends, i < j PROVE i < from[j]
  <2> DEFINE K == {k \in Nat : i + 1 + k <= n => i < from[i + 1 + k]}
  <2>1. i \in 1..n /\ j \in 1..n /\ from[i + 1] = i + 1
    BY <1>2, <1>5
  <2>2. 0 \in K
    BY <1>2, <2>1
  <2>3. ASSUME NEW k \in Nat, k \in K PROVE k + 1 \in K
    <3> DEFINE h == i + 1 + (k + 1)
    <3> SUFFICES ASSUME h <= n PROVE i < from[h]
      OBVIOUS
    <3>1. h \in 1..n /\ h - 1 = i + 1 + k /\ i + 1 + k <= n /\ i < h
      BY <1>2, <2>1
    <3>2. i < from[h - 1]
      BY <2>3, <3>1
    <3> HIDE DEF h
    <3> QED
      BY <1>3, <3>1, <3>2
  <2> HIDE DEF K
  <2>4. j - (i + 1) \in Nat /\ i + 1 + (j - (i + 1)) = j /\ j <= n
    BY <1>2, <1>5, <2>1
  <2>5. j - (i + 1) \in K
    BY <2>2, <2>3, <2>4, NatSetInduction
  <2> QED
    BY <2>4, <2>5 DEF K
<1>6. /\ Cut(ms, limits) \in Seq({part(i) : i \in ends})
      /\ ms # <<>> => Cut(ms, limits) # <<>>
  <2> DEFINE B == {part(i) : i \in ends}
             f(i) == IF i = n \/ from[i + 1] = i + 1 THEN <<part(i)>> ELSE <<>>
             ss == [i \in DOMAIN ms |-> f(i)]
  <2>1. PartsBy(from, ms) = ss
    BY DEF PartsBy, n
  <2> HIDE DEF part
  <2>2. <<>> \in Seq(B)
    BY EmptySeq
  <2>3. \A i \in ends : f(i) = <<part(i)>> /\ part(i) \in B
    OBVIOUS
  <2>4. \A i \in 1..n : i \notin ends => f(i) = <<>>
    OBVIOUS
  <2> HIDE DEF B, f
  <2>5. \A i \in 1..n : f(i) \in Seq(B)
    <3> TAKE i \in 1..n
    <3>1. CASE i \in ends
      <4> DEFINE x == part(i)
      <4>1. x \in B /\ f(i) = <<x>>
        BY <2>3, <3>1
      <4> HIDE DEF x
      <4> QED
        BY <4>1
    <3>2. CASE i \notin ends
      BY <2>2, <2>4, <3>2
    <3> QED
      BY <3>1, <3>2
  <2>6. ss \in Seq(Seq(B)) /\ Len(ss) = n /\ \A i \in 1..n : ss[i] = f(i)
    BY <1>2, <2>5
  <2>7. ms # <<>> => ss[n] # <<>>
    <3> SUFFICES ASSUME ms # <<>> PROVE ss[n] # <<>>
      OBVIOUS
    <3>1. n \in 1..n /\ n \in ends
      BY <1>2
    <3> DEFINE x == part(n)
    <3>2. ss[n] = <<x>>
      BY <2>3, <2>6, <3>1
    <3> HIDE DEF x, ss
    <3>3. \A y : Len(<<y>>) = 1 /\ Len(<<>>) = 0
      OBVIOUS
    <3> QED
      BY <3>2, <3>3
  <2> HIDE DEF ss
  <2>8. FlattenSeq(ss) \in Seq(B) /\ ((\E i \in 1..Len(ss) : ss[i] # <<>>) => FlattenSeq(ss) # <<>>)
    BY <2>6, FlattenOf
  <2>9. ms # <<>> => n \in 1..Len(ss)
    BY <1>2, <2>6
  <2> QED
    BY <1>1, <2>1, <2>7, <2>8, <2>9 DEF B
<1>7. ASSUME Fits(ms, limits), NEW i \in ends PROVE from[i] = 1 /\ i = n
  <2> DEFINE K == {k \in Nat : k + 1 <= n => from[k + 1] = 1}
  <2>1. 0 \in K
    BY <1>2, <1>3
  <2>2. ASSUME NEW k \in Nat, k \in K PROVE k + 1 \in K
    <3> DEFINE j == k + 1
    <3> SUFFICES ASSUME j + 1 <= n PROVE from[j + 1] = 1
      OBVIOUS
    <3>1. j \in 1..n /\ j + 1 \in 1..n /\ (j + 1) - 1 = j /\ j + 1 > 1
      BY <1>2
    <3>2. from[j] = 1
      BY <1>2, <2>2, <3>1
    <3> HIDE DEF j
    <3>3. Fits(SubSeq(ms, 1, j + 1), limits)
      BY <1>2, <1>7, <3>1, FitsPrefix DEF n
    <3> QED
      BY <1>3, <3>1, <3>2, <3>3
  <2> HIDE DEF K
  <2>3. Nat \subseteq K
    BY <2>1, <2>2, NatSetInduction
  <2>4. \A k \in 1..n : from[k] = 1
    <3> TAKE k \in 1..n
    <3>1. k - 1 \in K /\ (k - 1) + 1 = k /\ k <= n
      BY <1>2, <2>3
    <3> QED
      BY <3>1 DEF K
  <2>5. i \in 1..n /\ (i = n \/ from[i + 1] = i + 1)
    OBVIOUS
  <2>6. i # n => i + 1 \in 1..n /\ i + 1 # 1
    BY <1>2, <2>5
  <2> QED
    BY <2>4, <2>5, <2>6
<1>8. CutAt(ms, limits, ends, from)
  <2>1. ends \subseteq 1..n /\ \A i \in ends : i \in 1..n
    OBVIOUS
  <2> HIDE DEF ends
  <2> QED
    BY <1>4, <1>5, <1>6, <1>7, <2>1 DEF CutAt, n
<1> QED
  BY <1>8

\* The parts of a sequence fit, are disjoint and made of its elements; one that
\* fits itself has no other part.
LEMMA PartsOf ==
    ASSUME NEW T \in SUBSET Messages, NEW ms \in Seq(T), IsInjective(ms),
           NEW limits \in [size : Nat \ {0}, chars : Nat],
           NEW d \in Range(Cut(ms, limits)), NEW e \in Range(Cut(ms, limits))
    PROVE  /\ d \in Seq(T) /\ d # <<>> /\ IsInjective(d) /\ Fits(d, limits)
           /\ Range(d) \subseteq Range(ms)
           /\ d = e \/ Range(d) \cap Range(e) = {}
           /\ Fits(ms, limits) => d = ms
<1>1. PICK ends, from : CutAt(ms, limits, ends, from)
  BY CutPoints
<1> DEFINE n == Len(ms)
           part(i) == SubSeq(ms, from[i], i)
<1>2. n \in Nat /\ DOMAIN ms = 1..n /\ \A i \in 1..n : ms[i] \in T
  BY LenProperties, ElementOfSeq
<1> HIDE DEF n
<1>3. ASSUME NEW i \in ends
      PROVE  LET s == part(i)
             IN /\ s \in Seq(T) /\ s # <<>> /\ IsInjective(s) /\ Fits(s, limits)
                /\ \A x : x \in Range(s) <=> \E k \in from[i]..i : x = ms[k]
                /\ Fits(ms, limits) => s = ms
  <2> DEFINE m == from[i]
             s == SubSeq(ms, m, i)
  <2>1. i \in 1..n /\ m \in 1..i /\ Fits(s, limits) /\ (Fits(ms, limits) => m = 1 /\ i = n)
    BY <1>1 DEF CutAt, n
  <2> HIDE DEF m
  <2>2. /\ s \in Seq(T) /\ Len(s) = i - m + 1
        /\ \A k \in 1..(i - m + 1) : s[k] = ms[m + k - 1]
    <3>1. m \in Int /\ i \in Int /\ m <= i
      BY <1>2, <2>1
    <3>2. \A k \in m..i : ms[k] \in T
      <4>1. \A k \in m..i : k \in 1..n
        BY <1>2, <2>1
      <4> QED
        BY <1>2, <4>1
    <3> HIDE DEF s
    <3>3. /\ SubSeq(ms, m, i) \in Seq(T)
          /\ Len(SubSeq(ms, m, i)) = IF m <= i THEN i - m + 1 ELSE 0
          /\ \A k \in 1..(i - m + 1) : SubSeq(ms, m, i)[k] = ms[m + k - 1]
      BY <3>1, <3>2, SubSeqProperties
    <3> QED
      BY <3>1, <3>3 DEF s
  <2>3. Fits(ms, limits) => s = ms
    <3>1. SubSeq(ms, 1, n) = ms
      BY <1>2 DEF n
    <3> QED
      BY <2>1, <3>1
  <2> HIDE DEF s
  <2>4. DOMAIN s = 1..(i - m + 1)
    BY <1>2, <2>1, <2>2, LenProperties
  <2>5. s # <<>>
    BY <1>2, <2>1, <2>2, EmptySeq
  <2>6. IsInjective(s)
    <3> SUFFICES ASSUME NEW k \in 1..(i - m + 1), NEW l \in 1..(i - m + 1), s[k] = s[l]
                 PROVE  k = l
      BY <2>4 DEF IsInjective
    <3>1. m + k - 1 \in 1..n /\ m + l - 1 \in 1..n
      BY <1>2, <2>1
    <3>2. m + k - 1 = m + l - 1
      BY <1>2, <2>2, <3>1 DEF IsInjective
    <3> QED
      BY <1>2, <2>1, <3>2
  <2>7. ASSUME NEW x, x \in Range(s) PROVE \E k \in m..i : x = ms[k]
    <3>1. PICK k \in 1..(i - m + 1) : x = s[k]
      BY <2>4, <2>7 DEF Range
    <3>2. m + k - 1 \in m..i
      BY <1>2, <2>1
    <3> QED
      BY <2>2, <3>1, <3>2
  <2>8. ASSUME NEW k \in m..i PROVE ms[k] \in Range(s)
    <3>1. k - m + 1 \in 1..(i - m + 1) /\ m + (k - m + 1) - 1 = k
      BY <1>2, <2>1
    <3>2. s[k - m + 1] = ms[m + (k - m + 1) - 1]
      BY <2>2, <3>1
    <3> QED
      BY <2>4, <3>1, <3>2 DEF Range
  <2> QED
    BY <2>1, <2>2, <2>3, <2>5, <2>6, <2>7, <2>8 DEF s, m
<1>4. Range(Cut(ms, limits)) \subseteq {part(i) : i \in ends}
  <2> DEFINE B == {part(i) : i \in ends}
  <2>1. Cut(ms, limits) \in Seq(B)
    BY <1>1 DEF CutAt
  <2> HIDE DEF B
  <2> QED
    BY <2>1, LenProperties, ElementOfSeq DEF Range, B
<1> HIDE DEF part
<1>5. PICK i \in ends : d = part(i)
  BY <1>4
<1>6. PICK j \in ends : e = part(j)
  BY <1>4
<1>7. /\ d \in Seq(T) /\ d # <<>> /\ IsInjective(d) /\ Fits(d, limits)
      /\ \A x : x \in Range(d) <=> \E k \in from[i]..i : x = ms[k]
      /\ Fits(ms, limits) => d = ms
  BY <1>3, <1>5
<1>8. \A x : x \in Range(e) <=> \E k \in from[j]..j : x = ms[k]
  BY <1>3, <1>6
<1>9. /\ i \in 1..n /\ j \in 1..n /\ from[i] \in 1..i /\ from[j] \in 1..j
      /\ i < j => i < from[j]
      /\ j < i => j < from[i]
  BY <1>1 DEF CutAt, n
<1>10. Range(d) \subseteq Range(ms)
  <2>1. \A k \in from[i]..i : k \in 1..n
    BY <1>2, <1>9
  <2> QED
    <3> SUFFICES ASSUME NEW x \in Range(d) PROVE x \in Range(ms)
      OBVIOUS
    <3>1. PICK k \in from[i]..i : x = ms[k]
      BY <1>7
    <3> QED
      BY <1>2, <2>1, <3>1 DEF Range
<1>11. i # j => Range(d) \cap Range(e) = {}
  <2> SUFFICES ASSUME i # j, NEW k \in from[i]..i, NEW l \in from[j]..j, ms[k] = ms[l]
               PROVE  FALSE
    BY <1>7, <1>8
  <2>1. k \in 1..n /\ l \in 1..n /\ k # l
    BY <1>2, <1>9
  <2> QED
    BY <1>2, <2>1 DEF IsInjective
<1>12. i = j => d = e
  BY <1>5, <1>6
<1> QED
  BY <1>7, <1>10, <1>11, <1>12

\* The parts of a sequence are made of its elements and not empty.
LEMMA CutOf ==
    ASSUME NEW T \in SUBSET Messages, NEW ms \in Seq(T), IsInjective(ms),
           NEW limits \in [size : Nat \ {0}, chars : Nat], NEW B,
           \A b \in Seq(T) : b # <<>> /\ IsInjective(b) => b \in B
    PROVE  /\ Cut(ms, limits) \in Seq(B) /\ (ms # <<>> => Cut(ms, limits) # <<>>)
           /\ Cut(ms, limits) \in Seq(Range(Cut(ms, limits)))
<1>1. PICK ends, from : CutAt(ms, limits, ends, from)
  BY CutPoints
<1> DEFINE parts == Cut(ms, limits)
           P == {SubSeq(ms, from[i], i) : i \in ends}
<1>2. parts \in Seq(P) /\ (ms # <<>> => parts # <<>>)
  BY <1>1 DEF CutAt
<1>3. \A d \in Range(parts) : d \in B
  BY PartsOf
<1> HIDE DEF parts, P
<1>4. /\ Len(parts) \in Nat /\ parts = [i \in 1..Len(parts) |-> parts[i]]
      /\ \A i \in 1..Len(parts) : parts[i] \in Range(parts)
  BY <1>2, LenProperties DEF Range
<1>5. parts \in Seq(B) /\ parts \in Seq(Range(parts))
  BY <1>3, <1>4, IsASeq
<1> QED
  BY <1>2, <1>5 DEF parts

\* The limits of batches.
LEMMA LimitsOf ==
    ASSUME endpoint \in Endpoints
    PROVE  Limits \in [size : Nat \ {0}, chars : Nat]
  BY EndpointsAssumption DEF EndpointsAssumption, Limits

\* What restore_pending flushes: parts of one conversation each.
LEMMA SplitOf ==
    ASSUME endpoint \in Endpoints, NEW T \in SUBSET Messages, NEW ms \in Seq(T),
           IsInjective(ms), NEW B,
           \A c \in Conversations : \A b \in Seq(T) :
               b # <<>> /\ IsInjective(b) /\ (\A i \in DOMAIN b : Conversation[b[i]] = c) => b \in B
    PROVE  SplitRestoreBatches(ms) \in Seq(B) /\ (ms # <<>> => SplitRestoreBatches(ms) # <<>>)
<1> DEFINE limits == Limits
           group(i) == Group(ms, Conversation[ms[i]])
           parts(i) == IF OpensGroup(ms, i) THEN Cut(group(i), limits) ELSE <<>>
           ss == [i \in DOMAIN ms |-> parts(i)]
<1>1. limits \in [size : Nat \ {0}, chars : Nat]
  BY LimitsOf
<1> HIDE DEF limits
<1>2. Len(ms) \in Nat /\ DOMAIN ms = 1..Len(ms) /\ \A i \in 1..Len(ms) : ms[i] \in T
  BY LenProperties, ElementOfSeq
<1>3. ASSUME NEW i \in 1..Len(ms) PROVE Cut(group(i), limits) \in Seq(B) /\ Cut(group(i), limits) # <<>>
  <2> DEFINE c == Conversation[ms[i]]
             S == {m \in Messages : Conversation[m] = c}
             g == Those(S, ms)
  <2>1. ms[i] \in T \cap S /\ c \in Conversations
    BY <1>2 DEF Conversations
  <2>2. g \in Seq(T \cap S) /\ IsInjective(g) /\ Contains(g, ms[i])
    <3>1. Contains(ms, ms[i])
      BY <1>2 DEF Contains
    <3> HIDE DEF S
    <3> QED
      BY <2>1, <3>1, ThoseOf
  <2>3. group(i) = g
    BY DEF Group
  <2>4. g # <<>>
    BY <2>2, EmptySeq DEF Contains
  <2> HIDE DEF g, group
  <2>5. \A b \in Seq(T \cap S) : b # <<>> /\ IsInjective(b) => b \in B
    <3> TAKE b \in Seq(T \cap S)
    <3>1. b \in Seq(T) /\ \A j \in DOMAIN b : Conversation[b[j]] = c
      BY SeqMonotonic, LenProperties, ElementOfSeq
    <3> QED
      BY <2>1, <3>1
  <2>6. T \cap S \in SUBSET Messages
    OBVIOUS
  <2> HIDE DEF S
  <2> QED
    BY <1>1, <2>2, <2>3, <2>4, <2>5, <2>6, CutOf
<1>4. <<>> \in Seq(B)
  BY EmptySeq
<1> HIDE DEF group
<1>5. \A i \in 1..Len(ms) : parts(i) \in Seq(B)
  BY <1>3, <1>4
<1>6. ss \in Seq(Seq(B)) /\ Len(ss) = Len(ms) /\ \A i \in 1..Len(ms) : ss[i] = parts(i)
  BY <1>2, <1>5
<1>7. SplitRestoreBatches(ms) = FlattenSeq(ss)
  BY DEF SplitRestoreBatches, limits, group
<1>8. ASSUME ms # <<>> PROVE \E i \in 1..Len(ss) : ss[i] # <<>>
  <2>1. 1 \in 1..Len(ms)
    BY <1>2, <1>8, EmptySeq
  <2>2. OpensGroup(ms, 1)
    BY DEF OpensGroup
  <2> QED
    BY <1>3, <1>6, <2>1, <2>2
<1> HIDE DEF ss
<1> QED
  BY <1>6, <1>7, <1>8, FlattenOf

-----------------------------------------------------------------------------
(* Sequences without repetitions *)

LEMMA RangeOf ==
    ASSUME NEW S, NEW s \in Seq(S)
    PROVE  /\ Range(s) \subseteq S /\ DOMAIN s = 1..Len(s) /\ Len(s) \in Nat
           /\ \A x : x \in Range(s) <=> Contains(s, x)
           /\ \A i \in 1..Len(s) : s[i] \in S /\ s[i] \in Range(s)
<1>1. DOMAIN s = 1..Len(s) /\ Len(s) \in Nat /\ \A i \in 1..Len(s) : s[i] \in S
  BY LenProperties, ElementOfSeq
<1> QED
  BY <1>1 DEF Range, Contains

LEMMA EmptyOf ==
    ASSUME NEW S
    PROVE  <<>> \in Seq(S) /\ IsInjective(<<>>) /\ Range(<<>>) = {} /\ \A x : ~Contains(<<>>, x)
  BY EmptySeq DEF Range, Contains, IsInjective

LEMMA OneOf ==
    ASSUME NEW S, NEW x \in S
    PROVE  <<x>> \in Seq(S) /\ <<x>> # <<>> /\ IsInjective(<<x>>) /\ Range(<<x>>) = {x}
           /\ Head(<<x>>) = x /\ Tail(<<x>>) = <<>> /\ DOMAIN <<x>> = {1} /\ <<x>>[1] = x
  BY DEF Range, IsInjective

LEMMA ConcatOf ==
    ASSUME NEW S, NEW s \in Seq(S), NEW t \in Seq(S), IsInjective(s), IsInjective(t),
           Range(s) \cap Range(t) = {}
    PROVE  s \o t \in Seq(S) /\ IsInjective(s \o t) /\ Range(s \o t) = Range(s) \cup Range(t)
<1> DEFINE r == s \o t
<1>1. /\ Len(s) \in Nat /\ DOMAIN s = 1..Len(s) /\ Len(t) \in Nat /\ DOMAIN t = 1..Len(t)
  BY RangeOf
<1>2. /\ r \in Seq(S) /\ Len(r) = Len(s) + Len(t)
      /\ \A i \in 1..(Len(s) + Len(t)) : r[i] = IF i <= Len(s) THEN s[i] ELSE t[i - Len(s)]
  BY ConcatProperties
<1>3. DOMAIN r = 1..(Len(s) + Len(t))
  BY <1>2, RangeOf
<1> HIDE DEF r
<1>4. \A i \in 1..(Len(s) + Len(t)) :
        \/ i \in 1..Len(s) /\ r[i] = s[i] /\ r[i] \in Range(s)
        \/ /\ i > Len(s) /\ i - Len(s) \in 1..Len(t) /\ r[i] = t[i - Len(s)]
           /\ r[i] \in Range(t)
  <2> TAKE i \in 1..(Len(s) + Len(t))
  <2>1. CASE i <= Len(s)
    <3>1. i \in 1..Len(s) /\ r[i] = s[i]
      BY <1>1, <1>2, <2>1
    <3> QED
      BY <1>1, <3>1 DEF Range
  <2>2. CASE i > Len(s)
    <3>1. i - Len(s) \in 1..Len(t) /\ r[i] = t[i - Len(s)]
      BY <1>1, <1>2, <2>2
    <3> QED
      BY <1>1, <2>2, <3>1 DEF Range
  <2> QED
    BY <1>1, <2>1, <2>2
<1>5. IsInjective(r)
  <2> SUFFICES ASSUME NEW i \in 1..(Len(s) + Len(t)), NEW j \in 1..(Len(s) + Len(t)), r[i] = r[j]
               PROVE  i = j
    BY <1>3 DEF IsInjective
  <2>1. CASE i \in 1..Len(s) /\ j \in 1..Len(s) /\ r[i] = s[i] /\ r[j] = s[j]
    BY <1>1, <2>1 DEF IsInjective
  <2>2. CASE /\ i - Len(s) \in 1..Len(t) /\ j - Len(s) \in 1..Len(t)
             /\ r[i] = t[i - Len(s)] /\ r[j] = t[j - Len(s)]
    <3>1. i - Len(s) = j - Len(s)
      BY <1>1, <2>2 DEF IsInjective
    <3> QED
      BY <1>1, <3>1
  <2> QED
    BY <1>4, <2>1, <2>2
<1>6. Range(r) = Range(s) \cup Range(t)
  <2>1. \A i \in 1..Len(s) : i \in 1..(Len(s) + Len(t)) /\ r[i] = s[i]
    BY <1>1, <1>2
  <2>2. \A i \in 1..Len(t) : /\ i + Len(s) \in 1..(Len(s) + Len(t)) /\ r[i + Len(s)] = t[i]
    BY <1>1, <1>2
  <2> QED
    BY <1>1, <1>3, <1>4, <2>1, <2>2 DEF Range
<1> QED
  BY <1>2, <1>5, <1>6 DEF r

LEMMA AppendOf ==
    ASSUME NEW S, NEW s \in Seq(S), IsInjective(s), NEW x \in S, x \notin Range(s)
    PROVE  /\ Append(s, x) \in Seq(S) /\ IsInjective(Append(s, x)) /\ Append(s, x) # <<>>
           /\ Range(Append(s, x)) = Range(s) \cup {x}
<1> DEFINE t == <<x>>
<1>1. Append(s, x) = s \o t
  OBVIOUS
<1>2. t \in Seq(S) /\ t # <<>> /\ IsInjective(t) /\ Range(t) = {x}
  BY OneOf
<1> HIDE DEF t
<1>3. Range(s) \cap Range(t) = {}
  BY <1>2
<1>4. s \o t \in Seq(S) /\ IsInjective(s \o t) /\ Range(s \o t) = Range(s) \cup Range(t)
  BY <1>2, <1>3, ConcatOf
<1>5. s \o t # <<>>
  BY <1>2, ConcatEqualIffEmpty
<1> QED
  BY <1>1, <1>2, <1>4, <1>5

\* An element put behind a sequence, where it may be in it already.
LEMMA AppendRange ==
    ASSUME NEW S, NEW s \in Seq(S), NEW m \in S
    PROVE  Range(Append(s, m)) = Range(s) \union {m}
<1>1. Len(s) \in Nat /\ DOMAIN s = 1..Len(s)
  BY RangeOf
<1>2. DOMAIN Append(s, m) = 1..(Len(s) + 1)
      /\ \A i \in 1..(Len(s) + 1) : Append(s, m)[i] = IF i = Len(s) + 1 THEN m ELSE s[i]
  BY <1>1, AppendProperties
<1> DEFINE r == Append(s, m)
<1> HIDE DEF r
<1>3. Range(r) \subseteq Range(s) \union {m}
  <2> SUFFICES ASSUME NEW i \in 1..(Len(s) + 1) PROVE r[i] \in Range(s) \union {m}
    BY <1>2 DEF Range, r
  <2>1. i # Len(s) + 1 => i \in 1..Len(s)
    BY <1>1
  <2> QED
    BY <1>1, <1>2, <2>1 DEF Range, r
<1>4. Range(s) \union {m} \subseteq Range(r)
  <2>1. r[Len(s) + 1] = m /\ Len(s) + 1 \in DOMAIN r
    BY <1>1, <1>2 DEF r
  <2>2. \A i \in 1..Len(s) : i \in DOMAIN r /\ r[i] = s[i]
    BY <1>1, <1>2 DEF r
  <2> QED
    BY <1>1, <2>1, <2>2 DEF Range
<1> QED
  BY <1>3, <1>4 DEF r

LEMMA SubOf ==
    ASSUME NEW S, NEW s \in Seq(S), IsInjective(s), NEW k \in 0..Len(s)
    PROVE  /\ SubSeq(s, k + 1, Len(s)) \in Seq(S) /\ IsInjective(SubSeq(s, k + 1, Len(s)))
           /\ Range(s) \ {s[i] : i \in 1..k} \subseteq Range(SubSeq(s, k + 1, Len(s)))
<1> DEFINE n == Len(s)
           r == SubSeq(s, k + 1, n)
<1>1. n \in Nat /\ DOMAIN s = 1..n /\ \A i \in 1..n : s[i] \in S
  BY RangeOf
<1> HIDE DEF n
<1>2. \A i \in (k + 1)..n : s[i] \in S
  BY <1>1
<1>3. /\ r \in Seq(S) /\ Len(r) = n - k /\ \A i \in 1..(n - k) : r[i] = s[k + i]
  <2>1. /\ r \in Seq(S) /\ Len(r) = IF k + 1 <= n THEN n - (k + 1) + 1 ELSE 0
        /\ \A i \in 1..(n - (k + 1) + 1) : r[i] = s[(k + 1) + i - 1]
    BY <1>1, <1>2, SubSeqProperties
  <2>2. k \in 0..n
    BY DEF n
  <2> QED
    BY <1>1, <2>1, <2>2
<1>4. DOMAIN r = 1..(n - k) /\ k \in 0..n
  BY <1>3, LenProperties DEF n
<1> HIDE DEF r
<1>5. IsInjective(r)
  <2> SUFFICES ASSUME NEW i \in 1..(n - k), NEW j \in 1..(n - k), r[i] = r[j] PROVE i = j
    BY <1>4 DEF IsInjective
  <2>1. k + i \in 1..n /\ k + j \in 1..n /\ s[k + i] = s[k + j]
    BY <1>1, <1>3, <1>4
  <2>2. k + i = k + j
    BY <1>1, <2>1 DEF IsInjective
  <2> QED
    BY <1>4, <2>2
<1>6. Range(s) \ {s[i] : i \in 1..k} \subseteq Range(r)
  <2> SUFFICES ASSUME NEW x \in Range(s), \A i \in 1..k : x # s[i] PROVE x \in Range(r)
    OBVIOUS
  <2>1. PICK i \in 1..n : x = s[i]
    BY <1>1 DEF Range
  <2>2. i - k \in 1..(n - k) /\ k + (i - k) = i
    BY <1>1, <1>4, <2>1
  <2> QED
    BY <1>3, <1>4, <2>1, <2>2 DEF Range
<1> QED
  BY <1>3, <1>5, <1>6 DEF r, n

LEMMA Least ==
    ASSUME NEW S \in SUBSET Nat, S # {}
    PROVE  \E i \in S : \A j \in S : i <= j
<1> SUFFICES ASSUME \A i \in S : \E j \in S : j < i PROVE FALSE
  OBVIOUS
<1> DEFINE T == {n \in Nat : \A i \in S : i > n}
<1>1. 0 \in T
  <2>1. \A i \in S : i # 0
    OBVIOUS
  <2> QED
    BY <2>1
<1>2. ASSUME NEW n \in Nat, n \in T PROVE n + 1 \in T
  <2> SUFFICES ASSUME NEW i \in S PROVE i > n + 1
    OBVIOUS
  <2>1. PICK j \in S : j < i
    OBVIOUS
  <2>2. j > n
    BY <1>2
  <2> QED
    BY <2>1, <2>2
<1> HIDE DEF T
<1>3. Nat \subseteq T
  BY <1>1, <1>2, NatSetInduction
<1>4. PICK i \in S : TRUE
  OBVIOUS
<1>5. i > i
  BY <1>3, <1>4 DEF T
<1> QED
  BY <1>5

-----------------------------------------------------------------------------
(* The acknowledged prefix *)

LEMMA AcknowledgeOf ==
    ASSUME NEW S \in SUBSET Nat, NEW order \in Seq(S), IsInjective(order), NEW ms,
           acked \union Range(ms) \subseteq Range(order), Acknowledge(order, ms)
    PROVE  /\ unacked' \in Seq(S) /\ IsInjective(unacked')
           /\ acked' \subseteq Range(unacked') /\ acked' \subseteq acked \union Range(ms)
           /\ saved' = saved \/ \E x \in acked \union Range(ms) : saved' = x + 1
<1> DEFINE done == acked \union Range(ms)
           open == {i \in DOMAIN order : order[i] \notin done}
           drained == IF open = {} THEN Len(order)
                      ELSE (CHOOSE i \in open : \A j \in open : i <= j) - 1
<1>1. /\ unacked' = SubSeq(order, drained + 1, Len(order))
      /\ acked' = done \ {order[i] : i \in 1..drained}
      /\ saved' = IF drained = 0 THEN saved ELSE order[drained] + 1
  BY DEF Acknowledge
<1>2. DOMAIN order = 1..Len(order) /\ Len(order) \in Nat
  BY RangeOf
<1>3. drained \in 0..Len(order) /\ \A i \in 1..drained : order[i] \in done
  <2>1. CASE open = {}
    BY <1>2, <2>1
  <2>2. CASE open # {}
    <3> DEFINE k == CHOOSE i \in open : \A j \in open : i <= j
    <3>1. open \in SUBSET Nat
      BY <1>2
    <3>2. k \in open /\ \A j \in open : k <= j
      <4> HIDE DEF open
      <4> QED
        BY <2>2, <3>1, Least
    <3>3. k \in 1..Len(order) /\ drained = k - 1
      BY <1>2, <2>2, <3>2
    <3> HIDE DEF k, drained
    <3>4. \A i \in 1..(k - 1) : i \in DOMAIN order /\ i \notin open
      BY <1>2, <3>2, <3>3
    <3> QED
      BY <1>2, <3>3, <3>4
  <2> QED
    BY <2>1, <2>2
<1> HIDE DEF drained, open
<1>4. /\ unacked' \in Seq(S) /\ IsInjective(unacked')
      /\ Range(order) \ {order[i] : i \in 1..drained} \subseteq Range(unacked')
  BY <1>1, <1>3, SubOf
<1>5. saved' = saved \/ \E x \in done : saved' = x + 1
  <2>1. CASE drained = 0
    BY <1>1, <2>1
  <2>2. CASE drained # 0
    <3>1. drained \in 1..drained
      BY <1>2, <1>3, <2>2
    <3> QED
      BY <1>1, <1>3, <2>2, <3>1
  <2> QED
    BY <2>1, <2>2
<1> QED
  BY <1>1, <1>4, <1>5

LEMMA InOrderOf ==
    ASSUME NEW S \in SUBSET Messages, unacked \in Seq(S), IsInjective(unacked),
           NEW ms \in Seq(S), IsInjective(ms)
    PROVE  /\ InOrder(ms) \in Seq(S) /\ IsInjective(InOrder(ms))
           /\ Range(unacked) \union Range(ms) \subseteq Range(InOrder(ms))
<1> DEFINE N == Messages \ Range(unacked)
           new == Those(N, ms)
<1>1. /\ new \in Seq(S \cap N) /\ IsInjective(new)
      /\ \A x : Contains(new, x) <=> Contains(ms, x) /\ x \in N
  <2> HIDE DEF N
  <2> QED
    BY ThoseOf
<1> HIDE DEF new
<1>2. new \in Seq(S)
  BY <1>1, SeqMonotonic
<1>3. \A x : x \in Range(new) <=> x \in Range(ms) /\ x \in N
  BY <1>1, <1>2, RangeOf
<1>4. Range(unacked) \cap Range(new) = {}
  BY <1>3
<1>5. /\ unacked \o new \in Seq(S) /\ IsInjective(unacked \o new)
      /\ Range(unacked \o new) = Range(unacked) \union Range(new)
  BY <1>1, <1>2, <1>4, ConcatOf
<1>6. Range(ms) \subseteq S
  BY RangeOf
<1>7. Range(ms) \subseteq Range(unacked) \union Range(new)
  BY <1>3, <1>6
<1> QED
  BY <1>5, <1>7 DEF InOrder, new

LEMMA RegisteredOf ==
    ASSUME NEW S, unacked \in Seq(S), IsInjective(unacked), NEW m \in S
    PROVE  /\ Registered(m) \in Seq(S) /\ IsInjective(Registered(m))
           /\ Range(Registered(m)) = Range(unacked) \union {m}
<1>1. Contains(unacked, m) <=> m \in Range(unacked)
  BY RangeOf
<1> QED
  BY <1>1, AppendOf DEF Registered

-----------------------------------------------------------------------------
(* The page and the flushers *)

LEMMA Basics ==
    ASSUME Types
    PROVE  /\ sent \in Nat /\ Arrived \subseteq 1..sent /\ 1..sent \subseteq Messages
           /\ Messages \subseteq Nat /\ Cardinality(Messages) \in Nat
           /\ Messages = 1..Cardinality(Messages)
<1>1. Cardinality(Messages) \in Nat /\ Messages = 1..Cardinality(Messages)
  BY MessagesAssumption, FS_CardinalityType DEF MessagesAssumption
<1>2. sent \in 0..Cardinality(Messages)
  BY DEF Types, Numbers
<1> QED
  BY <1>1, <1>2 DEF Arrived

LEMMA PageOf ==
    ASSUME Types
    PROVE  /\ poll = [at |-> poll.at, page |-> poll.page, next |-> poll.next]
           /\ poll.page \in Seq(1..sent) /\ poll.next \in 1..(sent + 1)
           /\ Len(poll.page) \in Nat /\ Position \in Int
           /\ poll.page = <<>> => Position = poll.next
           /\ poll.page # <<>> => /\ Current = Position /\ Current \in 1..sent
                                  /\ Position < poll.next
<1>1. /\ poll = [at |-> poll.at, page |-> poll.page, next |-> poll.next]
      /\ poll.page \in Seq(1..sent) /\ poll.next \in 1..(sent + 1)
      /\ \A i \in 1..Len(poll.page) : poll.page[i] = Position + i - 1
  BY DEF Types, Page
<1> DEFINE p == poll.page
<1> HIDE DEF p
<1>2. p \in Seq(1..sent)
  BY <1>1 DEF p
<1>3. /\ Len(p) \in Nat /\ (p = <<>> => Len(p) = 0)
      /\ (p # <<>> => 1 \in 1..Len(p) /\ Head(p) = p[1] /\ p[1] \in 1..sent)
  <2>1. Len(p) \in Nat /\ (p = <<>> <=> Len(p) = 0)
    BY <1>2, EmptySeq, LenProperties
  <2>2. p # <<>> => 1 \in 1..Len(p)
    BY <2>1
  <2>3. 1 \in 1..Len(p) => p[1] \in 1..sent
    BY <1>2, ElementOfSeq
  <2>4. p # <<>> => Head(p) = p[1]
    BY <1>2
  <2> QED
    BY <2>1, <2>2, <2>3, <2>4
<1>4. sent \in Nat
  BY Basics
<1>5. Position = poll.next - Len(p) /\ Current = Head(p)
  BY DEF Position, p, Current
<1>6. p # <<>> => Current = Position
  <2> SUFFICES ASSUME p # <<>> PROVE Current = Position
    OBVIOUS
  <2>1. Current = p[1] /\ p[1] = Position + 1 - 1 /\ Position \in Int
    BY <1>1, <1>3, <1>5 DEF p
  <2> QED
    BY <2>1
<1>7. p # <<>> => Len(p) > 0
  BY <1>3
<1> QED
  BY <1>1, <1>3, <1>4, <1>5, <1>6, <1>7 DEF p

LEMMA PollAtOf ==
    ASSUME Types, NEW step \in {"idle", "next", "store", "giveback", "buffer", "flush"}, PollAt(step)
    PROVE  /\ poll' = [at |-> step, page |-> poll.page, next |-> poll.next]
           /\ Position' = Position /\ Current' = Current
<1>1. poll' = [at |-> step, page |-> poll.page, next |-> poll.next]
  BY PageOf DEF PollAt
<1> QED
  BY <1>1 DEF Position, Current

LEMMA NextOnPageOf ==
    ASSUME Types, NextOnPage, poll.page # <<>>
    PROVE  /\ poll' = [at |-> "next", page |-> Tail(poll.page), next |-> poll.next]
           /\ Tail(poll.page) \in Seq(1..sent) /\ Position' = Position + 1
           /\ \A i \in 1..Len(poll'.page) : poll'.page[i] = Position' + i - 1
<1> DEFINE p == poll.page
           t == Tail(p)
<1>1. poll' = [at |-> "next", page |-> t, next |-> poll.next]
  BY PageOf DEF NextOnPage
<1>2. /\ p \in Seq(1..sent) /\ p # <<>> /\ poll.next \in Nat /\ sent \in Nat
      /\ \A i \in 1..Len(p) : p[i] = Position + i - 1
  BY PageOf, Basics DEF Types, Page
<1>3. Position = poll.next - Len(p)
  BY DEF Position
<1> HIDE DEF p
<1>4. t \in Seq(1..sent) /\ Len(t) = Len(p) - 1 /\ \A i \in 1..Len(t) : t[i] = p[i + 1]
  BY <1>2, HeadTailProperties
<1>5. Len(p) \in Nat
  BY <1>2, LenProperties
<1> HIDE DEF t
<1>6. Position' = Position + 1
  <2>1. Position' = poll.next - Len(t)
    BY <1>1 DEF Position
  <2> QED
    BY <1>2, <1>3, <1>4, <1>5, <2>1
<1>7. \A i \in 1..Len(t) : t[i] = (Position + 1) + i - 1
  <2> TAKE i \in 1..Len(t)
  <2>1. i + 1 \in 1..Len(p)
    BY <1>4, <1>5
  <2>2. t[i] = Position + (i + 1) - 1
    BY <1>2, <1>4, <2>1
  <2> QED
    BY <1>2, <1>3, <1>5, <2>2
<1> QED
  BY <1>1, <1>4, <1>6, <1>7 DEF p, t

\* A batch stays a batch when messages arrive.
LEMMA BatchStays ==
    ASSUME Arrived \subseteq Arrived', NEW CONSTANT b
    PROVE  /\ Sequence(b) => Sequence(b)'
           /\ \A c \in Conversations : BatchOf(b, c) => BatchOf(b, c)'
           /\ b \in Seq(Arrived) => b \in Seq(Arrived')
           /\ Tidy(b) => Tidy(b)'
<1> DEFINE A == Arrived
           B == Arrived'
<1>1. b \in Seq(Arrived) => b \in Seq(Arrived')
  <2>1. A \subseteq B
    OBVIOUS
  <2> HIDE DEF A, B
  <2>2. b \in Seq(A) => b \in Seq(B)
    BY <2>1, SeqMonotonic
  <2> QED
    BY <2>2 DEF A, B
<1>2. Sequence(b) => Sequence(b)'
  BY <1>1 DEF Sequence
<1>3. \A c \in Conversations : BatchOf(b, c) => BatchOf(b, c)'
  BY <1>2 DEF BatchOf
<1> QED
  BY <1>1, <1>2, <1>3 DEF Tidy

LEMMA BatchesGrow ==
    ASSUME Arrived \subseteq Arrived'
    PROVE  Batches \subseteq Batches' /\ \A s : s \in Seq(Batches) => s \in Seq(Batches')
<1>1. Batches \subseteq Batches'
  BY BatchStays DEF Batches
<1> DEFINE A == Batches
           B == Batches'
<1> HIDE DEF A, B
<1>2. A \subseteq B
  BY <1>1 DEF A, B
<1>3. \A s : s \in Seq(A) => s \in Seq(B)
  BY <1>2, SeqMonotonic
<1> QED
  BY <1>1, <1>3 DEF A, B

LEMMA OneMessage ==
    ASSUME Types, NEW m \in Arrived
    PROVE  /\ <<m>> \in Batches /\ <<<<m>>>> \in Seq(Batches)
           /\ <<m>> # <<>> /\ <<<<m>>>> # <<>> /\ Range(<<m>>) = {m}
           /\ Head(<<<<m>>>>) = <<m>> /\ Tail(<<<<m>>>>) = <<>>
<1>1. /\ <<m>> \in Seq(Arrived) /\ <<m>> # <<>> /\ IsInjective(<<m>>) /\ Range(<<m>>) = {m}
      /\ DOMAIN <<m>> = {1} /\ <<m>>[1] = m
  BY OneOf
<1>2. Conversation[m] \in Conversations
  BY Basics DEF Conversations
<1>3. BatchOf(<<m>>, Conversation[m])
  BY <1>1 DEF BatchOf, Sequence
<1>4. <<m>> \in Batches
  BY <1>1, <1>2, <1>3 DEF Batches, Tidy
<1> DEFINE b == <<m>>
<1> HIDE DEF b
<1>5. <<b>> \in Seq(Batches) /\ <<b>> # <<>> /\ Head(<<b>>) = b /\ Tail(<<b>>) = <<>>
  BY <1>4, OneOf DEF b
<1> QED
  BY <1>1, <1>4, <1>5 DEF b

\* What is left to a flusher stays in order while its own poll waits for it.
LEMMA FlusherStays ==
    ASSUME Arrived \subseteq Arrived', settled \subseteq settled', endpoint' = endpoint,
           NEW CONSTANT f, FlusherOK(f),
           f.by = "poll" => poll'.at = "flush" /\ Current' = Current
    PROVE  FlusherOK(f)'
<1>1. f.left \in Seq(Batches')
  BY BatchesGrow DEF FlusherOK
<1>2. f.at \in {"ack", "release"} => Range(Batch(f)) \subseteq settled'
  BY DEF FlusherOK
<1> QED
  BY <1>1, <1>2 DEF FlusherOK, Telegram, Batch

LEMMA FlushesKept ==
    ASSUME Flushes, Arrived \subseteq Arrived', settled \subseteq settled', endpoint' = endpoint,
           NEW CONSTANT Old \in SUBSET flushers, NEW CONSTANT New, flushers' = Old \union New,
           \A f \in Old : f.by = "poll" => poll'.at = "flush" /\ Current' = Current,
           \A f \in New : FlusherOK(f)' /\ f.by # "poll"
    PROVE  Flushes'
<1>1. \A f \in Old : FlusherOK(f)'
  BY FlusherStays DEF Flushes
<1>2. \A f, g \in Old : f.by = "poll" /\ g.by = "poll" => f = g
  BY DEF Flushes, Running
<1> QED
  BY <1>1, <1>2 DEF Flushes, Running

LEMMA FlusherOf ==
    ASSUME NEW CONSTANT by, by # "poll", NEW CONSTANT s, s \in Seq(Batches')
    PROVE  /\ s # <<>> => FlusherOK(Flusher(by, s))'
           /\ Flusher(by, s).by = by
           /\ \A f \in FlushersFor(by, s) : FlusherOK(f)' /\ f.by # "poll"
<1>1. s # <<>> => FlusherOK(Flusher(by, s))'
  BY DEF FlusherOK, Flusher
<1> QED
  BY <1>1 DEF FlushersFor, Flusher

\* The flusher of a batch that is done goes on with the next one.
LEMMA NextBatchOf ==
    ASSUME Flushes, Arrived \subseteq Arrived', settled \subseteq settled', endpoint' = endpoint,
           poll' = poll, NEW CONSTANT f \in flushers, NEW CONSTANT by,
           by = f.by \/ by # "poll", NextBatch(f, by)
    PROVE  Flushes'
<1>1. FlusherOK(f) /\ \A g \in flushers : g.by = "poll" => poll.at = "flush"
  BY DEF Flushes, FlusherOK
<1>2. Tail(f.left) \in Seq(Batches')
  <2>1. f.left \in Seq(Batches) /\ f.left # <<>>
    BY <1>1 DEF FlusherOK
  <2> DEFINE A == Batches
  <2>2. f.left \in Seq(A)
    BY <2>1
  <2> HIDE DEF A
  <2>3. Tail(f.left) \in Seq(A)
    BY <2>1, <2>2, HeadTailProperties
  <2> QED
    BY <2>3, BatchesGrow DEF A
<1>3. \A g \in FlushersFor(by, Tail(f.left)) : FlusherOK(g)' /\ g.by # "poll"
  <2>1. CASE by # "poll"
    BY <1>2, <2>1, FlusherOf
  <2>2. CASE by = "poll"
    <3>1. f.left = <<<<Current>>>>
      BY <1>1, <2>2 DEF FlusherOK
    <3>2. Tail(f.left) = <<>>
      BY <3>1
    <3> QED
      BY <3>2 DEF FlushersFor
  <2> QED
    BY <2>1, <2>2
<1>4. Current' = Current
  BY DEF Current
<1> DEFINE Old == flushers \ {f}
           New == FlushersFor(by, Tail(f.left))
<1>5. PICK old : old = Old
  OBVIOUS
<1>6. PICK new : new = New
  OBVIOUS
<1>7. flushers' = old \union new
  BY <1>5, <1>6 DEF NextBatch
<1>8. /\ old \in SUBSET flushers
      /\ \A g \in old : g.by = "poll" => poll'.at = "flush" /\ Current' = Current
  BY <1>1, <1>4, <1>5
<1>9. \A g \in new : FlusherOK(g)' /\ g.by # "poll"
  BY <1>3, <1>6
<1> QED
  BY <1>7, <1>8, <1>9, FlushesKept

\* A flusher takes its next step.
LEMMA AtOf ==
    ASSUME Flushes, Arrived \subseteq Arrived', settled \subseteq settled', endpoint' = endpoint,
           poll' = poll, NEW CONSTANT f \in flushers,
           NEW CONSTANT step \in {"turn", "deliver", "ack", "release"},
           step \in {"ack", "release"} => Range(Batch(f)) \subseteq settled',
           step = "ack" => Telegram, At(f, step)
    PROVE  Flushes'
<1> DEFINE g == [f EXCEPT !.at = step]
<1>1. FlusherOK(f)
  BY DEF Flushes
<1>2. g = [by |-> f.by, left |-> f.left, at |-> step] /\ Current' = Current
  BY <1>1 DEF FlusherOK, Current
<1>3. FlusherOK(g)'
  <2>1. f.left \in Seq(Batches') /\ f.left # <<>>
    BY <1>1, BatchesGrow DEF FlusherOK
  <2>2. Batch(g) = Batch(f) /\ g.by = f.by /\ g.left = f.left /\ g.at = step
    BY <1>2 DEF Batch
  <2>3. f.by = "poll" => poll'.at = "flush" /\ f.left = <<<<Current'>>>>
    BY <1>1, <1>2 DEF FlusherOK
  <2> HIDE DEF g
  <2> QED
    BY <1>2, <2>1, <2>2, <2>3 DEF FlusherOK, Telegram, Batch
<1>4. \A h \in flushers \ {f} : FlusherOK(h)'
  <2> TAKE h \in flushers \ {f}
  <2>1. FlusherOK(h)
    BY DEF Flushes
  <2>2. h.by = "poll" => poll'.at = "flush" /\ Current' = Current
    BY <1>2, <2>1 DEF FlusherOK
  <2> QED
    BY <2>1, <2>2, FlusherStays
<1>5. g.by = f.by
  BY <1>2
<1> HIDE DEF g
<1>6. flushers' = (flushers \ {f}) \union {g}
  BY DEF At, g
<1>7. \A h, k \in flushers : h.by = "poll" /\ k.by = "poll" => h = k
  BY DEF Flushes, Running
<1> QED
  BY <1>3, <1>4, <1>5, <1>6, <1>7 DEF Flushes, Running

LEMMA SplitStored ==
    ASSUME Types, NEW b, Sequence(b)
    PROVE  SplitRestoreBatches(b) \in Seq(Batches)
           /\ (b # <<>> => SplitRestoreBatches(b) # <<>>)
<1> DEFINE T == Arrived
           B == Batches
<1>1. /\ endpoint \in Endpoints /\ T \in SUBSET Messages /\ b \in Seq(T) /\ IsInjective(b)
  BY Basics DEF Types, Numbers, Sequence
<1>2. \A c \in Conversations : \A d \in Seq(T) :
        d # <<>> /\ IsInjective(d) /\ (\A i \in DOMAIN d : Conversation[d[i]] = c) => d \in B
  BY DEF Batches, Tidy, BatchOf, Sequence
<1> HIDE DEF T, B
<1>3. SplitRestoreBatches(b) \in Seq(B) /\ (b # <<>> => SplitRestoreBatches(b) # <<>>)
  BY <1>1, <1>2, SplitOf
<1> QED
  BY <1>3 DEF B

-----------------------------------------------------------------------------
(* Every step keeps the types: what a step leaves alone *)

LEMMA NumbersKept ==
    ASSUME Types, UNCHANGED <<configVars, sent, saved, cursor, forgotten, claims, settled,
                              parked, interrupted>>
    PROVE  Numbers'
BY DEF Types, Numbers, Arrived, Wanted, configVars

LEMMA SequencesKept ==
    ASSUME Types, UNCHANGED <<kind, sent, rows, unacked, acked, buffer, retry>>
    PROVE  Sequences'
<1>1. Arrived' = Arrived
  BY DEF Arrived, Wanted
<1> QED
  BY <1>1 DEF Types, Sequences, Sequence, BatchOf

LEMMA FlushesSame ==
    ASSUME Types, UNCHANGED <<configVars, sent, settled, flushers>>,
           poll.at = "flush" => poll'.at = "flush" /\ Current' = Current
    PROVE  Flushes'
<1>1. Arrived' = Arrived
  BY DEF Arrived, Wanted, configVars
<1>2. \A f \in flushers : FlusherOK(f)'
  <2> TAKE f \in flushers
  <2>1. FlusherOK(f)
    BY DEF Types, Flushes
  <2>2. f.by = "poll" => poll'.at = "flush" /\ Current' = Current
    BY <2>1 DEF FlusherOK
  <2> QED
    BY <1>1, <2>1, <2>2, FlusherStays DEF configVars
<1> QED
  BY <1>2 DEF Types, Flushes, Running

LEMMA PageKept ==
    ASSUME Types, UNCHANGED <<configVars, sent, service, poll>>
    PROVE  Page'
BY DEF Types, Page, Position, Current, Wanted, Telegram, configVars

LEMMA BehindKept ==
    ASSUME Types, UNCHANGED <<endpoint, service, buffer, cursor, claims, poll>>
    PROVE  Behind'
BY DEF Types, Behind, Passed, Position, Current, Telegram

LEMMA BufferedNat ==
    ASSUME Types, NEW c \in Conversations
    PROVE  Range(buffer[c]) \subseteq Nat
<1>1. buffer[c] \in Seq(Arrived)
  BY DEF Types, Sequences, BatchOf, Sequence
<1>2. Range(buffer[c]) \subseteq Arrived
  BY <1>1, RangeOf
<1> QED
  BY <1>2, Basics

LEMMA IdlePage ==
    ASSUME Types, poll' = Idle, UNCHANGED sent
    PROVE  Page'
<1>1. sent \in Nat
  BY Basics
<1>2. <<>> \in Seq(1..sent) /\ 1 \in 1..(sent + 1) /\ Len(<<>>) = 0
  BY <1>1, EmptySeq
<1>3. poll'.at = "idle" /\ poll'.page = <<>> /\ poll'.next = 1
  BY DEF Idle
<1>4. poll' \in [at : {"idle", "next", "store", "giveback", "buffer", "flush"},
                 page : Seq(1..sent), next : 1..(sent + 1)]
  BY <1>2 DEF Idle
<1> QED
  BY <1>2, <1>3, <1>4 DEF Page

LEMMA NoBuffer ==
    ASSUME buffer' = EmptyBuffer, poll' = Idle
    PROVE  Behind'
<1>1. \A c \in Conversations : buffer'[c] = <<>> /\ Range(<<>>) = {}
  BY DEF EmptyBuffer, Range
<1>2. poll'.at = "idle"
  BY DEF Idle
<1> QED
  BY <1>1, <1>2 DEF Behind

LEMMA EmptyOfConversation ==
    ASSUME NEW c
    PROVE  BatchOf(<<>>, c)' /\ Sequence(<<>>)'
<1>1. <<>> \in Seq(Arrived') /\ IsInjective(<<>>) /\ DOMAIN <<>> = {}
  BY EmptySeq DEF IsInjective
<1> QED
  BY <1>1 DEF BatchOf, Sequence

\* A batch at the head of a flusher.
LEMMA BatchIn ==
    ASSUME Types, NEW f \in flushers
    PROVE  /\ Batch(f) # <<>> /\ Sequence(Batch(f)) /\ Range(Batch(f)) \subseteq Arrived
           /\ ConversationOf(f) \in Conversations /\ BatchOf(Batch(f), ConversationOf(f))
<1> DEFINE b == Batch(f)
<1>1. f.left \in Seq(Batches) /\ f.left # <<>>
  BY DEF Types, Flushes, FlusherOK
<1>2. b \in Batches
  <2> DEFINE A == Batches
             s == f.left
  <2>1. s \in Seq(A) /\ s # <<>>
    BY <1>1
  <2> HIDE DEF A, s
  <2>2. Head(s) \in A
    BY <2>1, HeadTailProperties
  <2> QED
    BY <2>2 DEF A, s, Batch
<1> HIDE DEF b
<1>3. PICK c \in Conversations : b # <<>> /\ BatchOf(b, c)
  BY <1>2 DEF Batches, Tidy
<1>4. b \in Seq(Arrived)
  BY <1>3 DEF BatchOf, Sequence
<1>5. Range(b) \subseteq Arrived /\ DOMAIN b = 1..Len(b) /\ Len(b) \in Nat
  BY <1>4, RangeOf
<1>6. 1 \in DOMAIN b /\ Head(b) = b[1]
  <2>1. Len(b) # 0
    BY <1>3, <1>4, EmptySeq
  <2>2. Head(b) = b[1]
    BY <1>3, <1>4
  <2> QED
    BY <1>5, <2>1, <2>2
<1>7. ConversationOf(f) = c
  BY <1>3, <1>6 DEF ConversationOf, BatchOf, b
<1> QED
  BY <1>3, <1>5, <1>7 DEF BatchOf, b

-----------------------------------------------------------------------------
(* Every step keeps the types: the remote side and the process *)

LEMMA InitTypes == Init => Types
<1> SUFFICES ASSUME Init PROVE Types
  OBVIOUS
<1>0. Cardinality(Messages) \in Nat
  BY MessagesAssumption, FS_CardinalityType DEF MessagesAssumption
<1>1. Numbers
  BY <1>0 DEF Init, Numbers
<1>2. <<>> \in Seq(1..0) /\ <<>> \in Seq(Arrived) /\ IsInjective(<<>>) /\ DOMAIN <<>> = {}
      /\ Range(<<>>) = {} /\ Len(<<>>) = 0
  BY EmptySeq DEF IsInjective, Range
<1>3. Sequences
  BY <1>2 DEF Init, Sequences, Sequence, BatchOf, EmptyBuffer
<1>4. Flushes
  BY DEF Init, Flushes, Running
<1>5. poll.at = "idle" /\ poll.page = <<>> /\ poll.next = 1
  BY DEF Init, Idle
<1>6. poll \in [at : {"idle", "next", "store", "giveback", "buffer", "flush"},
                 page : Seq(1..sent), next : 1..(sent + 1)]
  BY <1>2 DEF Init, Idle
<1>7. Page
  BY <1>2, <1>5, <1>6 DEF Page
<1>8. Behind
  BY <1>2, <1>5 DEF Init, Behind, EmptyBuffer
<1> QED
  BY <1>1, <1>3, <1>4, <1>7, <1>8 DEF Types

LEMMA SendTypes == Types /\ Send => Types'
<1> SUFFICES ASSUME Types, Send PROVE Types'
  OBVIOUS
<1>1. /\ sent \in Nat /\ sent' = sent + 1 /\ sent' \in 0..Cardinality(Messages)
      /\ 1..sent \subseteq 1..sent'
  BY Basics DEF Send
<1>2. /\ UNCHANGED <<configVars, coalescerVars, cursor, buffer, forgotten, claims, service,
                     poll, interrupted>>
  BY DEF Send
<1>3. Arrived \subseteq Arrived'
  BY <1>1, <1>2 DEF Arrived, Wanted, configVars
<1>4. Numbers'
  BY <1>1, <1>2, <1>3 DEF Types, Numbers, configVars, coalescerVars
<1>5. \A s : s \in Seq(1..sent) => s \in Seq(1..sent')
  <2> DEFINE A == 1..sent
             B == 1..sent'
  <2>1. A \subseteq B
    BY <1>1
  <2> HIDE DEF A, B
  <2>2. \A s : s \in Seq(A) => s \in Seq(B)
    BY <2>1, SeqMonotonic
  <2> QED
    BY <2>2 DEF A, B
<1>6. Sequences'
  <2>1. unacked' \in Seq(1..sent')
    BY <1>2, <1>5 DEF Types, Sequences, coalescerVars
  <2>2. Sequence(rows)'
    <3>1. PICK b : b = rows
      OBVIOUS
    <3>2. rows' = b /\ Sequence(b)
      BY <1>2, <3>1 DEF coalescerVars, Types, Sequences
    <3>3. Sequence(b)'
      BY <1>3, <3>2, BatchStays
    <3> QED
      BY <3>2, <3>3 DEF Sequence
  <2>3. ASSUME NEW c \in Conversations PROVE (BatchOf(buffer[c], c) /\ BatchOf(retry[c], c))'
    <3>1. PICK b : b = buffer[c]
      OBVIOUS
    <3>2. PICK r : r = retry[c]
      OBVIOUS
    <3>3. buffer'[c] = b /\ BatchOf(b, c) /\ retry'[c] = r /\ BatchOf(r, c)
      BY <1>2, <3>1, <3>2 DEF coalescerVars, Types, Sequences
    <3>4. BatchOf(b, c)' /\ BatchOf(r, c)'
      BY <1>3, <3>3, BatchStays
    <3> QED
      BY <3>3, <3>4 DEF BatchOf, Sequence
  <2> QED
    BY <1>2, <2>1, <2>2, <2>3 DEF Types, Sequences, coalescerVars
<1>7. Flushes'
  <2>1. \A f \in flushers : FlusherOK(f)'
    <3> TAKE f \in flushers
    <3>1. FlusherOK(f)
      BY DEF Types, Flushes
    <3>2. f.by = "poll" => poll'.at = "flush" /\ Current' = Current
      BY <1>2, <3>1 DEF FlusherOK, Current
    <3> QED
      BY <1>2, <1>3, <3>1, <3>2, FlusherStays DEF configVars, coalescerVars
  <2> QED
    BY <1>2, <2>1 DEF Types, Flushes, Running, coalescerVars
<1>8. Page'
  <2>1. poll.page \in Seq(1..sent') /\ poll.next \in 1..(sent' + 1)
    BY <1>1, <1>5, PageOf
  <2>2. poll' \in [at : {"idle", "next", "store", "giveback", "buffer", "flush"},
                   page : Seq(1..sent'), next : 1..(sent' + 1)]
    BY <1>2, <2>1 DEF Types, Page
  <2> QED
    BY <1>2, <2>2 DEF Types, Page, Position, Current, Wanted, Telegram, configVars
<1>9. Behind'
  BY <1>2, BehindKept DEF configVars
<1> QED
  BY <1>4, <1>6, <1>7, <1>8, <1>9 DEF Types

LEMMA FetchTypes == Types /\ Fetch => Types'
<1> SUFFICES ASSUME Types, Fetch PROVE Types'
  OBVIOUS
<1>1. /\ service = "polling" /\ poll.at = "idle"
      /\ UNCHANGED <<configVars, coalescerVars, cursor, buffer, sent, claims, service,
                     interrupted>>
  BY DEF Fetch
<1>2. /\ sent \in Nat /\ cursor \in 1..(sent + 1) /\ forgotten \in 1..(sent + 1)
      /\ forgotten' = IF Telegram /\ cursor > forgotten THEN cursor ELSE forgotten
  BY Basics DEF Types, Numbers, Fetch
<1>3. Numbers'
  <2>1. forgotten' \in 1..(sent + 1)
    BY <1>2
  <2> QED
    BY <1>1, <2>1 DEF Types, Numbers, Arrived, Wanted, configVars, coalescerVars
<1>4. Sequences'
  BY <1>1, SequencesKept DEF configVars, coalescerVars
<1>5. Flushes'
  BY <1>1, FlushesSame DEF coalescerVars
<1>6. CASE poll' = poll
  <2>1. Page'
    BY <1>1, <1>6, PageKept
  <2>2. Behind'
    BY <1>1, <1>6, BehindKept DEF configVars
  <2> QED
    BY <1>3, <1>4, <1>5, <2>1, <2>2 DEF Types
<1>7. CASE poll' # poll
  <2> DEFINE first == IF Telegram THEN forgotten' ELSE cursor
  <2>1. PICK last \in (first - 1)..sent :
          ~(last < first) /\ poll' = [at |-> "next", next |-> last + 1,
                          page |-> [i \in 1..(last - first + 1) |-> first + i - 1]]
    BY <1>7 DEF Fetch
  <2>2. first \in 1..(sent + 1) /\ cursor <= first /\ last \in first..sent
    BY <1>2, <2>1
  <2> HIDE DEF first
  <2> DEFINE p == [i \in 1..(last - first + 1) |-> first + i - 1]
  <2>3. p \in Seq(1..sent) /\ Len(p) = last - first + 1
    BY <1>2, <2>2
  <2>4. \A i \in 1..Len(p) : p[i] = first + i - 1
    BY <2>3
  <2> HIDE DEF p
  <2>5. poll' = [at |-> "next", next |-> last + 1, page |-> p]
    BY <2>1 DEF p
  <2>6. Position' = first
    BY <1>2, <2>2, <2>3, <2>5 DEF Position
  <2>7. Page'
    <3>1. poll'.at = "next" /\ poll'.page = p /\ poll'.next = last + 1 /\ last + 1 \in 1..(sent + 1)
      BY <1>2, <2>2, <2>5
    <3>2. poll' \in [at : {"idle", "next", "store", "giveback", "buffer", "flush"},
                     page : Seq(1..sent), next : 1..(sent + 1)]
      BY <2>3, <2>5, <3>1
    <3> QED
      BY <1>1, <2>4, <2>6, <3>1, <3>2 DEF Page
  <2>8. Behind'
    <3>1. poll'.at = "next"
      BY <2>5
    <3> QED
      BY <1>1, <2>2, <2>6, <3>1 DEF Types, Behind, Passed, Telegram, configVars
  <2> QED
    BY <1>3, <1>4, <1>5, <2>7, <2>8 DEF Types
<1> QED
  BY <1>6, <1>7

-----------------------------------------------------------------------------
(* Every step keeps the types: the poll *)

\* A message is stored and passed to the buffer or to a flush of its own.
LEMMA StoreAndPassTypes ==
    ASSUME Types, poll.page # <<>>, poll.at = IF Telegram THEN "next" ELSE "store",
           service = "polling", Wanted(Current), ~Stored(Current), StoreAndPass(Current),
           UNCHANGED <<configVars, sent, settled, service, buffer, cursor, claims>>
    PROVE  /\ Sequence(rows)' /\ Range(rows') = Range(rows) \union {Current}
           /\ Flushes' /\ Page' /\ Behind'
           /\ poll'.at = (IF endpoint.batching THEN "buffer" ELSE "flush")
           /\ Position' = Position /\ Current' = Current
           /\ flushers' = IF endpoint.batching THEN flushers
                          ELSE flushers \union {Flusher("poll", <<<<Current>>>>)}
<1> DEFINE m == Current
           step == IF endpoint.batching THEN "buffer" ELSE "flush"
<1>1. m \in 1..sent /\ m \in Arrived /\ Arrived' = Arrived
  BY PageOf DEF Arrived, Wanted, configVars
<1>2. Sequence(rows)' /\ Range(rows') = Range(rows) \union {m}
  <2>1. rows \in Seq(Arrived) /\ IsInjective(rows)
    BY DEF Types, Sequences, Sequence
  <2>2. m \notin Range(rows)
    BY <2>1, RangeOf DEF Stored
  <2>3. rows' = Append(rows, m)
    BY DEF StoreAndPass, RecordPending
  <2> HIDE DEF m
  <2>4. /\ rows' \in Seq(Arrived) /\ IsInjective(rows')
        /\ Range(rows') = Range(rows) \union {m}
    BY <1>1, <2>1, <2>2, <2>3, AppendOf
  <2> QED
    BY <1>1, <2>4 DEF Sequence
<1>3. PollAt(step)
  BY DEF StoreAndPass
<1>4. step \in {"buffer", "flush"}
  OBVIOUS
<1>5. /\ poll' = [at |-> step, page |-> poll.page, next |-> poll.next]
      /\ Position' = Position /\ Current' = m
  <2> HIDE DEF step
  <2> QED
    BY <1>3, <1>4, PollAtOf
<1>6. poll'.at = step /\ poll'.page = poll.page /\ poll'.next = poll.next
  BY <1>5
<1>7. Page'
  <2>1. poll' \in [at : {"idle", "next", "store", "giveback", "buffer", "flush"},
                   page : Seq(1..sent), next : 1..(sent + 1)]
    <3> HIDE DEF step
    <3> QED
      BY <1>4, <1>5, PageOf
  <2>2. poll'.at = "buffer" => endpoint.batching
    BY <1>6
  <2>3. poll'.at = "flush" => ~endpoint.batching
    BY <1>6
  <2>4. poll'.at \in {"buffer", "flush"}
    BY <1>4, <1>6
  <2> HIDE DEF step
  <2> QED
    BY <1>1, <1>5, <1>6, <2>1, <2>2, <2>3, <2>4 DEF Types, Page, Wanted, configVars
<1>8. Behind'
  <2>1. poll'.at # "idle" /\ poll.at # "idle"
    BY <1>6
  <2>2. Telegram' = Telegram /\ (~Telegram => poll.at = "store" /\ m \in claims)
    BY DEF Types, Page, Behind, Telegram, configVars
  <2> HIDE DEF step
  <2>3. ASSUME NEW c \in Conversations, NEW b \in Range(buffer[c]) PROVE Passed(b)'
    <3>1. Passed(b) /\ b \in Nat
      BY BufferedNat DEF Types, Behind
    <3>2. b # m
      <4>1. CASE Telegram
        <5>1. b < cursor /\ cursor <= m /\ cursor \in Nat /\ m \in Nat
          BY <1>1, <2>1, <3>1, <4>1, PageOf, Basics DEF Types, Behind, Passed, Numbers
        <5> QED
          BY <3>1, <5>1
      <4>2. CASE ~Telegram
        BY <2>2, <3>1, <4>2 DEF Passed
      <4> QED
        BY <4>1, <4>2
    <3> QED
      BY <1>5, <2>2, <3>1, <3>2 DEF Passed
  <2> QED
    BY <1>5, <2>1, <2>2, <2>3 DEF Types, Behind, configVars
<1>9. \A f \in flushers : f.by # "poll"
  BY DEF Types, Flushes, FlusherOK
<1>10. flushers' = IF endpoint.batching THEN flushers
                   ELSE flushers \union {Flusher("poll", <<<<m>>>>)}
  BY DEF StoreAndPass
<1>11. Flushes'
  <2>1. \A f \in flushers : FlusherOK(f)'
    <3> TAKE f \in flushers
    <3>1. FlusherOK(f) /\ f.by # "poll"
      BY <1>9 DEF Types, Flushes
    <3> QED
      BY <1>1, <3>1, FlusherStays DEF configVars
  <2>2. CASE endpoint.batching
    BY <1>9, <1>10, <2>1, <2>2 DEF Flushes, Running
  <2>3. CASE ~endpoint.batching
    <3>1. PICK x : x = m
      OBVIOUS
    <3> DEFINE new == Flusher("poll", <<<<x>>>>)
    <3>2. <<<<x>>>> \in Seq(Batches') /\ <<<<x>>>> # <<>>
      BY <1>1, <3>1, OneMessage, BatchesGrow
    <3>3. poll'.at = "flush" /\ Current' = x
      BY <1>5, <2>3, <3>1
    <3>4. new = [by |-> "poll", left |-> <<<<x>>>>, at |-> "turn"]
      BY DEF Flusher
    <3>5. flushers' = flushers \union {new}
      BY <1>10, <2>3, <3>1
    <3>6. /\ new = [by |-> new.by, left |-> new.left, at |-> new.at]
          /\ new.by = "poll" /\ new.left = <<<<x>>>> /\ new.at = "turn"
      BY <3>4
    <3> HIDE DEF new
    <3>7. FlusherOK(new)'
      BY <3>2, <3>3, <3>6 DEF FlusherOK
    <3> QED
      BY <1>9, <2>1, <3>5, <3>7 DEF Flushes, Running
  <2> QED
    BY <2>2, <2>3
<1> QED
  BY <1>2, <1>5, <1>6, <1>7, <1>8, <1>10, <1>11

\* An update is marked or registered, and the poll goes on.
LEMMA UpdateHandledTypes ==
    ASSUME Types, Telegram, poll.page # <<>>, poll.at # "idle", UpdateHandled(Current)
    PROVE  /\ cursor' = Current + 1 /\ cursor' \in 1..(sent + 1) /\ saved' \in 1..(sent + 1)
           /\ unacked' \in Seq(1..sent) /\ IsInjective(unacked') /\ acked' \subseteq Range(unacked')
           /\ acked' \subseteq acked \union {Current}
           /\ saved' = saved \/ \E x \in acked \union {Current} : saved' = x + 1
           /\ NextOnPage
<1> DEFINE m == Current
           order == Registered(m)
           ms == <<m>>
<1>1. /\ m \in 1..sent /\ m = Position /\ sent \in Nat /\ saved \in 1..(sent + 1)
      /\ cursor <= Position /\ cursor \in 1..(sent + 1)
  BY PageOf, Basics DEF Types, Behind, Numbers
<1>2. NextOnPage /\ cursor' = IF m + 1 > cursor THEN m + 1 ELSE cursor
  BY DEF UpdateHandled, AdvanceFetchOffset
<1>3. cursor' = m + 1
  BY <1>1, <1>2
<1> HIDE DEF m
<1>4. /\ unacked \in Seq(1..sent) /\ IsInjective(unacked) /\ acked \subseteq Range(unacked)
      /\ Range(unacked) \subseteq 1..sent
  BY RangeOf DEF Types, Sequences
<1>5. /\ order \in Seq(1..sent) /\ IsInjective(order) /\ Range(order) = Range(unacked) \union {m}
      /\ Range(ms) = {m}
  <2> DEFINE S == 1..sent
  <2>1. m \in S /\ unacked \in Seq(S)
    BY <1>1, <1>4
  <2> HIDE DEF S
  <2>2. /\ order \in Seq(S) /\ IsInjective(order) /\ Range(order) = Range(unacked) \union {m}
        /\ Range(ms) = {m}
    BY <1>4, <2>1, RegisteredOf, OneOf
  <2> QED
    BY <2>2 DEF S
<1>6. /\ unacked' \in Seq(1..sent) /\ IsInjective(unacked') /\ acked' \subseteq Range(unacked')
      /\ acked' \subseteq acked \union {m}
      /\ saved' = saved \/ \E x \in acked \union {m} : saved' = x + 1
  <2>1. CASE AcknowledgedAtOnce(m)
    <3> DEFINE S == 1..sent
    <3>1. Acknowledge(order, ms)
      BY <2>1 DEF UpdateHandled, m
    <3>2. S \in SUBSET Nat /\ order \in Seq(S) /\ acked \union Range(ms) \subseteq Range(order)
      BY <1>4, <1>5
    <3> HIDE DEF S, order, ms
    <3>3. /\ unacked' \in Seq(S) /\ IsInjective(unacked')
          /\ acked' \subseteq Range(unacked') /\ acked' \subseteq acked \union Range(ms)
          /\ saved' = saved \/ \E x \in acked \union Range(ms) : saved' = x + 1
      BY <1>5, <3>1, <3>2, AcknowledgeOf
    <3> QED
      BY <1>5, <3>3 DEF S
  <2>2. CASE ~AcknowledgedAtOnce(m)
    <3>1. unacked' = order /\ acked' = acked /\ saved' = saved
      BY <2>2 DEF UpdateHandled, m
    <3> QED
      BY <1>4, <1>5, <3>1
  <2> QED
    BY <2>1, <2>2
<1>7. saved' \in 1..(sent + 1)
  <2>1. acked \union {m} \subseteq 1..sent
    BY <1>1, <1>4
  <2> QED
    BY <1>1, <1>6, <2>1
<1>8. cursor' \in 1..(sent + 1)
  BY <1>1, <1>3
<1> QED
  BY <1>2, <1>3, <1>6, <1>7, <1>8 DEF m

\* The poll has done with a message: what it knows of the page.
LEMMA NextOnPageTypes ==
    ASSUME Types, NextOnPage, poll.page # <<>>, poll.at # "idle",
           UNCHANGED <<configVars, sent, service>>,
           IF Telegram THEN cursor' = Current + 1 ELSE claims \union {Current} \subseteq claims'
    PROVE  /\ Page' /\ poll'.at = "next" /\ Position' = Position + 1
           /\ Telegram => cursor' <= Position'
           /\ \A b \in Nat : Passed(b) \/ b = Current => Passed(b)'
<1>1. /\ poll' = [at |-> "next", page |-> Tail(poll.page), next |-> poll.next]
      /\ Tail(poll.page) \in Seq(1..sent) /\ Position' = Position + 1
      /\ \A i \in 1..Len(poll'.page) : poll'.page[i] = Position' + i - 1
  BY NextOnPageOf
<1>2. poll'.at = "next" /\ service = "polling"
  BY <1>1 DEF Types, Page
<1>3. poll' \in [at : {"idle", "next", "store", "giveback", "buffer", "flush"},
                 page : Seq(1..sent), next : 1..(sent + 1)]
  BY <1>1, PageOf
<1>4. Page'
  BY <1>1, <1>2, <1>3 DEF Page
<1>5. /\ Current = Position /\ Position \in Int /\ cursor \in Nat /\ sent \in Nat
      /\ Telegram => cursor <= Position
  BY PageOf, Basics DEF Types, Behind, Numbers
<1>6. Telegram' = Telegram
  BY DEF Telegram, configVars
<1>7. ASSUME NEW b \in Nat, Passed(b) \/ b = Current PROVE Passed(b)'
  <2>1. Telegram => b < cursor'
    BY <1>5, <1>7 DEF Passed
  <2>2. ~Telegram => b \in claims'
    BY <1>7 DEF Passed
  <2> QED
    BY <1>2, <1>6, <2>1, <2>2 DEF Passed
<1>8. Telegram => cursor' <= Position'
  BY <1>1, <1>5
<1> QED
  BY <1>1, <1>2, <1>4, <1>7, <1>8

LEMMA BufferBehind ==
    ASSUME Types, UNCHANGED <<endpoint, service, buffer>>, poll'.at \in {"idle", "next"},
           \A b \in Nat : Passed(b) => Passed(b)',
           Telegram /\ poll'.at # "idle" => cursor' <= Position'
    PROVE  Behind'
BY BufferedNat DEF Types, Behind, Telegram

LEMMA TakeUpdateTypes == Types /\ TakeUpdate => Types'
<1> SUFFICES ASSUME Types, TakeUpdate PROVE Types'
  OBVIOUS
<1>1. /\ Telegram /\ service = "polling" /\ poll.at = "next" /\ poll.page # <<>>
      /\ UNCHANGED <<endpoint, kind, sent, forgotten, settled, claims, service, buffer, retry,
                     parked, interrupted>>
  BY DEF TakeUpdate, OnPage, configVars, remoteVars, historyVars
<1>2. UNCHANGED configVars /\ Arrived' = Arrived
  BY <1>1 DEF configVars, Arrived, Wanted
<1>3. CASE Wanted(Current) /\ ~Stored(Current)
  <2>1. /\ StoreAndPass(Current) /\ unacked' = Registered(Current)
        /\ UNCHANGED <<cursor, acked, saved>>
    BY <1>3 DEF TakeUpdate
  <2>2. Sequence(rows)' /\ Flushes' /\ Page' /\ Behind'
    BY <1>1, <1>2, <1>3, <2>1, StoreAndPassTypes
  <2>3. Numbers'
    BY <1>1, <1>2, <2>1, NumbersKept
  <2>4. Sequences'
    <3> DEFINE S == 1..sent
    <3>1. Current \in S /\ unacked \in Seq(S) /\ IsInjective(unacked)
      BY <1>1, PageOf DEF Types, Sequences
    <3> HIDE DEF S
    <3>2. /\ unacked' \in Seq(S) /\ IsInjective(unacked')
          /\ Range(unacked') = Range(unacked) \union {Current}
      BY <2>1, <3>1, RegisteredOf
    <3> QED
      BY <1>1, <1>2, <2>1, <2>2, <3>2 DEF S, Types, Sequences, BatchOf, Sequence
  <2> QED
    BY <2>2, <2>3, <2>4 DEF Types
<1>4. CASE ~(Wanted(Current) /\ ~Stored(Current))
  <2>1. UpdateHandled(Current) /\ UNCHANGED <<rows, flushers>>
    BY <1>4 DEF TakeUpdate
  <2>2. /\ cursor' = Current + 1 /\ cursor' \in 1..(sent + 1) /\ saved' \in 1..(sent + 1)
        /\ unacked' \in Seq(1..sent) /\ IsInjective(unacked') /\ acked' \subseteq Range(unacked')
        /\ NextOnPage
    BY <1>1, <2>1, UpdateHandledTypes
  <2>3. /\ Page' /\ poll'.at = "next" /\ (Telegram => cursor' <= Position')
        /\ \A b \in Nat : Passed(b) => Passed(b)'
    BY <1>1, <1>2, <2>2, NextOnPageTypes
  <2>4. Behind'
    BY <1>1, <2>3, BufferBehind
  <2>5. Numbers'
    BY <1>1, <1>2, <2>2 DEF Types, Numbers
  <2>6. Sequences'
    BY <1>1, <1>2, <2>1, <2>2 DEF Types, Sequences, BatchOf, Sequence
  <2>7. Flushes'
    BY <1>1, <1>2, <2>1, FlushesSame
  <2> QED
    BY <2>3, <2>4, <2>5, <2>6, <2>7 DEF Types
<1> QED
  BY <1>3, <1>4

LEMMA ClaimEventTypes == Types /\ ClaimEvent => Types'
<1> SUFFICES ASSUME Types, ClaimEvent PROVE Types'
  OBVIOUS
<1>1. /\ ~Telegram /\ service = "polling" /\ poll.at = "next" /\ poll.page # <<>>
      /\ claims' = claims \union {Current}
      /\ UNCHANGED <<configVars, remoteVars, coalescerVars, cursor, buffer, service, interrupted>>
  BY DEF ClaimEvent, OnPage
<1>2. UNCHANGED <<sent, forgotten, rows, saved, unacked, acked, flushers, retry, settled, parked>>
  BY <1>1 DEF remoteVars, coalescerVars
<1>3. Numbers'
  <2>1. Current \in 1..sent
    BY <1>1, PageOf
  <2> QED
    BY <1>1, <1>2, <2>1 DEF Types, Numbers, Arrived, Wanted, configVars
<1>4. Sequences'
  BY <1>1, <1>2, SequencesKept DEF configVars
<1>5. Flushes'
  BY <1>1, <1>2, FlushesSame
<1>6. ASSUME NEW step \in {"store", "giveback"}, Current \notin claims,
             step = "store" => Wanted(Current), PollAt(step)
      PROVE  Types'
  <2>2. /\ poll' = [at |-> step, page |-> poll.page, next |-> poll.next]
        /\ Position' = Position /\ Current' = Current
    BY <1>6, PollAtOf
  <2>3. poll'.at = step /\ poll'.page = poll.page
    BY <2>2
  <2>4. poll' \in [at : {"idle", "next", "store", "giveback", "buffer", "flush"},
                   page : Seq(1..sent), next : 1..(sent + 1)]
    BY <2>2, PageOf
  <2>5. Page'
    BY <1>1, <1>2, <1>6, <2>2, <2>3, <2>4 DEF Types, Page, Wanted, Telegram, configVars
  <2>6. Behind'
    BY <1>1, <1>6, <2>2, <2>3 DEF Types, Behind, Passed, Telegram, configVars
  <2> QED
    BY <1>3, <1>4, <1>5, <2>5, <2>6 DEF Types
<1>7. CASE NextOnPage
  <2>1. Page' /\ poll'.at = "next" /\ \A b \in Nat : Passed(b) => Passed(b)'
    BY <1>1, <1>2, <1>7, NextOnPageTypes
  <2>2. Behind'
    BY <1>1, <2>1, BufferBehind DEF configVars
  <2> QED
    BY <1>3, <1>4, <1>5, <2>1, <2>2 DEF Types
<1>8. \/ NextOnPage
      \/ Current \notin claims /\ Wanted(Current) /\ PollAt("store")
      \/ Current \notin claims /\ PollAt("giveback")
  BY DEF ClaimEvent
<1> QED
  BY <1>6, <1>7, <1>8

LEMMA StoreRaisesTypes == Types /\ StoreRaises => Types'
<1> SUFFICES ASSUME Types, StoreRaises PROVE Types'
  OBVIOUS
<1>1. /\ service = "polling" /\ poll.at = "store" /\ poll.page # <<>> /\ PollAt("giveback")
      /\ UNCHANGED <<endpoint, kind, sent, forgotten, rows, saved, cursor, unacked, acked, buffer,
                     flushers, retry, settled, parked, claims, service, interrupted>>
  BY DEF StoreRaises, OnPage, configVars, remoteVars, historyVars
<1>2. /\ poll' = [at |-> "giveback", page |-> poll.page, next |-> poll.next]
      /\ Position' = Position /\ Current' = Current
  BY <1>1, PollAtOf
<1>3. poll'.at = "giveback" /\ poll'.page = poll.page
  BY <1>2
<1>4. Numbers' /\ Sequences' /\ Flushes'
  BY <1>1, NumbersKept, SequencesKept, FlushesSame DEF configVars
<1>5. poll' \in [at : {"idle", "next", "store", "giveback", "buffer", "flush"},
                 page : Seq(1..sent), next : 1..(sent + 1)]
  BY <1>2, PageOf
<1>6. Page'
  BY <1>1, <1>2, <1>3, <1>5 DEF Types, Page, Telegram
<1>7. Behind'
  BY <1>1, <1>2, <1>3 DEF Types, Behind, Passed, Telegram
<1> QED
  BY <1>4, <1>6, <1>7 DEF Types

LEMMA GiveClaimBackTypes == Types /\ GiveClaimBack => Types'
<1> SUFFICES ASSUME Types, GiveClaimBack PROVE Types'
  OBVIOUS
<1>1. /\ service = "polling" /\ poll.at = "giveback" /\ poll' = Idle
      /\ claims' = claims \ {Current}
      /\ UNCHANGED <<endpoint, kind, sent, forgotten, rows, saved, cursor, unacked, acked, buffer,
                     flushers, retry, settled, parked, service, interrupted>>
  BY DEF GiveClaimBack, OnPage, configVars, remoteVars, coalescerVars
<1>2. ~Telegram /\ poll'.at = "idle"
  BY <1>1 DEF Types, Page, Idle
<1>3. Numbers'
  BY <1>1 DEF Types, Numbers, Arrived, Wanted
<1>4. Sequences' /\ Flushes'
  BY <1>1, SequencesKept, FlushesSame DEF configVars
<1>5. Page'
  BY <1>1, IdlePage
<1>6. Behind'
  BY <1>1, <1>2 DEF Types, Behind, Passed, Telegram
<1> QED
  BY <1>3, <1>4, <1>5, <1>6 DEF Types

LEMMA StoreEventTypes == Types /\ StoreEvent => Types'
<1> SUFFICES ASSUME Types, StoreEvent PROVE Types'
  OBVIOUS
<1>1. /\ service = "polling" /\ poll.at = "store" /\ poll.page # <<>>
      /\ UNCHANGED <<endpoint, kind, sent, forgotten, settled, saved, cursor, unacked, acked,
                     buffer, retry, parked, claims, service, interrupted>>
  BY DEF StoreEvent, OnPage, configVars, remoteVars, historyVars
<1>2. UNCHANGED configVars /\ Arrived' = Arrived
  BY <1>1 DEF configVars, Arrived, Wanted
<1>3. Numbers'
  BY <1>1, <1>2, NumbersKept
<1>4. Wanted(Current) /\ ~Telegram
  BY <1>1 DEF Types, Page
<1>5. CASE Stored(Current)
  <2>1. NextOnPage /\ UNCHANGED <<rows, flushers>>
    BY <1>5 DEF StoreEvent
  <2>0. Current \in claims
    BY <1>1, <1>4 DEF Types, Behind
  <2>2. Page' /\ poll'.at = "next" /\ \A b \in Nat : Passed(b) => Passed(b)'
    BY <1>1, <1>2, <1>4, <2>0, <2>1, NextOnPageTypes
  <2>3. Behind'
    BY <1>1, <1>4, <2>2, BufferBehind
  <2>4. Sequences'
    BY <1>1, <2>1, SequencesKept
  <2>5. Flushes'
    BY <1>1, <1>2, <2>1, FlushesSame
  <2> QED
    BY <1>3, <2>2, <2>3, <2>4, <2>5 DEF Types
<1>6. CASE ~Stored(Current)
  <2>1. StoreAndPass(Current)
    BY <1>6 DEF StoreEvent
  <2>2. Sequence(rows)' /\ Flushes' /\ Page' /\ Behind'
    BY <1>1, <1>2, <1>4, <1>6, <2>1, StoreAndPassTypes
  <2>3. Sequences'
    BY <1>1, <1>2, <2>2 DEF Types, Sequences, BatchOf, Sequence
  <2> QED
    BY <1>3, <2>2, <2>3 DEF Types
<1> QED
  BY <1>5, <1>6

\* What follows when the poll has done with its message and Telegram has marked it.
LEMMA PassedOn ==
    ASSUME Types, poll.page # <<>>, poll.at \in {"buffer", "flush"},
           UNCHANGED <<configVars, sent, service, claims>>,
           IF Telegram THEN UpdateHandled(Current)
           ELSE NextOnPage /\ UNCHANGED <<cursor, unacked, acked, saved>>
    PROVE  /\ cursor' \in 1..(sent + 1) /\ saved' \in 1..(sent + 1)
           /\ unacked' \in Seq(1..sent) /\ IsInjective(unacked') /\ acked' \subseteq Range(unacked')
           /\ Page' /\ poll'.at = "next" /\ Position' = Position + 1
           /\ Telegram => cursor' <= Position'
           /\ \A b \in Nat : Passed(b) \/ b = Current => Passed(b)'
<1>1. /\ cursor' \in 1..(sent + 1) /\ saved' \in 1..(sent + 1)
      /\ unacked' \in Seq(1..sent) /\ IsInjective(unacked') /\ acked' \subseteq Range(unacked')
      /\ NextOnPage
      /\ IF Telegram THEN cursor' = Current + 1 ELSE claims \union {Current} \subseteq claims'
  <2>1. CASE Telegram
    BY <2>1, UpdateHandledTypes
  <2>2. CASE ~Telegram
    BY <2>2 DEF Types, Numbers, Sequences, Behind
  <2> QED
    BY <2>1, <2>2
<1> QED
  BY <1>1, NextOnPageTypes

LEMMA MessagePassedTypes == Types /\ MessagePassed => Types'
<1> SUFFICES ASSUME Types, MessagePassed PROVE Types'
  OBVIOUS
<1>1. /\ service = "polling" /\ poll.page # <<>> /\ poll.at \in {"buffer", "flush"}
      /\ IF Telegram THEN UpdateHandled(Current)
         ELSE NextOnPage /\ UNCHANGED <<cursor, unacked, acked, saved>>
      /\ UNCHANGED <<endpoint, kind, sent, forgotten, settled, rows, flushers, retry, parked,
                     claims, service, interrupted>>
  BY DEF MessagePassed, OnPage, configVars, remoteVars, historyVars
<1>2. UNCHANGED configVars /\ Arrived' = Arrived
  BY <1>1 DEF configVars, Arrived, Wanted
<1>3. /\ cursor' \in 1..(sent + 1) /\ saved' \in 1..(sent + 1)
      /\ unacked' \in Seq(1..sent) /\ IsInjective(unacked') /\ acked' \subseteq Range(unacked')
      /\ Page' /\ poll'.at = "next" /\ Position' = Position + 1
      /\ Telegram => cursor' <= Position'
      /\ \A b \in Nat : Passed(b) \/ b = Current => Passed(b)'
  BY <1>1, <1>2, PassedOn
<1>4. Numbers'
  BY <1>1, <1>2, <1>3 DEF Types, Numbers
<1>5. CASE poll.at = "flush"
  <2>1. Running("poll") = {} /\ UNCHANGED buffer
    BY <1>5 DEF MessagePassed, OnPage
  <2>2. Sequences'
    BY <1>1, <1>2, <1>3, <2>1 DEF Types, Sequences, BatchOf, Sequence
  <2>3. Behind'
    BY <1>1, <1>3, <2>1, BufferBehind
  <2>4. Flushes'
    <3>1. \A f \in flushers : f.by # "poll"
      BY <2>1 DEF Running
    <3>2. \A f \in flushers : FlusherOK(f)'
      BY <1>1, <1>2, <3>1, FlusherStays DEF Types, Flushes
    <3> QED
      BY <1>1, <3>1, <3>2 DEF Flushes, Running
  <2> QED
    BY <1>3, <1>4, <2>2, <2>3, <2>4 DEF Types
<1>6. CASE poll.at = "buffer"
  <2> DEFINE m == Current
             k == Conversation[m]
  <2>1. Enqueue(m)
    BY <1>6 DEF MessagePassed, OnPage
  <2>2. /\ m \in Arrived /\ m \in Nat /\ m = Position /\ endpoint.batching
    BY <1>1, <1>6, PageOf, Basics DEF Arrived, Types, Page
  <2>3. k \in Conversations
    BY <2>2, Basics DEF Conversations
  <2> DEFINE s == buffer[k]
  <2>4. s \in Seq(Arrived) /\ IsInjective(s) /\ \A i \in DOMAIN s : Conversation[s[i]] = k
    BY <2>3 DEF Types, Sequences, BatchOf, Sequence
  <2>5. m \notin Range(s)
    BY <1>6, <2>2, <2>3 DEF Types, Behind, Passed
  <2> DEFINE r == Append(s, m)
  <2>6. buffer' = [c \in Conversations |-> IF c = k THEN r ELSE buffer[c]]
    BY <2>1, <2>3 DEF Enqueue, Types, Sequences
  <2> HIDE DEF m, s
  <2>7. r \in Seq(Arrived) /\ IsInjective(r) /\ Range(r) = Range(s) \union {m}
    BY <2>2, <2>4, <2>5, AppendOf
  <2>8. \A i \in DOMAIN r : Conversation[r[i]] = k
    <3>1. \A x \in Range(r) : Conversation[x] = k
      BY <2>4, <2>7 DEF Range
    <3> QED
      BY <3>1 DEF Range
  <2> HIDE DEF k
  <2>9. BatchOf(r, k)
    BY <2>7, <2>8 DEF BatchOf, Sequence
  <2>10. Sequences'
    <3>1. \A c \in Conversations : BatchOf(buffer'[c], c)
      BY <2>6, <2>9 DEF Types, Sequences
    <3>2. buffer' = [c \in Conversations |-> buffer'[c]]
      BY <2>6
    <3> HIDE DEF r
    <3> QED
      BY <1>1, <1>2, <1>3, <3>1, <3>2 DEF Types, Sequences, BatchOf, Sequence
  <2>11. Flushes'
    BY <1>1, <1>2, <1>6, FlushesSame
  <2>12. Behind'
    <3>1. ASSUME NEW c \in Conversations, NEW b \in Range(buffer'[c]) PROVE Passed(b)'
      <4>1. CASE c = k /\ b = m
        BY <1>3, <2>2, <4>1 DEF m
      <4>2. CASE ~(c = k /\ b = m)
        <5>1. b \in Range(buffer[c])
          BY <2>6, <2>7, <3>1, <4>2 DEF s
        <5>2. Passed(b)
          BY <5>1 DEF Types, Behind
        <5>3. buffer[c] \in Seq(Arrived)
          BY DEF Types, Sequences, BatchOf, Sequence
        <5>4. b \in Nat
          BY <5>1, <5>3, RangeOf, Basics
        <5> QED
          BY <1>3, <5>2, <5>4
      <4> QED
        BY <4>1, <4>2
    <3> QED
      BY <1>1, <1>3, <2>2, <3>1 DEF Types, Page, Behind, Telegram, Current
  <2> QED
    BY <1>3, <1>4, <2>10, <2>11, <2>12 DEF Types
<1> QED
  BY <1>1, <1>5, <1>6

\* The rows that are left are a sequence of the same kind.
LEMMA ReleaseTypes ==
    ASSUME Types, Arrived' = Arrived, NEW ms, Release(ms)
    PROVE  Sequence(rows)' /\ Range(rows') = Range(rows) \ ms
<1> DEFINE S == Messages \ ms
           A == Arrived
<1>1. rows' = Those(S, rows)
  BY DEF Release
<1>2. rows \in Seq(A) /\ IsInjective(rows)
  BY DEF Types, Sequences, Sequence
<1>3. A \subseteq Messages
  BY Basics
<1> HIDE DEF S, A
<1>4. /\ rows' \in Seq(A \cap S) /\ IsInjective(rows')
      /\ \A x : Contains(rows', x) <=> Contains(rows, x) /\ x \in S
  BY <1>1, <1>2, ThoseOf
<1>5. rows' \in Seq(A)
  BY <1>4, SeqMonotonic
<1>6. Range(rows) \subseteq A /\ \A x : x \in Range(rows') <=> x \in Range(rows) /\ x \in S
  BY <1>2, <1>4, <1>5, RangeOf
<1> QED
  BY <1>3, <1>4, <1>5, <1>6 DEF Sequence, S, A

LEMMA PollFailsTypes == Types /\ PollFails => Types'
<1> SUFFICES ASSUME Types, PollFails PROVE Types'
  OBVIOUS
<1>1. /\ service = "polling" /\ poll.page # <<>> /\ poll.at = "flush" /\ poll' = Idle
      /\ UNCHANGED <<endpoint, kind, sent, forgotten, cursor, buffer, retry, service, interrupted>>
  BY DEF PollFails, OnPage, configVars, remoteVars
<1>2. UNCHANGED configVars /\ Arrived' = Arrived
  BY <1>1 DEF configVars, Arrived, Wanted
<1>3. PICK f \in Running("poll") : /\ DeliveryTimesOut(f) \/ FlushRaises(f)
                                   /\ flushers' = flushers \ {f}
  BY DEF PollFails
<1>4. UNCHANGED <<saved, unacked, acked, settled>>
  BY <1>3 DEF DeliveryTimesOut, FlushRaises
<1>5. Current \in 1..sent /\ Current \in Arrived /\ ~endpoint.batching
  BY <1>1, PageOf DEF Types, Page, Arrived
<1>6. Numbers'
  <2>1. claims' \subseteq 1..sent /\ parked' \subseteq Arrived
    BY <1>5 DEF PollFails, Types, Numbers
  <2> QED
    BY <1>1, <1>2, <1>4, <2>1 DEF Types, Numbers
<1>7. Sequences'
  <2>1. Sequence(rows)'
    <3>1. CASE Telegram
      <4>1. Release({Current})
        BY <3>1 DEF PollFails
      <4> QED
        BY <1>2, <4>1, ReleaseTypes
    <3>2. CASE ~Telegram
      <4>1. UNCHANGED rows
        BY <3>2 DEF PollFails
      <4> QED
        BY <1>2, <4>1 DEF Types, Sequences, Sequence
    <3> QED
      BY <3>1, <3>2
  <2> QED
    BY <1>1, <1>2, <1>4, <2>1 DEF Types, Sequences, BatchOf, Sequence
<1>8. Flushes'
  <2>1. \A g \in flushers' : g \in flushers /\ g.by # "poll"
    BY <1>3 DEF Types, Flushes, Running
  <2>2. \A g \in flushers' : FlusherOK(g)'
    BY <1>1, <1>2, <1>4, <2>1, FlusherStays DEF Types, Flushes
  <2> QED
    BY <2>1, <2>2 DEF Flushes, Running
<1>9. Page'
  BY <1>1, IdlePage
<1>10. Behind'
  <2>1. poll'.at = "idle"
    BY <1>1 DEF Idle
  <2>2. \A c \in Conversations : buffer[c] = <<>>
    BY <1>5 DEF Types, Behind
  <2>3. Range(<<>>) = {}
    BY DEF Range
  <2> QED
    BY <1>1, <2>1, <2>2, <2>3 DEF Behind
<1> QED
  BY <1>6, <1>7, <1>8, <1>9, <1>10 DEF Types

LEMMA EndPageTypes == Types /\ EndPage => Types'
<1> SUFFICES ASSUME Types, EndPage PROVE Types'
  OBVIOUS
<1>1. /\ service = "polling" /\ poll.at = "next" /\ poll.page = <<>> /\ poll' = Idle
      /\ IF Telegram THEN UNCHANGED <<cursor, saved>> ELSE cursor' = poll.next /\ saved' = poll.next
      /\ UNCHANGED <<endpoint, kind, sent, forgotten, settled, rows, unacked, acked, buffer,
                     flushers, retry, parked, claims, service, interrupted>>
  BY DEF EndPage, configVars, remoteVars, historyVars
<1>2. UNCHANGED configVars /\ Arrived' = Arrived
  BY <1>1 DEF configVars, Arrived, Wanted
<1>3. Position = poll.next /\ poll.next \in 1..(sent + 1)
  BY <1>1, PageOf
<1>4. Numbers'
  BY <1>1, <1>2, <1>3 DEF Types, Numbers
<1>5. Sequences'
  BY <1>1, SequencesKept
<1>6. Flushes'
  BY <1>1, <1>2, FlushesSame
<1>7. Page'
  BY <1>1, IdlePage
<1>8. Behind'
  <2>1. poll'.at = "idle"
    BY <1>1 DEF Idle
  <2>2. \A b : Passed(b) => Passed(b)'
    BY <1>1, <1>3, <2>1 DEF Passed, Telegram
  <2> QED
    BY <1>1, <2>1, <2>2, BufferBehind
<1> QED
  BY <1>4, <1>5, <1>6, <1>7, <1>8 DEF Types

LEMMA StartTypes == Types /\ Start => Types'
<1> SUFFICES ASSUME Types, Start PROVE Types'
  OBVIOUS
<1>1. /\ service = "down" /\ service' = "starting" /\ cursor' = saved
      /\ flushers' = FlushersFor("start", SplitRestoreBatches(rows))
      /\ UNCHANGED <<endpoint, kind, sent, forgotten, settled, rows, saved, unacked, acked, buffer,
                     retry, parked, claims, poll, interrupted>>
  BY DEF Start, configVars, remoteVars, historyVars
<1>2. UNCHANGED configVars /\ Arrived' = Arrived
  BY <1>1 DEF configVars, Arrived, Wanted
<1>3. poll.at = "idle" /\ \A c \in Conversations : buffer[c] = <<>>
  BY <1>1 DEF Types, Page, Behind
<1>4. Numbers'
  BY <1>1, <1>2 DEF Types, Numbers
<1>5. Sequences'
  BY <1>1, SequencesKept
<1>6. Flushes'
  <2>1. PICK s : s = SplitRestoreBatches(rows)
    OBVIOUS
  <2>2. PICK r : r = rows
    OBVIOUS
  <2>3. Sequence(r)
    BY <2>2 DEF Types, Sequences
  <2>4. s \in Seq(Batches)
    BY <2>1, <2>2, <2>3, SplitStored
  <2>5. s \in Seq(Batches')
    BY <1>2, <2>4, BatchesGrow
  <2>6. \A f \in FlushersFor("start", s) : FlusherOK(f)' /\ f.by # "poll"
    BY <2>5, FlusherOf
  <2> QED
    BY <1>1, <2>1, <2>6 DEF Flushes, Running
<1>7. Page'
  BY <1>1, <1>2, <1>3 DEF Types, Page, Position, Current
<1>8. Behind'
  <2>1. Range(<<>>) = {}
    BY DEF Range
  <2> QED
    BY <1>1, <1>3, <2>1 DEF Behind
<1> QED
  BY <1>4, <1>5, <1>6, <1>7, <1>8 DEF Types

LEMMA StartPollingTypes == Types /\ StartPolling => Types'
<1> SUFFICES ASSUME Types, StartPolling PROVE Types'
  OBVIOUS
<1>1. /\ service = "starting" /\ service' = "polling"
      /\ UNCHANGED <<configVars, remoteVars, coalescerVars, cursor, buffer, claims, poll,
                     interrupted>>
  BY DEF StartPolling
<1>2. UNCHANGED <<endpoint, kind, sent, forgotten, rows, saved, unacked, acked, flushers, retry,
                  settled, parked>>
  BY <1>1 DEF configVars, remoteVars, coalescerVars
<1>3. Numbers'
  BY <1>1, <1>2, NumbersKept
<1>4. Sequences'
  BY <1>1, <1>2, SequencesKept
<1>5. Flushes'
  BY <1>1, <1>2, FlushesSame DEF Current
<1>6. Page'
  BY <1>1, <1>2 DEF Types, Page, Position, Current, Wanted, Telegram
<1>7. Behind'
  BY <1>1, <1>2 DEF Types, Behind, Passed, Position, Current, Telegram
<1> QED
  BY <1>3, <1>4, <1>5, <1>6, <1>7 DEF Types

LEMMA CutOffTypes ==
    ASSUME Types
    PROVE  CutOff \subseteq Arrived
<1>1. poll.at \in {"store", "giveback"} /\ Wanted(Current) => Current \in Arrived
  BY PageOf DEF Types, Page, Arrived
<1> QED
  BY <1>1 DEF CutOff, Types, Numbers

\* What flush_all flushes.
LEMMA PendingOf ==
    ASSUME Types
    PROVE  Pending \in Seq(Batches)
           /\ \A i \in DOMAIN Pending : \E c \in Conversations : Pending[i] = buffer[c]
<1> DEFINE S == {Head(buffer[c]) : c \in {c \in Conversations : buffer[c] # <<>>}}
           all == [m \in Messages |-> m]
           begun == Those(S, all)
<1>1. all \in Seq(Messages)
  BY Basics
<1> HIDE DEF S, all
<1>2. begun \in Seq(Messages \cap S)
  BY <1>1, ThoseOf
<1> HIDE DEF begun
<1>3. DOMAIN begun = 1..Len(begun) /\ Len(begun) \in Nat
  BY <1>2, LenProperties
<1>4. ASSUME NEW i \in DOMAIN begun
      PROVE  \E c \in Conversations : /\ buffer[Conversation[begun[i]]] = buffer[c]
                                      /\ buffer[c] \in Batches
  <2>1. begun[i] \in S
    BY <1>2, <1>3, ElementOfSeq
  <2>2. PICK c \in Conversations : buffer[c] # <<>> /\ begun[i] = Head(buffer[c])
    BY <2>1 DEF S
  <2>3. BatchOf(buffer[c], c)
    BY DEF Types, Sequences
  <2> DEFINE b == buffer[c]
  <2>4. b \in Seq(Arrived) /\ b # <<>>
    BY <2>2, <2>3 DEF BatchOf, Sequence
  <2> HIDE DEF b
  <2>5. DOMAIN b = 1..Len(b) /\ Len(b) \in Nat /\ Len(b) # 0
    BY <2>4, RangeOf, EmptySeq
  <2>6. Head(b) = b[1]
    BY <2>4
  <2>7. Conversation[begun[i]] = c
    BY <2>2, <2>3, <2>5, <2>6 DEF b, BatchOf
  <2>8. b \in Batches
    BY <2>3, <2>4 DEF b, Batches, Tidy
  <2> QED
    BY <2>7, <2>8 DEF b
<1>5. Pending = [i \in DOMAIN begun |-> buffer[Conversation[begun[i]]]]
  BY DEF Pending, begun, S, all
<1>6. \A i \in 1..Len(begun) : Pending[i] \in Batches
  BY <1>3, <1>4, <1>5
<1> DEFINE B == Batches
<1> HIDE DEF B
<1>7. Pending \in Seq(B)
  BY <1>3, <1>5, <1>6 DEF B
<1> QED
  BY <1>3, <1>4, <1>5, <1>7 DEF B

LEMMA StopTypes == Types /\ Stop => Types'
<1> SUFFICES ASSUME Types, Stop PROVE Types'
  OBVIOUS
<1>1. /\ service = "polling" /\ service' = "stopping" /\ poll' = Idle /\ interrupted' = CutOff
      /\ flushers' = (flushers \ (Running("poll") \union Running("retry")))
             \union FlushersFor("stop", Pending)
      /\ buffer' = EmptyBuffer /\ retry' = EmptyBuffer
      /\ UNCHANGED <<endpoint, kind, sent, forgotten, settled, rows, saved, cursor, unacked, acked,
                     parked, claims>>
  BY DEF Stop, configVars, remoteVars, historyVars
<1>2. UNCHANGED configVars /\ Arrived' = Arrived
  BY <1>1 DEF configVars, Arrived, Wanted
<1>3. Numbers'
  BY <1>1, <1>2, CutOffTypes DEF Types, Numbers
<1>4. Sequences'
  <2>1. buffer' = [c \in Conversations |-> <<>>] /\ retry' = [c \in Conversations |-> <<>>]
    BY <1>1 DEF EmptyBuffer
  <2> QED
    BY <1>1, <1>2, <2>1, EmptyOfConversation DEF Types, Sequences, Sequence
<1>5. Flushes'
  <2>1. PICK s : s = Pending
    OBVIOUS
  <2>2. s \in Seq(Batches')
    BY <1>2, <2>1, PendingOf, BatchesGrow
  <2>3. \A f \in FlushersFor("stop", s) : FlusherOK(f)' /\ f.by # "poll"
    BY <2>2, FlusherOf
  <2>4. PICK new : new = FlushersFor("stop", s)
    OBVIOUS
  <2>5. PICK old : old = flushers \ (Running("poll") \union Running("retry"))
    OBVIOUS
  <2>6. /\ old \in SUBSET flushers /\ flushers' = old \union new
        /\ \A f \in old : f.by # "poll"
    BY <1>1, <2>1, <2>4, <2>5 DEF Running
  <2>7. Flushes
    BY DEF Types
  <2> QED
    BY <1>1, <1>2, <2>3, <2>4, <2>6, <2>7, FlushesKept
<1>6. Page'
  BY <1>1, IdlePage
<1>7. Behind'
  BY <1>1, NoBuffer
<1> QED
  BY <1>3, <1>4, <1>5, <1>6, <1>7 DEF Types

LEMMA ProcessEndsTypes == Types /\ ProcessEnds => Types'
<1> SUFFICES ASSUME Types, ProcessEnds PROVE Types'
  OBVIOUS
<1>1. /\ service' = "down" /\ poll' = Idle /\ interrupted' = CutOff
      /\ cursor' = 1 /\ unacked' = <<>> /\ acked' = {} /\ parked' = {}
      /\ buffer' = EmptyBuffer /\ flushers' = {} /\ retry' = EmptyBuffer
      /\ UNCHANGED <<endpoint, kind, sent, forgotten, settled, rows, saved, claims>>
  BY DEF ProcessEnds, configVars, remoteVars, historyVars
<1>2. UNCHANGED configVars /\ Arrived' = Arrived /\ sent \in Nat
  BY <1>1, Basics DEF configVars, Arrived, Wanted
<1>3. Numbers'
  BY <1>1, <1>2, CutOffTypes DEF Types, Numbers
<1>4. Sequences'
  <2>1. buffer' = [c \in Conversations |-> <<>>] /\ retry' = [c \in Conversations |-> <<>>]
    BY <1>1 DEF EmptyBuffer
  <2>2. <<>> \in Seq(1..sent) /\ IsInjective(<<>>)
    BY EmptyOf
  <2> QED
    BY <1>1, <1>2, <2>1, <2>2, EmptyOfConversation DEF Types, Sequences, Sequence
<1>5. Flushes'
  BY <1>1 DEF Flushes, Running
<1>6. Page'
  BY <1>1, IdlePage
<1>7. Behind'
  BY <1>1, NoBuffer
<1> QED
  BY <1>3, <1>4, <1>5, <1>6, <1>7 DEF Types

-----------------------------------------------------------------------------
(* Every step keeps the types: the flushes *)

LEMMA RunTurnTypes ==
    ASSUME Types, NEW CONSTANT f \in flushers, NEW CONSTANT result, RunTurn(f, result),
           UNCHANGED <<configVars, remoteVars, cursor, claims, service, poll, interrupted, buffer>>
    PROVE  Types'
<1>1. /\ UNCHANGED <<endpoint, kind, sent, forgotten, rows, saved, unacked, acked, retry, parked>>
      /\ Arrived' = Arrived
  BY DEF RunTurn, configVars, remoteVars, Arrived, Wanted
<1>2. /\ settled \subseteq settled' /\ settled' \subseteq Arrived
      /\ result # "reply" => Range(Batch(f)) \subseteq settled'
  BY BatchIn DEF RunTurn, Types, Numbers
<1>3. Numbers'
  BY <1>1, <1>2 DEF Types, Numbers
<1>4. Sequences'
  BY <1>1, SequencesKept
<1>5. Flushes'
  <2>1. PICK step \in {"deliver", "ack", "release"} :
          /\ At(f, step) /\ (step \in {"ack", "release"} => result # "reply")
          /\ (step = "ack" => Telegram)
    BY DEF RunTurn, AfterReply
  <2> QED
    BY <1>1, <1>2, <2>1, AtOf DEF Types
<1>6. Page'
  BY <1>1, PageKept DEF configVars
<1>7. Behind'
  BY <1>1, BehindKept
<1> QED
  BY <1>3, <1>4, <1>5, <1>6, <1>7 DEF Types

LEMMA DeliverTypes ==
    ASSUME Types, NEW CONSTANT f \in flushers, Deliver(f),
           UNCHANGED <<configVars, remoteVars, cursor, claims, service, poll, interrupted, buffer>>
    PROVE  Types'
<1>1. /\ UNCHANGED <<endpoint, kind, sent, forgotten, rows, saved, unacked, acked, retry, parked>>
      /\ Arrived' = Arrived
  BY DEF Deliver, configVars, remoteVars, Arrived, Wanted
<1>2. /\ settled \subseteq settled' /\ settled' \subseteq Arrived
      /\ Range(Batch(f)) \subseteq settled'
  BY BatchIn DEF Deliver, Types, Numbers
<1>3. Numbers'
  BY <1>1, <1>2 DEF Types, Numbers
<1>4. Sequences'
  BY <1>1, SequencesKept
<1>5. Flushes'
  <2>1. PICK step \in {"ack", "release"} : At(f, step) /\ (step = "ack" => Telegram)
    BY DEF Deliver, AfterReply
  <2> QED
    BY <1>1, <1>2, <2>1, AtOf DEF Types
<1>6. Page'
  BY <1>1, PageKept DEF configVars
<1>7. Behind'
  BY <1>1, BehindKept
<1> QED
  BY <1>3, <1>4, <1>5, <1>6, <1>7 DEF Types

\* The batch is acknowledged after what is known already.
LEMMA MarkedBatch ==
    ASSUME Types, NEW CONSTANT f \in flushers, Acknowledge(InOrder(Batch(f)), Batch(f))
    PROVE  /\ unacked' \in Seq(1..sent) /\ IsInjective(unacked') /\ acked' \subseteq Range(unacked')
           /\ acked' \subseteq acked \union Range(Batch(f)) /\ saved' \in 1..(sent + 1)
           /\ saved' = saved \/ \E x \in acked \union Range(Batch(f)) : saved' = x + 1
<1> DEFINE b == Batch(f)
           S == 1..sent
           order == InOrder(b)
<1>1. /\ unacked \in Seq(S) /\ IsInjective(unacked) /\ acked \subseteq Range(unacked)
      /\ saved \in 1..(sent + 1)
  BY DEF Types, Sequences, Numbers
<1>2. Arrived \subseteq S /\ S \subseteq Messages /\ S \in SUBSET Nat /\ sent \in Nat
  BY Basics
<1>3. b \in Seq(Arrived) /\ IsInjective(b) /\ Range(b) \subseteq S
  BY <1>2, BatchIn DEF Sequence
<1>4. Range(unacked) \subseteq S
  BY <1>1, RangeOf
<1> HIDE DEF S, b
<1>5. b \in Seq(S)
  BY <1>2, <1>3, SeqMonotonic
<1>6. /\ order \in Seq(S) /\ IsInjective(order)
      /\ Range(unacked) \union Range(b) \subseteq Range(order)
  BY <1>1, <1>2, <1>3, <1>5, InOrderOf
<1>7. Acknowledge(order, b) /\ acked \union Range(b) \subseteq Range(order)
  BY <1>1, <1>6 DEF b
<1> HIDE DEF order
<1>8. /\ unacked' \in Seq(S) /\ IsInjective(unacked')
      /\ acked' \subseteq Range(unacked') /\ acked' \subseteq acked \union Range(b)
      /\ saved' = saved \/ \E x \in acked \union Range(b) : saved' = x + 1
  BY <1>2, <1>6, <1>7, AcknowledgeOf
<1>9. saved' \in 1..(sent + 1)
  <2>1. \A x \in acked \union Range(b) : x \in 1..sent
    BY <1>1, <1>3, <1>4 DEF S
  <2> QED
    BY <1>1, <1>2, <1>8, <2>1
<1> QED
  BY <1>8, <1>9 DEF S, b

LEMMA MarkBatchTypes ==
    ASSUME Types, NEW CONSTANT f \in flushers, MarkBatchProcessed(f),
           UNCHANGED <<configVars, remoteVars, cursor, claims, service, poll, interrupted, buffer>>
    PROVE  Types'
<1>1. /\ UNCHANGED <<endpoint, kind, sent, forgotten, rows, settled, retry, parked>>
      /\ Arrived' = Arrived /\ f.at = "ack" /\ At(f, "release")
      /\ Acknowledge(InOrder(Batch(f)), Batch(f))
  BY DEF MarkBatchProcessed, configVars, remoteVars, Arrived, Wanted
<1>2. /\ unacked' \in Seq(1..sent) /\ IsInjective(unacked') /\ acked' \subseteq Range(unacked')
      /\ saved' \in 1..(sent + 1)
  BY <1>1, MarkedBatch
<1>3. Numbers'
  BY <1>1, <1>2 DEF Types, Numbers
<1>4. Sequences'
  BY <1>1, <1>2 DEF Types, Sequences, BatchOf, Sequence
<1>5. Flushes'
  <2>1. Range(Batch(f)) \subseteq settled'
    BY <1>1 DEF Types, Flushes, FlusherOK
  <2> QED
    BY <1>1, <2>1, AtOf DEF Types
<1>6. Page'
  BY <1>1, PageKept DEF configVars
<1>7. Behind'
  BY <1>1, BehindKept
<1> QED
  BY <1>3, <1>4, <1>5, <1>6, <1>7 DEF Types

LEMMA RetryForgotten ==
    ASSUME Types, Arrived' = Arrived, NEW CONSTANT f \in flushers, retry' = RetryAfter(f)
    PROVE  /\ retry' = [c \in Conversations |-> retry'[c]]
           /\ \A c \in Conversations : BatchOf(retry'[c], c)
           /\ \A c \in Conversations : retry'[c] = retry[c] \/ retry'[c] = <<>>
<1>1. retry = [c \in Conversations |-> retry[c]] /\ \A c \in Conversations : BatchOf(retry[c], c)
  BY DEF Types, Sequences
<1>2. ConversationOf(f) \in Conversations
  BY BatchIn
<1>3. \A c \in Conversations : BatchOf(<<>>, c)
  BY EmptySeq DEF BatchOf, Sequence, IsInjective
<1> QED
  BY <1>1, <1>2, <1>3 DEF RetryAfter

LEMMA ReleaseBatchTypes ==
    ASSUME Types, NEW CONSTANT f \in flushers, ReleaseBatch(f),
           UNCHANGED <<configVars, remoteVars, cursor, claims, service, poll, interrupted, buffer>>
    PROVE  Types'
<1>1. /\ UNCHANGED <<endpoint, kind, sent, forgotten, saved, unacked, acked, settled, parked>>
      /\ Arrived' = Arrived /\ Release(Range(Batch(f))) /\ NextBatch(f, f.by)
      /\ retry' = RetryAfter(f)
  BY DEF ReleaseBatch, configVars, remoteVars, Arrived, Wanted
<1>2. Sequence(rows)'
  BY <1>1, ReleaseTypes
<1>3. Numbers'
  BY <1>1 DEF Types, Numbers
<1>4. Sequences'
  <2>1. /\ retry' = [c \in Conversations |-> retry'[c]]
        /\ \A c \in Conversations : BatchOf(retry'[c], c)
    BY <1>1, RetryForgotten
  <2> QED
    BY <1>1, <1>2, <2>1 DEF Types, Sequences, BatchOf, Sequence
<1>5. Flushes'
  BY <1>1, NextBatchOf DEF Types
<1>6. Page'
  BY <1>1, PageKept DEF configVars
<1>7. Behind'
  BY <1>1, BehindKept
<1> QED
  BY <1>3, <1>4, <1>5, <1>6, <1>7 DEF Types

LEMMA FlushFailsTypes ==
    ASSUME Types, NEW CONSTANT f \in flushers, FlushFails(f),
           UNCHANGED <<configVars, remoteVars, cursor, buffer, claims, service, poll, interrupted>>
    PROVE  Types'
<1>1. /\ f.by # "poll"
      /\ UNCHANGED <<endpoint, kind, sent, forgotten, rows, saved, unacked, acked, settled>>
      /\ Arrived' = Arrived
  BY DEF FlushFails, DeliveryTimesOut, FlushRaises, configVars, remoteVars, Arrived, Wanted
<1>2. PICK timedOut \in BOOLEAN : HandleError(f, timedOut)
  BY DEF FlushFails
<1>3. PICK by : /\ by # "poll" /\ NextBatch(f, by)
                /\ \/ retry' = [retry EXCEPT ![ConversationOf(f)] = Batch(f)]
                   \/ retry' = RetryAfter(f)
                /\ parked' \subseteq parked \union Range(Batch(f))
  <2>1. CASE RetryScheduled(f, timedOut)
    <3>1. NextBatch(f, IF f.by = "retry" THEN "replaced" ELSE f.by)
      BY <1>2, <2>1 DEF HandleError
    <3> QED
      BY <1>1, <1>2, <2>1, <3>1 DEF HandleError
  <2>2. CASE ~RetryScheduled(f, timedOut)
    BY <1>1, <1>2, <2>2 DEF HandleError
  <2> QED
    BY <2>1, <2>2
<1>4. Numbers'
  BY <1>1, <1>3, BatchIn DEF Types, Numbers
<1>5. Sequences'
  <2>1. /\ retry' = [c \in Conversations |-> retry'[c]]
        /\ \A c \in Conversations : BatchOf(retry'[c], c)
    <3>1. CASE retry' = RetryAfter(f)
      BY <1>1, <3>1, RetryForgotten
    <3>2. CASE retry' = [retry EXCEPT ![ConversationOf(f)] = Batch(f)]
      <4>1. /\ retry = [c \in Conversations |-> retry[c]]
            /\ \A c \in Conversations : BatchOf(retry[c], c)
        BY DEF Types, Sequences
      <4>2. ConversationOf(f) \in Conversations /\ BatchOf(Batch(f), ConversationOf(f))
        BY BatchIn
      <4> QED
        BY <3>2, <4>1, <4>2
    <3> QED
      BY <1>3, <3>1, <3>2
  <2> QED
    BY <1>1, <2>1 DEF Types, Sequences, BatchOf, Sequence
<1>6. Flushes'
  BY <1>1, <1>3, NextBatchOf DEF Types
<1>7. Page'
  BY <1>1, PageKept DEF configVars
<1>8. Behind'
  BY <1>1, BehindKept
<1> QED
  BY <1>4, <1>5, <1>6, <1>7, <1>8 DEF Types

LEMMA FlushAfterDelayTypes ==
    ASSUME Types, NEW CONSTANT c \in Conversations, FlushAfterDelay(c),
           UNCHANGED <<configVars, remoteVars, cursor, claims, service, poll, interrupted>>
    PROVE  Types'
<1>1. /\ UNCHANGED <<endpoint, kind, sent, forgotten, rows, saved, unacked, acked, retry, settled,
                     parked>>
      /\ Arrived' = Arrived /\ buffer[c] # <<>> /\ buffer' = [buffer EXCEPT ![c] = <<>>]
      /\ flushers' = flushers \union {Flusher("timer", <<buffer[c]>>)}
  BY DEF FlushAfterDelay, Popped, configVars, remoteVars, Arrived, Wanted
<1>2. buffer' = [d \in Conversations |-> IF d = c THEN <<>> ELSE buffer[d]]
  BY <1>1 DEF Types, Sequences
<1>3. Numbers'
  BY <1>1, NumbersKept DEF configVars
<1>4. Sequences'
  <2>1. \A d \in Conversations : BatchOf(buffer'[d], d)
    <3>1. \A d \in Conversations : BatchOf(<<>>, d)
      BY EmptySeq DEF BatchOf, Sequence, IsInjective
    <3> QED
      BY <1>2, <3>1 DEF Types, Sequences
  <2>2. buffer' = [d \in Conversations |-> buffer'[d]]
    BY <1>2
  <2> QED
    BY <1>1, <2>1, <2>2 DEF Types, Sequences, BatchOf, Sequence
<1>5. Flushes'
  <2>1. PICK b : b = buffer[c]
    OBVIOUS
  <2>2. b \in Batches
    BY <1>1, <2>1 DEF Types, Sequences, Batches, Tidy, BatchOf, Sequence
  <2>3. <<b>> \in Seq(Batches') /\ <<b>> # <<>>
    <3>1. b \in Batches'
      BY <1>1, <2>2, BatchesGrow
    <3> QED
      BY <3>1
  <2>4. PICK s : s = <<b>>
    OBVIOUS
  <2>5. FlusherOK(Flusher("timer", s))' /\ Flusher("timer", s).by # "poll"
    BY <2>3, <2>4, FlusherOf
  <2>6. PICK new : new = {Flusher("timer", s)}
    OBVIOUS
  <2>7. flushers' = flushers \union new /\ \A f \in new : FlusherOK(f)' /\ f.by # "poll"
    BY <1>1, <2>1, <2>4, <2>5, <2>6
  <2>8. PICK old : old = flushers
    OBVIOUS
  <2>9. /\ old \in SUBSET flushers /\ flushers' = old \union new
        /\ \A f \in old : f.by = "poll" => poll'.at = "flush" /\ Current' = Current
    BY <2>7, <2>8 DEF Types, Flushes, FlusherOK, Current
  <2>10. settled \subseteq settled' /\ Flushes
    BY <1>1 DEF Types
  <2> QED
    BY <1>1, <2>7, <2>9, <2>10, FlushesKept
<1>6. Page'
  BY <1>1, PageKept DEF configVars
<1>7. Behind'
  <2>1. Range(<<>>) = {}
    BY DEF Range
  <2> QED
    BY <1>1, <1>2, <2>1 DEF Types, Behind, Passed, Position, Current, Telegram
<1> QED
  BY <1>3, <1>4, <1>5, <1>6, <1>7 DEF Types

LEMMA RetryAfterDelayTypes ==
    ASSUME Types, NEW CONSTANT c \in Conversations, RetryAfterDelay(c),
           UNCHANGED <<configVars, remoteVars, cursor, claims, service, poll, interrupted, buffer>>
    PROVE  Types'
<1>1. /\ UNCHANGED <<endpoint, kind, sent, forgotten, rows, saved, unacked, acked, retry, settled,
                     parked>>
      /\ Arrived' = Arrived /\ retry[c] # <<>>
      /\ flushers' = flushers \union {Flusher("retry", SplitRestoreBatches(retry[c]))}
  BY DEF RetryAfterDelay, configVars, remoteVars, Arrived, Wanted
<1>2. Numbers'
  BY <1>1, NumbersKept DEF configVars
<1>3. Sequences'
  BY <1>1, SequencesKept
<1>4. Flushes'
  <2>1. PICK s : s = SplitRestoreBatches(retry[c])
    OBVIOUS
  <2>2. s \in Seq(Batches) /\ s # <<>>
    <3>1. PICK b : b = retry[c]
      OBVIOUS
    <3>2. Sequence(b) /\ b # <<>>
      BY <1>1, <3>1 DEF Types, Sequences, BatchOf
    <3> QED
      BY <2>1, <3>1, <3>2, SplitStored
  <2>3. s \in Seq(Batches')
    BY <1>1, <2>2, BatchesGrow
  <2>5. FlusherOK(Flusher("retry", s))' /\ Flusher("retry", s).by # "poll"
    BY <2>2, <2>3, FlusherOf
  <2>6. PICK new : new = {Flusher("retry", s)}
    OBVIOUS
  <2>7. flushers' = flushers \union new /\ \A f \in new : FlusherOK(f)' /\ f.by # "poll"
    BY <1>1, <2>1, <2>5, <2>6
  <2>8. PICK old : old = flushers
    OBVIOUS
  <2>9. /\ old \in SUBSET flushers /\ flushers' = old \union new
        /\ \A f \in old : f.by = "poll" => poll'.at = "flush" /\ Current' = Current
    BY <2>7, <2>8 DEF Types, Flushes, FlusherOK, Current
  <2>10. settled \subseteq settled' /\ Flushes
    BY <1>1 DEF Types
  <2> QED
    BY <1>1, <2>7, <2>9, <2>10, FlushesKept
<1>5. Page'
  BY <1>1, PageKept DEF configVars
<1>6. Behind'
  BY <1>1, BehindKept
<1> QED
  BY <1>2, <1>3, <1>4, <1>5, <1>6 DEF Types

LEMMA StutterTypes == Types /\ UNCHANGED vars => Types'
<1> SUFFICES ASSUME Types, UNCHANGED vars PROVE Types'
  OBVIOUS
<1>1. UNCHANGED <<endpoint, kind, sent, forgotten, rows, saved, cursor, unacked, acked, buffer,
                  flushers, retry, settled, parked, claims, service, poll, interrupted>>
  BY DEF vars
<1>2. Numbers' /\ Sequences' /\ Page' /\ Behind'
  BY <1>1, NumbersKept, SequencesKept, PageKept, BehindKept DEF configVars
<1>3. Flushes'
  BY <1>1, FlushesSame DEF configVars, Current
<1> QED
  BY <1>2, <1>3 DEF Types

LEMMA StepTypes == Types /\ [Next]_vars => Types'
<1> SUFFICES ASSUME Types, Next PROVE Types'
  BY StutterTypes
<1>1. CASE Send \/ PollFails \/ StoreRaises \/ Start \/ StartPolling \/ Stop
  BY <1>1, SendTypes, PollFailsTypes, StoreRaisesTypes, StartTypes, StartPollingTypes, StopTypes
<1>2. CASE PollStep
  BY <1>2, FetchTypes, TakeUpdateTypes, ClaimEventTypes, StoreEventTypes, MessagePassedTypes,
     GiveClaimBackTypes, EndPageTypes DEF PollStep
<1>3. CASE Stopped \/ Crash
  BY <1>3, ProcessEndsTypes DEF Stopped, Crash
<1>4. CASE BackgroundStep
  <2>1. UNCHANGED <<configVars, remoteVars, cursor, claims, service, poll, interrupted>>
    BY <1>4 DEF BackgroundStep
  <2>2. CASE FlushStep /\ UNCHANGED buffer
    <3>1. PICK f \in flushers :
            \/ \E result \in TurnResults : RunTurn(f, result)
            \/ Deliver(f) \/ MarkBatchProcessed(f) \/ ReleaseBatch(f)
      BY <2>2 DEF FlushStep
    <3> QED
      BY <2>1, <2>2, <3>1, RunTurnTypes, DeliverTypes, MarkBatchTypes, ReleaseBatchTypes
  <2>3. CASE \E c \in Conversations : FlushAfterDelay(c)
    BY <2>1, <2>3, FlushAfterDelayTypes
  <2>4. CASE \E c \in Conversations : MayRetry /\ RetryAfterDelay(c) /\ UNCHANGED buffer
    BY <2>1, <2>4, RetryAfterDelayTypes
  <2> QED
    BY <1>4, <2>2, <2>3, <2>4 DEF BackgroundStep
<1>5. CASE HandledFailure
  <2>1. UNCHANGED <<configVars, remoteVars, cursor, buffer, claims, service, poll, interrupted>>
    BY <1>5 DEF HandledFailure
  <2> QED
    BY <1>5, <2>1, FlushFailsTypes DEF HandledFailure
<1> QED
  BY <1>1, <1>2, <1>3, <1>4, <1>5 DEF Next

LEMMA TypesHold == Types => TypeOK
<1> SUFFICES ASSUME Types PROVE TypeOK
  OBVIOUS
<1>1. rows \in Seq(Messages) /\ IsInjective(rows)
  <2>1. Arrived \subseteq Messages /\ rows \in Seq(Arrived) /\ IsInjective(rows)
    BY Basics DEF Types, Sequences, Sequence
  <2> QED
    BY <2>1, SeqMonotonic
<1>2. \A f \in flushers : f.left # <<>> /\ f.at \in {"turn", "deliver", "ack", "release"}
  BY DEF Types, Flushes, FlusherOK
<1>3. \A c \in Conversations : \A m \in Range(buffer[c]) \union Range(retry[c]) :
           Conversation[m] = c
  BY DEF Types, Sequences, BatchOf, Range
<1> QED
  BY <1>1, <1>2, <1>3 DEF TypeOK, Types, Numbers, Sequences, Arrived

\* The table and the list of unacknowledged updates hold a message once, the saved
\* and remembered positions stay within what was sent, and a batch is of one
\* conversation wherever it waits.
THEOREM TypeCorrect == Spec => []TypeOK
<1>1. Init => Types
  BY InitTypes
<1>2. Types /\ [Next]_vars => Types'
  BY StepTypes
<1>3. Types => TypeOK
  BY TypesHold
<1> QED
  BY <1>1, <1>2, <1>3, PTL DEF Spec

-----------------------------------------------------------------------------
(* No message is lost: the order in which messages become known *)

LEMMA HeldIn ==
    /\ \A c \in Conversations : Range(buffer[c]) \subseteq Held /\ Range(retry[c]) \subseteq Held
    /\ \A f \in flushers : f.by # "poll" => InFlush(f) \subseteq Held
    /\ \A x \in Held : \/ \E c \in Conversations : x \in Range(buffer[c]) \union Range(retry[c])
                       \/ \E f \in flushers : f.by # "poll" /\ x \in InFlush(f)
<1>1. /\ \A c \in Conversations : Kept(c) \subseteq AllKept
      /\ \A x \in AllKept : \E c \in Conversations : x \in Kept(c)
  BY DEF AllKept
<1>2. /\ \A f \in Unawaited : InFlush(f) \subseteq AllInFlush
      /\ \A x \in AllInFlush : \E f \in Unawaited : x \in InFlush(f)
  BY DEF AllInFlush
<1> QED
  BY <1>1, <1>2 DEF Held, Kept, Unawaited

LEMMA InFlushOf ==
    ASSUME Types, NEW f \in flushers
    PROVE  /\ InFlush(f) \subseteq Arrived /\ Range(Batch(f)) \subseteq InFlush(f)
           /\ \A by : \A g \in FlushersFor(by, Tail(f.left)) : InFlush(g) \subseteq InFlush(f)
<1> DEFINE s == f.left
           B == Batches
           t == Tail(s)
<1>1. s \in Seq(B) /\ s # <<>>
  BY DEF Types, Flushes, FlusherOK
<1>2. \A b \in B : Range(b) \subseteq Arrived
  BY RangeOf DEF Batches
<1> HIDE DEF s, B
<1>3. /\ Len(s) \in Nat /\ DOMAIN s = 1..Len(s) /\ Len(s) # 0 /\ \A i \in 1..Len(s) : s[i] \in B
  BY <1>1, LenProperties, ElementOfSeq, EmptySeq
<1>4. Head(s) = s[1]
  BY <1>1
<1>5. t \in Seq(B) /\ Len(t) = Len(s) - 1 /\ \A i \in 1..Len(t) : t[i] = s[i + 1]
  BY <1>1, HeadTailProperties
<1>6. DOMAIN t = 1..Len(t)
  BY <1>5, LenProperties
<1> HIDE DEF t
<1>7. InFlush(f) = UNION {Range(s[i]) : i \in 1..Len(s)}
  BY <1>3 DEF InFlush, s
<1>8. InFlush(f) \subseteq Arrived
  BY <1>2, <1>3, <1>7
<1>9. Range(Batch(f)) \subseteq InFlush(f)
  <2>1. 1 \in 1..Len(s) /\ Batch(f) = s[1]
    BY <1>3, <1>4 DEF Batch, s
  <2> QED
    BY <1>7, <2>1
<1>10. UNION {Range(t[i]) : i \in DOMAIN t} \subseteq InFlush(f)
  <2>1. \A i \in 1..Len(t) : i + 1 \in 1..Len(s) /\ t[i] = s[i + 1]
    BY <1>3, <1>5
  <2> QED
    BY <1>6, <1>7, <2>1
<1>11. ASSUME NEW by, NEW g \in FlushersFor(by, Tail(f.left)) PROVE InFlush(g) \subseteq InFlush(f)
  <2>1. g = Flusher(by, Tail(f.left))
    BY <1>11 DEF FlushersFor
  <2>2. g.left = t
    BY <2>1 DEF Flusher, t, s
  <2> QED
    BY <1>10, <2>2 DEF InFlush
<1> QED
  BY <1>8, <1>9, <1>11

LEMMA KnownNumbers ==
    ASSUME Types
    PROVE  /\ sent \in Nat /\ Arrived \subseteq 1..sent /\ Unknown \subseteq 1..sent
           /\ Range(rows) \subseteq 1..sent /\ Held \subseteq 1..sent /\ acked \subseteq 1..sent
           /\ saved \in Nat /\ forgotten \in Nat /\ cursor \in Nat /\ Position \in Int
<1>1. sent \in Nat /\ Arrived \subseteq 1..sent
  BY Basics
<1>2. Range(rows) \subseteq Arrived
  BY RangeOf DEF Types, Sequences, Sequence
<1>3. acked \subseteq 1..sent
  BY RangeOf DEF Types, Sequences
<1>4. \A c \in Conversations : Range(buffer[c]) \subseteq Arrived /\ Range(retry[c]) \subseteq Arrived
  BY RangeOf DEF Types, Sequences, BatchOf, Sequence
<1>5. Held \subseteq Arrived
  BY <1>4, HeldIn, InFlushOf
<1>6. saved \in Nat /\ forgotten \in Nat /\ cursor \in Nat
  BY <1>1 DEF Types, Numbers
<1> QED
  BY <1>1, <1>2, <1>3, <1>5, <1>6, PageOf DEF Unknown

\* The parts a batch is cut into hold nothing else.
LEMMA SplitWithin ==
    ASSUME Types, NEW b, Sequence(b), NEW by
    PROVE  \A f \in FlushersFor(by, SplitRestoreBatches(b)) \union {Flusher(by, SplitRestoreBatches(b))} :
               f.by = by /\ InFlush(f) \subseteq Range(b)
<1> DEFINE T == Range(b)
           B == Seq(T)
           s == SplitRestoreBatches(b)
<1>1. /\ b \in Seq(Arrived) /\ IsInjective(b) /\ Arrived \subseteq Messages
      /\ endpoint \in Endpoints
  BY Basics DEF Sequence, Types, Numbers
<1>2. T \subseteq Arrived /\ b \in Seq(T)
  <2>1. T \subseteq Arrived /\ DOMAIN b = 1..Len(b) /\ Len(b) \in Nat
        /\ \A i \in 1..Len(b) : b[i] \in T
    BY <1>1, RangeOf
  <2> HIDE DEF T
  <2> QED
    BY <1>1, <2>1
<1>3. T \in SUBSET Messages
  BY <1>1, <1>2
<1> HIDE DEF T
<1>4. \A c \in Conversations : \A d \in Seq(T) :
        d # <<>> /\ IsInjective(d) /\ (\A i \in DOMAIN d : Conversation[d[i]] = c) => d \in B
  OBVIOUS
<1> HIDE DEF B
<1>5. s \in Seq(B)
  BY <1>1, <1>2, <1>3, <1>4, SplitOf
<1> HIDE DEF s
<1>6. \A i \in DOMAIN s : s[i] \in B
  BY <1>5, LenProperties, ElementOfSeq
<1>7. \A i \in DOMAIN s : Range(s[i]) \subseteq T
  BY <1>6, RangeOf DEF B
<1>8. ASSUME NEW f \in FlushersFor(by, s) \union {Flusher(by, s)}
      PROVE  f.by = by /\ InFlush(f) \subseteq T
  <2>1. f.by = by /\ f.left = s
    BY <1>8 DEF FlushersFor, Flusher
  <2> QED
    BY <1>7, <2>1 DEF InFlush
<1> QED
  BY <1>8 DEF s, T

\* A step of a flush that neither acknowledges nor takes anything.
LEMMA KnownFirstKept ==
    ASSUME Types, KnownFirst, Types',
           UNCHANGED <<endpoint, kind, sent, saved, forgotten, cursor, claims, interrupted, poll>>,
           settled \subseteq settled', Range(rows') \subseteq Range(rows),
           Range(rows) \subseteq Range(rows') \union settled',
           Held' \subseteq Held, acked' \subseteq acked
    PROVE  KnownFirst'
<1>1. /\ Arrived' = Arrived /\ Position' = Position /\ Current' = Current /\ Telegram' = Telegram
      /\ poll' = poll
  BY DEF Arrived, Wanted, Position, Current, Telegram
<1>2. Unknown' \subseteq Unknown
  BY <1>1 DEF Unknown
<1>3. \A u : Given(u) => Given(u)'
  BY <1>1 DEF Given
<1>4. \A u \in Unknown : Untaken(u)'
  <2> TAKE u \in Unknown
  <2>1. Untaken(u)
    BY DEF KnownFirst
  <2>2. u \in claims' => InHand(u)'
    BY <1>1, <2>1 DEF Untaken, InHand
  <2>3. Telegram => Before(Range(rows') \union Held' \union acked', u)
    BY <2>1 DEF Untaken, Before
  <2> QED
    BY <1>1, <1>3, <2>1, <2>2, <2>3 DEF Untaken, Before
<1>5. Taking'
  <2>1. Taking
    BY DEF KnownFirst
  <2>2. poll.at \in {"buffer", "flush"} => Current \in Range(rows') \union settled'
    BY <2>1 DEF Taking
  <2>3. Telegram /\ poll.at = "flush" /\ Current \notin settled' =>
          Given(Current) /\ Before((Range(rows') \ {Current}) \union Held' \union acked', Current)
    BY <2>1 DEF Taking, Before
  <2>4. Given(Current) => Given(Current)'
    BY <1>1 DEF Given
  <2> QED
    BY <1>1, <2>2, <2>3, <2>4 DEF Taking, Before
<1> QED
  BY <1>1, <1>2, <1>4, <1>5 DEF KnownFirst

-----------------------------------------------------------------------------
(* No message is lost: the poll *)

LEMMA InitKnown == Init => KnownFirst
<1> SUFFICES ASSUME Init PROVE KnownFirst
  OBVIOUS
<1>1. Arrived = {} /\ poll.at = "idle" /\ claims = {} /\ interrupted = {}
  BY DEF Init, Arrived, Idle
<1> QED
  BY <1>1 DEF KnownFirst, Unknown, Taking

LEMMA SendKnown == Types /\ KnownFirst /\ Send => KnownFirst'
<1> SUFFICES ASSUME Types, KnownFirst, Send PROVE KnownFirst'
  OBVIOUS
<1>1. /\ sent' = sent + 1 /\ sent \in Nat
      /\ UNCHANGED <<endpoint, kind, rows, saved, forgotten, cursor, acked, buffer, flushers, retry,
                     settled, claims, poll, interrupted>>
  BY Basics DEF Send, configVars, coalescerVars
<1>2. /\ Held' = Held /\ Position' = Position /\ Current' = Current /\ Telegram' = Telegram
  BY <1>1 DEF Held, AllKept, Kept, AllInFlush, Unawaited, Position, Current, Telegram
<1> PICK n : n = sent + 1
  OBVIOUS
<1>3. Arrived' \subseteq Arrived \union {n}
  BY <1>1 DEF Arrived, Wanted
<1>4. Unknown' \subseteq Unknown \union {n}
  BY <1>1, <1>3 DEF Unknown
<1>5. \A u : Given(u) => Given(u)'
  BY <1>1, <1>2 DEF Given
<1>6. \A u \in Unknown : Untaken(u)'
  BY <1>1, <1>2, <1>5 DEF KnownFirst, Untaken, InHand, Before
<1>7. Untaken(n)'
  <2>1. Given(n)'
    <3>1. saved <= n /\ forgotten <= n /\ cursor <= n
      BY <1>1 DEF Types, Numbers
    <3>2. Position <= n
      BY <1>1, PageOf
    <3> QED
      BY <1>1, <1>2, <3>1, <3>2 DEF Given
  <2>2. n \notin claims
    BY <1>1 DEF Types, Numbers
  <2>3. Before(Range(rows) \union Held \union acked, n)
    BY <1>1, KnownNumbers DEF Before
  <2> QED
    BY <1>1, <1>2, <2>1, <2>2, <2>3 DEF Untaken, Before
<1>8. Taking'
  BY <1>1, <1>2, <1>5 DEF KnownFirst, Taking, Before, Given
<1> QED
  BY <1>1, <1>2, <1>4, <1>6, <1>7, <1>8 DEF KnownFirst

LEMMA FetchKnown == Types /\ KnownFirst /\ Fetch => KnownFirst'
<1> SUFFICES ASSUME Types, KnownFirst, Fetch PROVE KnownFirst'
  OBVIOUS
<1>1. /\ poll.at = "idle"
      /\ forgotten' = (IF Telegram /\ cursor > forgotten THEN cursor ELSE forgotten)
      /\ UNCHANGED <<endpoint, kind, sent, rows, saved, cursor, acked, buffer, flushers, retry,
                     settled, claims, interrupted>>
  BY DEF Fetch, configVars, coalescerVars
<1>2. /\ Held' = Held /\ Telegram' = Telegram /\ Unknown' = Unknown
  BY <1>1 DEF Held, AllKept, Kept, AllInFlush, Unawaited, Telegram, Unknown, Arrived, Wanted
<1> DEFINE first == IF Telegram THEN forgotten' ELSE cursor
<1>3. poll' = poll \/ (poll'.at = "next" /\ Position' = first)
  <2>1. CASE poll' = poll
    BY <2>1
  <2>2. CASE poll' # poll
    <3>1. PICK last \in (first - 1)..sent :
            ~(last < first) /\ poll' = [at |-> "next", next |-> last + 1,
                            page |-> [i \in 1..(last - first + 1) |-> first + i - 1]]
      BY <2>2 DEF Fetch
    <3>2. first \in Nat
      BY <1>1, KnownNumbers
    <3> HIDE DEF first
    <3> DEFINE p == [i \in 1..(last - first + 1) |-> first + i - 1]
    <3>3. Len(p) = last - first + 1
      BY <3>1, <3>2
    <3> HIDE DEF p
    <3>4. poll'.at = "next" /\ poll'.next = last + 1 /\ poll'.page = p
      BY <3>1 DEF p
    <3>5. Position' = last + 1 - Len(p)
      BY <3>4 DEF Position
    <3>6. last \in Int
      BY <3>1, <3>2, KnownNumbers
    <3> QED
      BY <3>2, <3>3, <3>4, <3>5, <3>6
  <2> QED
    BY <2>1, <2>2
<1>4. poll'.at \in {"idle", "next"}
  BY <1>1, <1>3
<1>5. ASSUME NEW u \in Unknown PROVE Untaken(u)'
  <2>1. Untaken(u)
    BY DEF KnownFirst
  <2>2. saved <= u /\ forgotten <= u /\ cursor <= u /\ u \notin claims
    BY <1>1, <2>1 DEF Untaken, Given, InHand
  <2>3. forgotten' <= u /\ first <= u
    BY <1>1, <2>2, KnownNumbers
  <2>4. Given(u)'
    BY <1>1, <1>3, <2>2, <2>3 DEF Given
  <2> QED
    BY <1>1, <1>2, <2>1, <2>2, <2>4 DEF Untaken, Before
<1> QED
  BY <1>1, <1>2, <1>4, <1>5 DEF KnownFirst, Taking

\* What the process holds after a step that starts no flush of its own.
LEMMA HeldKept ==
    ASSUME UNCHANGED <<retry, buffer>>,
           \A f \in flushers' : f \in flushers \/ f.by = "poll"
    PROVE  Held' \subseteq Held
<1>1. AllKept' = AllKept
  BY DEF AllKept, Kept
<1>2. Unawaited' \subseteq Unawaited
  BY DEF Unawaited
<1>3. AllInFlush' \subseteq AllInFlush
  BY <1>2 DEF AllInFlush, InFlush
<1> QED
  BY <1>1, <1>3 DEF Held

\* The poll goes past a message that is known or not for the agent.
LEMMA NextKnown ==
    ASSUME Types, KnownFirst, Types', poll.page # <<>>, poll.at # "idle", poll'.at = "next",
           UNCHANGED <<endpoint, kind, sent, forgotten, interrupted, settled>>,
           Position' = Position + 1, Current \notin Unknown,
           IF Telegram
           THEN /\ cursor' = Current + 1 /\ acked' \subseteq acked \union {Current}
                /\ saved' = saved \/ \E x \in acked \union {Current} : saved' = x + 1
           ELSE UNCHANGED <<cursor, saved>>,
           claims' \subseteq claims \union {Current}, Telegram => claims' = {},
           rows' = rows, Held' \subseteq Held \union {Current}
    PROVE  KnownFirst'
<1>1. Telegram' = Telegram /\ Unknown' = Unknown
  BY DEF Telegram, Unknown, Arrived, Wanted
<1>2. Current = Position /\ Position \in Int /\ poll'.at \notin {"idle", "buffer", "flush"}
  BY PageOf
<1>3. ASSUME NEW u \in Unknown PROVE Untaken(u)'
  <2>1. Untaken(u) /\ u \in Nat
    BY KnownNumbers DEF KnownFirst
  <2>2. u \notin claims /\ u # Current
    BY <2>1 DEF Untaken, InHand
  <2>3. u > Current
    BY <1>2, <2>1, <2>2 DEF Untaken, Given
  <2>4. Telegram => Before(Range(rows) \union Held \union acked, u)
    BY <2>1 DEF Untaken
  <2>5. Given(u)'
    <3>1. saved <= u /\ forgotten <= u /\ cursor <= u
      BY <2>1 DEF Untaken, Given
    <3>2. Position' <= u
      BY <1>2, <2>1, <2>3
    <3>3. saved' <= u /\ cursor' <= u
      <4>1. CASE Telegram
        <5>1. \A x \in acked \union {Current} : x < u /\ x \in Int
          BY <1>2, <2>3, <2>4, <4>1, KnownNumbers DEF Before
        <5>2. cursor' <= u
          BY <1>2, <2>1, <2>3, <4>1
        <5> QED
          BY <2>1, <3>1, <4>1, <5>1, <5>2
      <4>2. CASE ~Telegram
        BY <3>1, <4>2
      <4> QED
        BY <4>1, <4>2
    <3> QED
      BY <3>1, <3>2, <3>3 DEF Given
  <2>6. u \notin claims'
    BY <2>2
  <2>7. Telegram => Before(Range(rows') \union Held' \union acked', u)
    BY <2>3, <2>4 DEF Before
  <2> QED
    BY <1>1, <2>5, <2>6, <2>7 DEF Untaken, Before
<1>4. Taking'
  BY <1>2 DEF Taking
<1> QED
  BY <1>1, <1>3, <1>4 DEF KnownFirst

\* The poll stores a message.
LEMMA StoreKnown ==
    ASSUME Types, KnownFirst, Types', poll.page # <<>>,
           poll.at = IF Telegram THEN "next" ELSE "store", service = "polling",
           Wanted(Current), ~Stored(Current), StoreAndPass(Current),
           UNCHANGED <<configVars, sent, settled, service, buffer, cursor, saved, forgotten,
                       interrupted, claims, acked, retry>>
    PROVE  KnownFirst'
<1>1. /\ Range(rows') = Range(rows) \union {Current}
      /\ poll'.at = (IF endpoint.batching THEN "buffer" ELSE "flush")
      /\ Position' = Position /\ Current' = Current
      /\ flushers' = IF endpoint.batching THEN flushers
                     ELSE flushers \union {Flusher("poll", <<<<Current>>>>)}
  BY StoreAndPassTypes
<1>2. Telegram' = Telegram /\ Arrived' = Arrived /\ poll'.at # "idle"
  BY <1>1 DEF Telegram, Arrived, Wanted, configVars
<1>3. Held' \subseteq Held
  <2>1. Flusher("poll", <<<<Current>>>>).by = "poll"
    BY DEF Flusher
  <2> QED
    BY <1>1, <2>1, HeldKept
<1>4. Unknown' \subseteq Unknown \ {Current}
  BY <1>1, <1>2 DEF Unknown
<1>5. Current = Position /\ Position \in Int /\ Current \in Arrived
  BY PageOf DEF Arrived
<1>6. \A u : Given(u) /\ Position <= u => Given(u)'
  BY <1>1 DEF Given
<1>7. ASSUME NEW u \in Unknown, u # Current PROVE Untaken(u)'
  <2>1. Untaken(u) /\ u \in Nat
    BY KnownNumbers DEF KnownFirst
  <2>2. u \notin claims /\ Given(u) /\ Position <= u /\ u > Current
    BY <1>5, <1>7, <2>1 DEF Untaken, InHand, Given
  <2>3. Telegram => Before(Range(rows') \union Held' \union acked', u)
    BY <1>1, <1>3, <2>1, <2>2 DEF Untaken, Before
  <2> QED
    BY <1>2, <1>6, <2>2, <2>3 DEF Untaken, Before
<1>8. Taking'
  <2>1. Current' \in Range(rows') \union settled'
    BY <1>1
  <2>2. ASSUME Telegram, Current \notin settled
        PROVE  /\ Given(Current)'
               /\ Before((Range(rows') \ {Current}) \union Held' \union acked', Current)
    <3>1. Current \in Unknown
      <4>1. Current \notin Range(rows)
        BY RangeOf DEF Stored, Types, Sequences, Sequence
      <4> QED
        BY <1>5, <2>2, <4>1 DEF Unknown, KnownFirst
    <3>2. Untaken(Current)
      BY <3>1 DEF KnownFirst
    <3>3. Given(Current)'
      <4>1. PICK m : m = Current
        OBVIOUS
      <4>2. Given(m)'
        BY <1>5, <1>6, <3>2, <4>1 DEF Untaken, Given
      <4> QED
        BY <1>1, <4>1, <4>2 DEF Given
    <3>4. Before((Range(rows') \ {Current}) \union Held' \union acked', Current)
      BY <1>1, <1>3, <2>2, <3>2 DEF Untaken, Before
    <3> QED
      BY <3>3, <3>4
  <2> QED
    BY <1>1, <1>2, <2>1, <2>2 DEF Taking, Before
<1> QED
  BY <1>2, <1>4, <1>7, <1>8 DEF KnownFirst

LEMMA TakeUpdateKnown == Types /\ KnownFirst /\ Types' /\ TakeUpdate => KnownFirst'
<1> SUFFICES ASSUME Types, KnownFirst, Types', TakeUpdate PROVE KnownFirst'
  OBVIOUS
<1>1. /\ Telegram /\ service = "polling" /\ poll.at = "next" /\ poll.page # <<>>
      /\ UNCHANGED <<endpoint, kind, sent, forgotten, settled, claims, service, buffer, retry,
                     interrupted>>
  BY DEF TakeUpdate, OnPage, configVars, remoteVars, historyVars
<1>2. CASE Wanted(Current) /\ ~Stored(Current)
  <2>1. StoreAndPass(Current) /\ UNCHANGED <<cursor, acked, saved>>
    BY <1>2 DEF TakeUpdate
  <2> QED
    BY <1>1, <1>2, <2>1, StoreKnown DEF configVars
<1>3. CASE ~(Wanted(Current) /\ ~Stored(Current))
  <2>1. UpdateHandled(Current) /\ UNCHANGED <<rows, flushers>>
    BY <1>3 DEF TakeUpdate
  <2>2. /\ cursor' = Current + 1 /\ acked' \subseteq acked \union {Current}
        /\ saved' = saved \/ \E x \in acked \union {Current} : saved' = x + 1
        /\ NextOnPage
    BY <1>1, <2>1, UpdateHandledTypes
  <2>3. poll'.at = "next" /\ Position' = Position + 1
    BY <1>1, <2>2, NextOnPageOf
  <2>4. Held' \subseteq Held
    BY <1>1, <2>1, HeldKept
  <2>5. Current \notin Unknown
    <3>1. Stored(Current) => Current \in Range(rows)
      BY RangeOf DEF Stored, Types, Sequences, Sequence
    <3> QED
      BY <1>3, <3>1 DEF Unknown, Arrived
  <2>6. claims' = {}
    BY <1>1 DEF KnownFirst
  <2> QED
    BY <1>1, <2>1, <2>2, <2>3, <2>4, <2>5, <2>6, NextKnown
<1> QED
  BY <1>2, <1>3

LEMMA ClaimEventKnown == Types /\ KnownFirst /\ Types' /\ ClaimEvent => KnownFirst'
<1> SUFFICES ASSUME Types, KnownFirst, Types', ClaimEvent PROVE KnownFirst'
  OBVIOUS
<1>1. /\ ~Telegram /\ service = "polling" /\ poll.at = "next" /\ poll.page # <<>>
      /\ claims' = claims \union {Current}
      /\ UNCHANGED <<endpoint, kind, sent, forgotten, rows, saved, cursor, unacked, acked, buffer,
                     flushers, retry, settled, service, interrupted>>
  BY DEF ClaimEvent, OnPage, configVars, remoteVars, coalescerVars
<1>2. Held' \subseteq Held
  BY <1>1, HeldKept
<1>3. ASSUME NEW step \in {"store", "giveback"}, Current \notin claims, PollAt(step)
      PROVE  KnownFirst'
  <2>2. /\ poll' = [at |-> step, page |-> poll.page, next |-> poll.next]
        /\ Position' = Position /\ Current' = Current
    BY <1>3, PollAtOf
  <2>3. poll'.at = step /\ Telegram' = Telegram /\ Unknown' = Unknown
    BY <1>1, <2>2 DEF Telegram, Unknown, Arrived, Wanted
  <2>4. ASSUME NEW u \in Unknown PROVE Untaken(u)'
    <3>1. Untaken(u)
      BY DEF KnownFirst
    <3>2. u \notin claims /\ Given(u) /\ Position <= u
      BY <1>1, <3>1 DEF Untaken, InHand, Given
    <3>3. Given(u)'
      BY <1>1, <2>2, <3>2 DEF Given
    <3>4. u \in claims' => InHand(u)'
      BY <1>1, <2>2, <2>3, <3>2 DEF InHand
    <3> QED
      BY <1>1, <2>3, <3>3, <3>4 DEF Untaken
  <2> QED
    BY <1>1, <2>3, <2>4 DEF KnownFirst, Taking
<1>4. CASE NextOnPage /\ (Current \in claims \/ kind[Current] \in {"denied", "other"})
  <2>1. NextOnPage
    BY <1>4
  <2>2. poll'.at = "next" /\ Position' = Position + 1
    BY <1>1, <2>1, NextOnPageOf
  <2>3. Current \notin Unknown
    BY <1>1, <1>4 DEF KnownFirst, Untaken, InHand, Unknown, Arrived, Wanted
  <2> QED
    BY <1>1, <1>2, <2>2, <2>3, NextKnown
<1> QED
  BY <1>3, <1>4 DEF ClaimEvent

LEMMA StoreRaisesKnown == Types /\ KnownFirst /\ StoreRaises => KnownFirst'
<1> SUFFICES ASSUME Types, KnownFirst, StoreRaises PROVE KnownFirst'
  OBVIOUS
<1>1. /\ poll.at = "store" /\ poll.page # <<>> /\ PollAt("giveback")
      /\ UNCHANGED <<endpoint, kind, sent, forgotten, rows, saved, cursor, acked, buffer, flushers,
                     retry, settled, claims, interrupted>>
  BY DEF StoreRaises, OnPage, configVars, remoteVars, historyVars
<1>2. /\ poll' = [at |-> "giveback", page |-> poll.page, next |-> poll.next]
      /\ Position' = Position /\ Current' = Current
  BY <1>1, PollAtOf
<1>3. /\ poll'.at = "giveback" /\ Telegram' = Telegram /\ Unknown' = Unknown /\ Held' = Held
  BY <1>1, <1>2 DEF Telegram, Unknown, Arrived, Wanted, Held, AllKept, Kept, AllInFlush, Unawaited
<1>4. \A u : (Given(u) => Given(u)') /\ (InHand(u) => InHand(u)')
  BY <1>1, <1>2, <1>3 DEF Given, InHand
<1>5. \A u \in Unknown : Untaken(u)'
  BY <1>1, <1>3, <1>4 DEF KnownFirst, Untaken, Before
<1> QED
  BY <1>1, <1>3, <1>5 DEF KnownFirst, Taking

\* What the poll gives back was in hand, and will be given again.
LEMMA GiveClaimBackKnown == Types /\ KnownFirst /\ GiveClaimBack => KnownFirst'
<1> SUFFICES ASSUME Types, KnownFirst, GiveClaimBack PROVE KnownFirst'
  OBVIOUS
<1>1. /\ poll.at = "giveback" /\ poll' = Idle /\ claims' = claims \ {Current}
      /\ UNCHANGED <<endpoint, kind, sent, forgotten, rows, saved, cursor, acked, buffer, flushers,
                     retry, settled, interrupted>>
  BY DEF GiveClaimBack, OnPage, configVars, remoteVars, coalescerVars
<1>2. /\ poll'.at = "idle" /\ ~Telegram /\ Telegram' = Telegram /\ Unknown' = Unknown
  BY <1>1 DEF Types, Page, Idle, Telegram, Unknown, Arrived, Wanted
<1>3. ASSUME NEW u \in Unknown PROVE Untaken(u)'
  <2>1. Untaken(u)
    BY DEF KnownFirst
  <2>2. u \notin claims'
    BY <1>1, <2>1 DEF Untaken, InHand
  <2>3. Given(u)'
    BY <1>1, <1>2, <2>1 DEF Untaken, Given
  <2> QED
    BY <1>2, <2>2, <2>3 DEF Untaken
<1> QED
  BY <1>2, <1>3 DEF KnownFirst, Taking

LEMMA StoreEventKnown == Types /\ KnownFirst /\ Types' /\ StoreEvent => KnownFirst'
<1> SUFFICES ASSUME Types, KnownFirst, Types', StoreEvent PROVE KnownFirst'
  OBVIOUS
<1>1. /\ service = "polling" /\ poll.at = "store" /\ poll.page # <<>>
      /\ UNCHANGED <<endpoint, kind, sent, forgotten, settled, saved, cursor, acked,
                     buffer, retry, claims, service, interrupted>>
  BY DEF StoreEvent, OnPage, configVars, remoteVars, historyVars
<1>2. Wanted(Current) /\ ~Telegram
  BY <1>1 DEF Types, Page
<1>3. CASE Stored(Current)
  <2>1. NextOnPage /\ UNCHANGED <<rows, flushers>>
    BY <1>3 DEF StoreEvent
  <2>2. poll'.at = "next" /\ Position' = Position + 1
    BY <1>1, <2>1, NextOnPageOf
  <2>3. Current \notin Unknown
    <3>1. Current \in Range(rows)
      BY <1>3, RangeOf DEF Stored, Types, Sequences, Sequence
    <3> QED
      BY <3>1 DEF Unknown
  <2>4. Held' \subseteq Held
    BY <1>1, <2>1, HeldKept
  <2> QED
    BY <1>1, <1>2, <2>1, <2>2, <2>3, <2>4, NextKnown
<1>4. CASE ~Stored(Current)
  <2>1. StoreAndPass(Current)
    BY <1>4 DEF StoreEvent
  <2> QED
    BY <1>1, <1>2, <1>4, <2>1, StoreKnown DEF configVars
<1> QED
  BY <1>3, <1>4

LEMMA MessagePassedKnown == Types /\ KnownFirst /\ Types' /\ MessagePassed => KnownFirst'
<1> SUFFICES ASSUME Types, KnownFirst, Types', MessagePassed PROVE KnownFirst'
  OBVIOUS
<1>1. /\ service = "polling" /\ poll.page # <<>> /\ poll.at \in {"buffer", "flush"}
      /\ IF Telegram THEN UpdateHandled(Current)
         ELSE NextOnPage /\ UNCHANGED <<cursor, unacked, acked, saved>>
      /\ UNCHANGED <<endpoint, kind, sent, forgotten, settled, rows, flushers, retry,
                     claims, service, interrupted>>
  BY DEF MessagePassed, OnPage, configVars, remoteVars, historyVars
<1>2. poll'.at = "next" /\ Position' = Position + 1
  BY <1>1, PassedOn DEF configVars
<1>3. Current \notin Unknown
  BY <1>1 DEF KnownFirst, Taking, Unknown
<1>4. IF Telegram
      THEN /\ cursor' = Current + 1 /\ acked' \subseteq acked \union {Current}
           /\ saved' = saved \/ \E x \in acked \union {Current} : saved' = x + 1
      ELSE UNCHANGED <<cursor, saved>>
  BY <1>1, UpdateHandledTypes
<1>5. Held' \subseteq Held \union {Current}
  <2>1. CASE UNCHANGED buffer
    BY <1>1, <2>1, HeldKept
  <2>2. CASE Enqueue(Current)
    <3> DEFINE k == Conversation[Current]
    <3>1. \A c \in Conversations : buffer'[c] = buffer[c] \/ buffer'[c] = Append(buffer[c], Current)
      BY <2>2 DEF Enqueue, Types, Sequences
    <3>2. ASSUME NEW c \in Conversations PROVE Range(buffer'[c]) \subseteq Range(buffer[c]) \union {Current}
      <4> DEFINE s == buffer[c]
                 m == Current
      <4>1. s \in Seq(Arrived)
        BY DEF Types, Sequences, BatchOf, Sequence
      <4>2. buffer'[c] = s \/ buffer'[c] = Append(s, m)
        BY <3>1
      <4> HIDE DEF s, m
      <4>3. Range(Append(s, m)) \subseteq Range(s) \union {m}
        <5>1. Len(s) \in Nat /\ DOMAIN s = 1..Len(s)
          BY <4>1, LenProperties
        <5>2. /\ DOMAIN Append(s, m) = 1..(Len(s) + 1)
              /\ \A i \in 1..(Len(s) + 1) :
                   Append(s, m)[i] = IF i <= Len(s) THEN s[i] ELSE m
          BY <4>1, <5>1
        <5> QED
          BY <5>1, <5>2 DEF Range
      <4> QED
        BY <4>2, <4>3 DEF s, m
    <3>3. AllKept' \subseteq AllKept \union {Current}
      <4>1. \A c \in Conversations : Kept(c)' \subseteq Kept(c) \union {Current}
        BY <1>1, <3>2 DEF Kept
      <4> QED
        BY <4>1 DEF AllKept
    <3>4. AllInFlush' = AllInFlush
      BY <1>1 DEF AllInFlush, Unawaited, InFlush
    <3> QED
      BY <3>3, <3>4 DEF Held
  <2> QED
    BY <2>1, <2>2 DEF MessagePassed
<1>6. Telegram => claims' = {}
  BY <1>1 DEF KnownFirst
<1> QED
  BY <1>1, <1>2, <1>3, <1>4, <1>5, <1>6, NextKnown

LEMMA PollFailsKnown == Types /\ KnownFirst /\ Types' /\ PollFails => KnownFirst'
<1> SUFFICES ASSUME Types, KnownFirst, Types', PollFails PROVE KnownFirst'
  OBVIOUS
<1>1. /\ service = "polling" /\ poll.page # <<>> /\ poll.at = "flush" /\ poll' = Idle
      /\ UNCHANGED <<endpoint, kind, sent, forgotten, cursor, buffer, retry, service, interrupted>>
  BY DEF PollFails, OnPage, configVars, remoteVars
<1>2. PICK f \in Running("poll") : /\ DeliveryTimesOut(f) \/ FlushRaises(f)
                                   /\ flushers' = flushers \ {f}
  BY DEF PollFails
<1>3. UNCHANGED <<saved, unacked, acked, settled>>
  BY <1>2 DEF DeliveryTimesOut, FlushRaises
<1>4. Arrived' = Arrived /\ Telegram' = Telegram /\ poll'.at = "idle"
  BY <1>1 DEF Arrived, Wanted, Telegram, Idle
<1>5. Held' \subseteq Held
  BY <1>1, <1>2, HeldKept
<1>6. \A u : Given(u) => Given(u)'
  BY <1>1, <1>3, <1>4 DEF Given
<1>7. Taking'
  BY <1>4 DEF Taking
<1>8. CASE Telegram
  <2>1. Range(rows') = Range(rows) \ {Current} /\ claims' = {} /\ interrupted' = {}
    <3>1. Release({Current}) /\ UNCHANGED claims
      BY <1>8 DEF PollFails
    <3> QED
      BY <1>1, <1>4, <1>8, <3>1, ReleaseTypes DEF KnownFirst
  <2>2. Unknown' \subseteq Unknown \union {Current}
    BY <1>1, <1>3, <1>4, <2>1 DEF Unknown
  <2>3. ASSUME NEW u \in Unknown' PROVE Untaken(u)'
    <3>1. Given(u) /\ Before((Range(rows) \ {Current}) \union Held \union acked, u)
      <4>1. CASE u \in Unknown
        BY <1>8, <4>1 DEF KnownFirst, Untaken, Before
      <4>2. CASE u = Current
        <5>1. Current \notin settled
          BY <1>3, <2>3, <4>2 DEF Unknown
        <5> QED
          BY <1>1, <1>8, <4>2, <5>1 DEF KnownFirst, Taking
      <4> QED
        BY <2>2, <2>3, <4>1, <4>2
    <3>2. Given(u)'
      BY <1>6, <3>1
    <3>3. Before(Range(rows') \union Held' \union acked', u)
      BY <1>3, <1>5, <2>1, <3>1 DEF Before
    <3> QED
      BY <2>1, <3>2, <3>3 DEF Untaken, Before
  <2> QED
    BY <1>7, <2>1, <2>3 DEF KnownFirst
<1>9. CASE ~Telegram
  <2>1. UNCHANGED rows /\ claims' \subseteq claims
    BY <1>9 DEF PollFails
  <2>2. Unknown' = Unknown
    BY <1>1, <1>3, <1>4, <2>1 DEF Unknown
  <2>3. \A u \in Unknown : Untaken(u)'
    BY <1>1, <1>4, <1>6, <1>9, <2>1 DEF KnownFirst, Untaken, InHand
  <2> QED
    BY <1>4, <1>7, <1>9, <2>2, <2>3 DEF KnownFirst
<1> QED
  BY <1>8, <1>9

LEMMA EndPageKnown == Types /\ KnownFirst /\ EndPage => KnownFirst'
<1> SUFFICES ASSUME Types, KnownFirst, EndPage PROVE KnownFirst'
  OBVIOUS
<1>1. /\ poll.at = "next" /\ poll.page = <<>> /\ poll' = Idle
      /\ IF Telegram THEN UNCHANGED <<cursor, saved>> ELSE cursor' = poll.next /\ saved' = poll.next
      /\ UNCHANGED <<endpoint, kind, sent, forgotten, settled, rows, acked, buffer,
                     flushers, retry, claims, interrupted>>
  BY DEF EndPage, configVars, remoteVars, historyVars
<1>2. Position = poll.next
  BY <1>1, PageOf
<1>3. Telegram' = Telegram /\ poll'.at = "idle" /\ Unknown' = Unknown /\ Held' \subseteq Held
  BY <1>1, HeldKept DEF Telegram, Idle, Unknown, Arrived, Wanted
<1>4. ASSUME NEW u \in Unknown PROVE Untaken(u)'
  <2>1. Untaken(u)
    BY DEF KnownFirst
  <2>2. Given(u)'
    BY <1>1, <1>2, <1>3, <2>1 DEF Untaken, Given
  <2>3. u \notin claims
    BY <1>1, <2>1 DEF Untaken, InHand
  <2>4. Telegram => Before(Range(rows') \union Held' \union acked', u)
    BY <1>1, <1>3, <2>1 DEF Untaken, Before
  <2> QED
    BY <1>1, <1>3, <2>2, <2>3, <2>4 DEF Untaken
<1> QED
  BY <1>1, <1>3, <1>4 DEF KnownFirst, Taking

-----------------------------------------------------------------------------
(* No message is lost: the process *)

\* The poll ends with its process, or has not begun.
LEMMA IdleKnown ==
    ASSUME Types, KnownFirst, poll'.at = "idle", interrupted' = CutOff,
           UNCHANGED <<endpoint, kind, sent, forgotten, settled, rows, claims, saved>>,
           cursor' = cursor \/ cursor' = saved \/ cursor' = 1,
           Held' \subseteq Held \union Range(rows), acked' \subseteq acked
    PROVE  KnownFirst'
<1>1. Arrived' = Arrived /\ Telegram' = Telegram
  BY DEF Arrived, Wanted, Telegram
<1>2. interrupted \subseteq interrupted' /\ Unknown' \subseteq Unknown
  BY <1>1 DEF CutOff, Unknown
<1>3. ASSUME NEW u \in Unknown' PROVE Untaken(u)'
  <2>1. Untaken(u) /\ u \in Unknown /\ u \in Nat /\ u >= 1
    BY <1>2, <1>3, KnownNumbers DEF KnownFirst
  <2>2. u \notin claims
    BY <1>3, <2>1 DEF Untaken, InHand, CutOff, Unknown, Arrived
  <2>3. Given(u)'
    BY <2>1 DEF Untaken, Given
  <2>4. Telegram => Before(Range(rows') \union Held' \union acked', u)
    BY <2>1 DEF Untaken, Before
  <2> QED
    BY <1>1, <2>2, <2>3, <2>4 DEF Untaken
<1>4. Telegram => interrupted' = {} /\ claims' = {}
  BY DEF CutOff, KnownFirst, Types, Page
<1> QED
  BY <1>1, <1>3, <1>4 DEF KnownFirst, Taking

LEMMA StartKnown == Types /\ KnownFirst /\ Start => KnownFirst'
<1> SUFFICES ASSUME Types, KnownFirst, Start PROVE KnownFirst'
  OBVIOUS
<1>1. /\ service = "down" /\ cursor' = saved
      /\ flushers' = FlushersFor("start", SplitRestoreBatches(rows))
      /\ UNCHANGED <<endpoint, kind, sent, forgotten, settled, rows, saved, acked, buffer,
                     retry, claims, poll, interrupted>>
  BY DEF Start, configVars, remoteVars, historyVars
<1>2. poll.at = "idle" /\ CutOff = interrupted
  BY <1>1 DEF Types, Page, CutOff
<1>3. Held' \subseteq Held \union Range(rows)
  <2>1. PICK r : r = rows
    OBVIOUS
  <2>2. Sequence(r)
    BY <2>1 DEF Types, Sequences
  <2>3. \A f \in flushers' : InFlush(f) \subseteq Range(rows)
    BY <1>1, <2>1, <2>2, SplitWithin
  <2>4. AllInFlush' \subseteq Range(rows)
    <3>1. \A f : InFlush(f)' = InFlush(f)
      BY DEF InFlush
    <3> QED
      BY <2>3, <3>1 DEF AllInFlush, Unawaited
  <2>5. AllKept' = AllKept
    BY <1>1 DEF AllKept, Kept
  <2> QED
    BY <2>4, <2>5 DEF Held
<1> QED
  BY <1>1, <1>2, <1>3, IdleKnown

LEMMA StartPollingKnown == Types /\ KnownFirst /\ StartPolling => KnownFirst'
<1> SUFFICES ASSUME Types, KnownFirst, StartPolling PROVE KnownFirst'
  OBVIOUS
<1>1. /\ service = "starting"
      /\ UNCHANGED <<endpoint, kind, sent, forgotten, settled, rows, saved, cursor, acked, buffer,
                     flushers, retry, claims, poll, interrupted>>
  BY DEF StartPolling, configVars, remoteVars, coalescerVars
<1>2. poll.at = "idle" /\ CutOff = interrupted
  BY <1>1 DEF Types, Page, CutOff
<1>3. Held' \subseteq Held
  BY <1>1, HeldKept
<1> QED
  BY <1>1, <1>2, <1>3, IdleKnown

LEMMA StopKnown == Types /\ KnownFirst /\ Stop => KnownFirst'
<1> SUFFICES ASSUME Types, KnownFirst, Stop PROVE KnownFirst'
  OBVIOUS
<1>1. /\ poll' = Idle /\ interrupted' = CutOff
      /\ flushers' = (flushers \ (Running("poll") \union Running("retry")))
             \union FlushersFor("stop", Pending)
      /\ buffer' = EmptyBuffer /\ retry' = EmptyBuffer
      /\ UNCHANGED <<endpoint, kind, sent, forgotten, settled, rows, saved, cursor, acked, claims>>
  BY DEF Stop, configVars, remoteVars, historyVars
<1>2. poll'.at = "idle"
  BY <1>1 DEF Idle
<1>3. Held' \subseteq Held
  <2>1. AllKept' = {}
    <3>1. \A c \in Conversations : Kept(c)' = {}
      BY <1>1 DEF EmptyBuffer, Kept, Range
    <3> QED
      BY <3>1 DEF AllKept
  <2>2. ASSUME NEW f \in flushers', f.by # "poll" PROVE InFlush(f) \subseteq Held
    <3>1. CASE f \in flushers
      BY <2>2, <3>1, HeldIn
    <3>2. CASE f \in FlushersFor("stop", Pending)
      <4>1. f.left = Pending
        BY <3>2 DEF FlushersFor, Flusher
      <4>2. \A i \in DOMAIN Pending : Range(Pending[i]) \subseteq Held
        BY PendingOf, HeldIn
      <4> QED
        BY <4>1, <4>2 DEF InFlush
    <3> QED
      BY <1>1, <2>2, <3>1, <3>2
  <2>3. AllInFlush' \subseteq Held
    <3>1. \A f : InFlush(f)' = InFlush(f)
      BY DEF InFlush
    <3> QED
      BY <2>2, <3>1 DEF AllInFlush, Unawaited
  <2> QED
    BY <2>1, <2>3 DEF Held
<1> QED
  BY <1>1, <1>2, <1>3, IdleKnown

LEMMA ProcessEndsKnown == Types /\ KnownFirst /\ ProcessEnds => KnownFirst'
<1> SUFFICES ASSUME Types, KnownFirst, ProcessEnds PROVE KnownFirst'
  OBVIOUS
<1>1. /\ poll' = Idle /\ interrupted' = CutOff /\ cursor' = 1 /\ acked' = {}
      /\ buffer' = EmptyBuffer /\ flushers' = {} /\ retry' = EmptyBuffer
      /\ UNCHANGED <<endpoint, kind, sent, forgotten, settled, rows, saved, claims>>
  BY DEF ProcessEnds, configVars, remoteVars, historyVars
<1>2. poll'.at = "idle"
  BY <1>1 DEF Idle
<1>3. Held' = {}
  <2>1. \A c \in Conversations : Kept(c)' = {}
    BY <1>1 DEF EmptyBuffer, Kept, Range
  <2>2. Unawaited' = {}
    BY <1>1 DEF Unawaited
  <2>3. AllKept' = {} /\ AllInFlush' = {}
    BY <2>1, <2>2 DEF AllKept, AllInFlush
  <2> QED
    BY <2>3 DEF Held
<1> QED
  BY <1>1, <1>2, <1>3, IdleKnown

-----------------------------------------------------------------------------
(* No message is lost: the flushes *)

LEMMA AtHeld ==
    ASSUME Types, NEW CONSTANT f \in flushers, NEW CONSTANT step, At(f, step),
           UNCHANGED <<buffer, retry>>
    PROVE  Held' \subseteq Held
<1> DEFINE g == [f EXCEPT !.at = step]
<1>1. g.by = f.by /\ g.left = f.left
  BY DEF Types, Flushes, FlusherOK
<1>2. flushers' = (flushers \ {f}) \union {g}
  BY DEF At
<1> HIDE DEF g
<1>3. InFlush(g) = InFlush(f)
  BY <1>1 DEF InFlush
<1>4. \A h \in Unawaited' : InFlush(h)' \subseteq Held
  <2> TAKE h \in Unawaited'
  <2>1. h.by # "poll" /\ (h = g \/ h \in flushers) /\ InFlush(h)' = InFlush(h)
    BY <1>2 DEF Unawaited, InFlush
  <2> QED
    BY <1>1, <1>3, <2>1, HeldIn
<1>5. AllInFlush' \subseteq Held
  BY <1>4 DEF AllInFlush
<1>6. AllKept' = AllKept
  BY DEF AllKept, Kept
<1> QED
  BY <1>5, <1>6 DEF Held

LEMMA NextBatchHeld ==
    ASSUME Types, NEW CONSTANT f \in flushers, NEW CONSTANT by, NextBatch(f, by),
           by = f.by \/ f.by # "poll", UNCHANGED buffer,
           \A c \in Conversations : Range(retry'[c]) \subseteq Held
    PROVE  Held' \subseteq Held
<1>1. flushers' = (flushers \ {f}) \union FlushersFor(by, Tail(f.left))
  BY DEF NextBatch
<1>2. \A g \in FlushersFor(by, Tail(f.left)) : g.by = by /\ InFlush(g) \subseteq InFlush(f)
  BY InFlushOf DEF FlushersFor, Flusher
<1>3. \A h \in Unawaited' : InFlush(h)' \subseteq Held
  <2> TAKE h \in Unawaited'
  <2>1. h.by # "poll" /\ h \in flushers' /\ InFlush(h)' = InFlush(h)
    BY DEF Unawaited, InFlush
  <2>2. CASE h \in flushers
    BY <2>1, <2>2, HeldIn
  <2>3. CASE h \in FlushersFor(by, Tail(f.left))
    <3>1. f.by # "poll" /\ InFlush(h) \subseteq InFlush(f)
      BY <1>2, <2>1, <2>3
    <3> QED
      BY <2>1, <3>1, HeldIn
  <2> QED
    BY <1>1, <2>1, <2>2, <2>3
<1>4. AllInFlush' \subseteq Held
  BY <1>3 DEF AllInFlush
<1>5. \A c \in Conversations : Kept(c)' \subseteq Held
  BY HeldIn DEF Kept
<1>6. AllKept' \subseteq Held
  BY <1>5 DEF AllKept
<1> QED
  BY <1>4, <1>6 DEF Held

LEMMA RunTurnKnown ==
    ASSUME Types, KnownFirst, Types', NEW CONSTANT f \in flushers, NEW CONSTANT result,
           RunTurn(f, result),
           UNCHANGED <<configVars, remoteVars, cursor, claims, service, poll, interrupted, buffer>>
    PROVE  KnownFirst'
<1>1. /\ UNCHANGED <<endpoint, kind, sent, saved, forgotten, cursor, claims, interrupted, poll,
                     rows, acked, buffer, retry>>
      /\ settled \subseteq settled'
  BY DEF RunTurn, configVars, remoteVars
<1>2. \E step \in {"deliver", "ack", "release"} : At(f, step)
  BY DEF RunTurn, AfterReply
<1>3. Held' \subseteq Held
  BY <1>1, <1>2, AtHeld
<1> QED
  BY <1>1, <1>3, KnownFirstKept

LEMMA DeliverKnown ==
    ASSUME Types, KnownFirst, Types', NEW CONSTANT f \in flushers, Deliver(f),
           UNCHANGED <<configVars, remoteVars, cursor, claims, service, poll, interrupted, buffer>>
    PROVE  KnownFirst'
<1>1. /\ UNCHANGED <<endpoint, kind, sent, saved, forgotten, cursor, claims, interrupted, poll,
                     rows, acked, buffer, retry>>
      /\ settled \subseteq settled' /\ At(f, AfterReply)
  BY DEF Deliver, configVars, remoteVars
<1>2. \E step \in {"ack", "release"} : At(f, step)
  BY <1>1 DEF AfterReply
<1>3. Held' \subseteq Held
  BY <1>1, <1>2, AtHeld
<1> QED
  BY <1>1, <1>3, KnownFirstKept

\* Only what is answered is acknowledged, and only the acknowledged prefix saved.
LEMMA MarkBatchKnown ==
    ASSUME Types, KnownFirst, Types', NEW CONSTANT f \in flushers, MarkBatchProcessed(f),
           UNCHANGED <<configVars, remoteVars, cursor, claims, service, poll, interrupted, buffer>>
    PROVE  KnownFirst'
<1>1. /\ UNCHANGED <<endpoint, kind, sent, forgotten, cursor, claims, interrupted, poll,
                     rows, settled, buffer, retry>>
      /\ f.at = "ack" /\ At(f, "release") /\ Acknowledge(InOrder(Batch(f)), Batch(f))
  BY DEF MarkBatchProcessed, configVars, remoteVars
<1> DEFINE b == Range(Batch(f))
<1>2. /\ acked' \subseteq acked \union b
      /\ saved' = saved \/ \E x \in acked \union b : saved' = x + 1
  BY <1>1, MarkedBatch
<1>3. b \subseteq settled /\ Telegram /\ b \subseteq Arrived
  BY <1>1, BatchIn DEF Types, Flushes, FlusherOK
<1>4. f.by # "poll" => b \subseteq Held
  BY InFlushOf, HeldIn
<1>5. f.by = "poll" => b = {Current} /\ poll.at = "flush" /\ poll.page # <<>>
  <2> SUFFICES ASSUME f.by = "poll" PROVE b = {Current} /\ poll.at = "flush" /\ poll.page # <<>>
    OBVIOUS
  <2>1. f.left = <<<<Current>>>> /\ poll.at = "flush" /\ poll.page # <<>>
    BY DEF Types, Flushes, FlusherOK, Page
  <2>2. Batch(f) = <<Current>>
    BY <2>1 DEF Batch
  <2> QED
    BY <2>1, <2>2 DEF Range
<1> HIDE DEF b
<1>6. Held' \subseteq Held
  BY <1>1, AtHeld
<1>7. Telegram' = Telegram /\ Unknown' = Unknown /\ Current' = Current /\ Position' = Position
  BY <1>1 DEF Telegram, Unknown, Arrived, Wanted, Current, Position
<1>8. ASSUME NEW u, u \in Nat, Given(u), \A x \in b \union acked : x < u
      PROVE  Given(u)'
  <2>1. \A x \in b \union acked : x \in Nat
    BY <1>3, KnownNumbers
  <2>2. saved' <= u
    BY <1>2, <1>8, <2>1 DEF Given
  <2> QED
    BY <1>1, <1>7, <1>8, <2>2 DEF Given
<1>9. ASSUME NEW u \in Unknown PROVE Untaken(u)'
  <2>1. Untaken(u) /\ u \in Nat /\ u \notin settled
    BY KnownNumbers DEF KnownFirst, Unknown
  <2>2. Given(u) /\ Before(Range(rows) \union Held \union acked, u)
    BY <1>3, <2>1 DEF Untaken
  <2>3. \A x \in b : x < u
    <3>1. CASE f.by # "poll"
      BY <1>4, <2>2, <3>1 DEF Before
    <3>2. CASE f.by = "poll"
      <4>1. Current = Position /\ Position \in Int /\ Position <= u
        BY <1>5, <2>2, <3>2, PageOf DEF Given
      <4>2. u # Current
        BY <1>3, <1>5, <2>1, <3>2
      <4> QED
        BY <1>5, <2>1, <3>2, <4>1, <4>2
    <3> QED
      BY <3>1, <3>2
  <2>4. Given(u)'
    BY <1>8, <2>1, <2>2, <2>3 DEF Before
  <2>5. u \in claims' => InHand(u)'
    BY <1>1, <1>7, <2>1 DEF Untaken, InHand
  <2>6. Before(Range(rows') \union Held' \union acked', u)
    BY <1>1, <1>2, <1>6, <2>2, <2>3 DEF Before
  <2> QED
    BY <2>4, <2>5, <2>6 DEF Untaken, Before
<1>10. Taking'
  <2>1. ASSUME poll.at = "flush", Current \notin settled
        PROVE  /\ Given(Current)'
               /\ Before((Range(rows) \ {Current}) \union Held' \union acked', Current)
    <3>1. f.by # "poll"
      BY <1>3, <1>5, <2>1
    <3>2. Given(Current) /\ Before((Range(rows) \ {Current}) \union Held \union acked, Current)
      BY <1>3, <2>1 DEF KnownFirst, Taking
    <3>3. Current \in Nat
      BY <2>1, PageOf, KnownNumbers DEF Types, Page
    <3>4. \A x \in b \union acked : x < Current
      BY <1>4, <3>1, <3>2 DEF Before
    <3>5. Given(Current)'
      <4>1. PICK m : m = Current
        OBVIOUS
      <4>2. Given(m)'
        BY <1>8, <3>2, <3>3, <3>4, <4>1
      <4> QED
        BY <1>7, <4>1, <4>2 DEF Given
    <3> QED
      BY <1>2, <1>6, <3>2, <3>4, <3>5 DEF Before
  <2>2. poll.at \in {"buffer", "flush"} => Current \in Range(rows) \union settled
    BY DEF KnownFirst, Taking
  <2> QED
    BY <1>1, <1>7, <2>1, <2>2 DEF Taking, Before
<1> QED
  BY <1>1, <1>3, <1>7, <1>9, <1>10 DEF KnownFirst

LEMMA ReleaseBatchKnown ==
    ASSUME Types, KnownFirst, Types', NEW CONSTANT f \in flushers, ReleaseBatch(f),
           UNCHANGED <<configVars, remoteVars, cursor, claims, service, poll, interrupted, buffer>>
    PROVE  KnownFirst'
<1>1. /\ UNCHANGED <<endpoint, kind, sent, saved, forgotten, cursor, claims, interrupted, poll,
                     acked, settled, buffer>>
      /\ f.at = "release" /\ Release(Range(Batch(f))) /\ NextBatch(f, f.by)
      /\ retry' = RetryAfter(f) /\ Arrived' = Arrived
  BY DEF ReleaseBatch, configVars, remoteVars, Arrived, Wanted
<1>2. Range(rows') = Range(rows) \ Range(Batch(f))
  BY <1>1, ReleaseTypes
<1>3. Range(Batch(f)) \subseteq settled
  BY <1>1 DEF Types, Flushes, FlusherOK
<1>4. \A c \in Conversations : Range(retry'[c]) \subseteq Held
  <2>1. \A c \in Conversations : retry'[c] = retry[c] \/ retry'[c] = <<>>
    BY <1>1, RetryForgotten
  <2>2. Range(<<>>) = {}
    BY DEF Range
  <2> QED
    BY <2>1, <2>2, HeldIn
<1>5. Held' \subseteq Held
  BY <1>1, <1>4, NextBatchHeld
<1> QED
  BY <1>1, <1>2, <1>3, <1>5, KnownFirstKept

LEMMA FlushFailsKnown ==
    ASSUME Types, KnownFirst, Types', NEW CONSTANT f \in flushers, FlushFails(f),
           UNCHANGED <<configVars, remoteVars, cursor, buffer, claims, service, poll, interrupted>>
    PROVE  KnownFirst'
<1>1. /\ f.by # "poll" /\ Arrived' = Arrived
      /\ UNCHANGED <<endpoint, kind, sent, saved, forgotten, cursor, claims, interrupted, poll,
                     rows, acked, settled, buffer>>
  BY DEF FlushFails, DeliveryTimesOut, FlushRaises, configVars, remoteVars, Arrived, Wanted
<1>2. PICK timedOut \in BOOLEAN : HandleError(f, timedOut)
  BY DEF FlushFails
<1>3. PICK by : /\ NextBatch(f, by)
                /\ \/ retry' = [retry EXCEPT ![ConversationOf(f)] = Batch(f)]
                   \/ retry' = RetryAfter(f)
  BY <1>2 DEF HandleError
<1>4. \A c \in Conversations : Range(retry'[c]) \subseteq Held
  <2>1. Range(Batch(f)) \subseteq Held /\ Range(<<>>) = {}
    BY <1>1, InFlushOf, HeldIn DEF Range
  <2>2. \A c \in Conversations : retry'[c] = retry[c] \/ retry'[c] = <<>> \/ retry'[c] = Batch(f)
    <3>1. CASE retry' = RetryAfter(f)
      BY <1>1, <3>1, RetryForgotten
    <3>2. CASE retry' = [retry EXCEPT ![ConversationOf(f)] = Batch(f)]
      BY <3>2 DEF Types, Sequences
    <3> QED
      BY <1>3, <3>1, <3>2
  <2> QED
    BY <2>1, <2>2, HeldIn
<1>5. Held' \subseteq Held
  BY <1>1, <1>3, <1>4, NextBatchHeld
<1> QED
  BY <1>1, <1>5, KnownFirstKept

LEMMA FlushAfterDelayKnown ==
    ASSUME Types, KnownFirst, Types', NEW CONSTANT c \in Conversations, FlushAfterDelay(c),
           UNCHANGED <<configVars, remoteVars, cursor, claims, service, poll, interrupted>>
    PROVE  KnownFirst'
<1>1. /\ UNCHANGED <<endpoint, kind, sent, saved, forgotten, cursor, claims, interrupted, poll,
                     rows, acked, settled, retry>>
      /\ buffer' = [buffer EXCEPT ![c] = <<>>]
      /\ flushers' = flushers \union {Flusher("timer", <<buffer[c]>>)}
  BY DEF FlushAfterDelay, Popped, configVars, remoteVars
<1>2. InFlush(Flusher("timer", <<buffer[c]>>)) \subseteq Held
  <2> DEFINE b == buffer[c]
  <2>1. Range(b) \subseteq Held
    BY HeldIn
  <2> HIDE DEF b
  <2>2. DOMAIN <<b>> = {1} /\ <<b>>[1] = b
    BY OneOf
  <2> QED
    BY <2>1, <2>2 DEF InFlush, Flusher, b
<1>3. AllInFlush' \subseteq Held
  <2>1. \A f \in Unawaited' : InFlush(f)' \subseteq Held
    <3> TAKE f \in Unawaited'
    <3>1. InFlush(f)' = InFlush(f) /\ f.by # "poll"
      BY DEF InFlush, Unawaited
    <3>2. f \in flushers \/ f = Flusher("timer", <<buffer[c]>>)
      BY <1>1 DEF Unawaited
    <3> QED
      BY <1>2, <3>1, <3>2, HeldIn
  <2> QED
    BY <2>1 DEF AllInFlush
<1>4. AllKept' \subseteq Held
  <2>1. \A d \in Conversations : buffer'[d] = buffer[d] \/ buffer'[d] = <<>>
    BY <1>1 DEF Types, Sequences
  <2>2. Range(<<>>) = {}
    BY DEF Range
  <2>3. \A d \in Conversations : Kept(d)' \subseteq Held
    BY <1>1, <2>1, <2>2, HeldIn DEF Kept
  <2> QED
    BY <2>3 DEF AllKept
<1>5. Held' \subseteq Held
  BY <1>3, <1>4 DEF Held
<1> QED
  BY <1>1, <1>5, KnownFirstKept

LEMMA RetryAfterDelayKnown ==
    ASSUME Types, KnownFirst, Types', NEW CONSTANT c \in Conversations, RetryAfterDelay(c),
           UNCHANGED <<configVars, remoteVars, cursor, claims, service, poll, interrupted, buffer>>
    PROVE  KnownFirst'
<1>1. /\ UNCHANGED <<endpoint, kind, sent, saved, forgotten, cursor, claims, interrupted, poll,
                     rows, acked, settled, retry, buffer>>
      /\ flushers' = flushers \union {Flusher("retry", SplitRestoreBatches(retry[c]))}
  BY DEF RetryAfterDelay, configVars, remoteVars
<1> DEFINE new == Flusher("retry", SplitRestoreBatches(retry[c]))
<1>2. InFlush(new) \subseteq Held
  <2>1. PICK b : b = retry[c]
    OBVIOUS
  <2>2. Sequence(b)
    BY <2>1 DEF Types, Sequences, BatchOf
  <2>3. InFlush(new) \subseteq Range(b)
    BY <2>1, <2>2, SplitWithin
  <2> HIDE DEF new
  <2> QED
    BY <2>1, <2>3, HeldIn
<1> HIDE DEF new
<1>3. AllInFlush' \subseteq Held
  <2>1. \A f \in Unawaited' : InFlush(f)' \subseteq Held
    <3> TAKE f \in Unawaited'
    <3>1. InFlush(f)' = InFlush(f) /\ f.by # "poll"
      BY DEF InFlush, Unawaited
    <3>2. f \in flushers \/ f = new
      BY <1>1 DEF Unawaited, new
    <3> QED
      BY <1>2, <3>1, <3>2, HeldIn
  <2> QED
    BY <2>1 DEF AllInFlush
<1>4. AllKept' = AllKept
  BY <1>1 DEF AllKept, Kept
<1>5. Held' \subseteq Held
  BY <1>3, <1>4 DEF Held
<1> QED
  BY <1>1, <1>5, KnownFirstKept

LEMMA StutterKnown == Types /\ KnownFirst /\ Types' /\ UNCHANGED vars => KnownFirst'
<1> SUFFICES ASSUME Types, KnownFirst, Types', UNCHANGED vars PROVE KnownFirst'
  OBVIOUS
<1>1. UNCHANGED <<endpoint, kind, sent, saved, forgotten, cursor, claims, interrupted, poll,
                  rows, acked, settled, buffer, retry, flushers>>
  BY DEF vars
<1>2. Held' \subseteq Held
  BY <1>1, HeldKept
<1> QED
  BY <1>1, <1>2, KnownFirstKept

LEMMA StepKnown == Types /\ KnownFirst /\ [Next]_vars => KnownFirst'
<1> SUFFICES ASSUME Types, KnownFirst, [Next]_vars PROVE KnownFirst'
  OBVIOUS
<1>0. Types'
  BY StepTypes
<1>1. CASE UNCHANGED vars
  BY <1>0, <1>1, StutterKnown
<1>2. CASE Send \/ PollFails \/ StoreRaises \/ Start \/ StartPolling \/ Stop
  BY <1>0, <1>2, SendKnown, PollFailsKnown, StoreRaisesKnown, StartKnown, StartPollingKnown, StopKnown
<1>3. CASE PollStep
  BY <1>0, <1>3, FetchKnown, TakeUpdateKnown, ClaimEventKnown, StoreEventKnown,
     MessagePassedKnown, GiveClaimBackKnown, EndPageKnown DEF PollStep
<1>4. CASE Stopped \/ Crash
  BY <1>4, ProcessEndsKnown DEF Stopped, Crash
<1>5. CASE BackgroundStep
  <2>1. UNCHANGED <<configVars, remoteVars, cursor, claims, service, poll, interrupted>>
    BY <1>5 DEF BackgroundStep
  <2>2. CASE FlushStep /\ UNCHANGED buffer
    <3>1. PICK f \in flushers :
            \/ \E result \in TurnResults : RunTurn(f, result)
            \/ Deliver(f) \/ MarkBatchProcessed(f) \/ ReleaseBatch(f)
      BY <2>2 DEF FlushStep
    <3> QED
      BY <1>0, <2>1, <2>2, <3>1, RunTurnKnown, DeliverKnown, MarkBatchKnown, ReleaseBatchKnown
  <2>3. CASE \E c \in Conversations : FlushAfterDelay(c)
    BY <1>0, <2>1, <2>3, FlushAfterDelayKnown
  <2>4. CASE \E c \in Conversations : MayRetry /\ RetryAfterDelay(c) /\ UNCHANGED buffer
    BY <1>0, <2>1, <2>4, RetryAfterDelayKnown
  <2> QED
    BY <1>5, <2>2, <2>3, <2>4 DEF BackgroundStep
<1>6. CASE HandledFailure
  <2>1. UNCHANGED <<configVars, remoteVars, cursor, buffer, claims, service, poll, interrupted>>
    BY <1>6 DEF HandledFailure
  <2> QED
    BY <1>0, <1>6, <2>1, FlushFailsKnown DEF HandledFailure
<1> QED
  BY <1>1, <1>2, <1>3, <1>4, <1>5, <1>6 DEF Next

LEMMA KnownIsKept == Types /\ KnownFirst => NoMessageLost
<1> SUFFICES ASSUME Types, KnownFirst, NEW m \in 1..sent, Wanted(m), ~GivenAgain(m),
                    m \notin settled, ~Contains(rows, m), m \notin interrupted
             PROVE  InHand(m)
  BY DEF NoMessageLost
<1>1. m \notin Range(rows)
  BY RangeOf DEF Types, Sequences, Sequence
<1>2. m \in Unknown
  BY <1>1 DEF Unknown, Arrived
<1>3. Untaken(m)
  BY <1>2 DEF KnownFirst
<1>4. m \in claims
  <2>1. saved \in Nat /\ forgotten \in Nat /\ m \in Nat
    BY KnownNumbers
  <2> QED
    BY <1>3, <2>1 DEF Untaken, Given, GivenAgain
<1> QED
  BY <1>3, <1>4 DEF Untaken

\* A message the next process would not be given again is settled or in the table,
\* or the poll is between its claim and its row: whatever the batch sizes, the
\* order of answers, the errors, timeouts, retries, stops and crashes.
THEOREM NoMessageIsLost == Spec => []NoMessageLost
<1>1. Init => Types /\ KnownFirst
  BY InitTypes, InitKnown
<1>2. Types /\ KnownFirst /\ [Next]_vars => Types' /\ KnownFirst'
  BY StepTypes, StepKnown
<1>3. Types /\ KnownFirst => NoMessageLost
  BY KnownIsKept
<1> QED
  BY <1>1, <1>2, <1>3, PTL DEF Spec

-----------------------------------------------------------------------------
(* Nothing is repeated: how a batch is cut *)

\* A batch, which is of one conversation, is only cut.
LEMMA SplitBatch ==
    ASSUME Types, NEW c \in Conversations, NEW b, BatchOf(b, c)
    PROVE  SplitRestoreBatches(b) \in Seq(Range(Cut(b, Limits)))
<1> DEFINE B == Range(Cut(b, Limits))
           T == Arrived
           S == {m \in Messages : Conversation[m] = c}
           g(i) == Group(b, Conversation[b[i]])
           parts(i) == IF OpensGroup(b, i) THEN Cut(g(i), Limits) ELSE <<>>
           ss == [i \in DOMAIN b |-> parts(i)]
<1>1. /\ b \in Seq(T) /\ T \in SUBSET Messages /\ DOMAIN b = 1..Len(b) /\ Len(b) \in Nat
      /\ \A i \in 1..Len(b) : Conversation[b[i]] = c
  BY Basics, LenProperties DEF BatchOf, Sequence
<1>2. IsInjective(b) /\ Limits \in [size : Nat \ {0}, chars : Nat]
  BY LimitsOf DEF BatchOf, Sequence, Types, Numbers
<1> HIDE DEF T
<1>3. b \in Seq(T \cap S)
  <2>1. \A i \in 1..Len(b) : b[i] \in T \cap S
    BY <1>1, ElementOfSeq
  <2> HIDE DEF S
  <2> QED
    BY <1>1, <2>1, IsASeq
<1>4. Group(b, c) = b
  <2> DEFINE R == T \cap S
  <2>1. R \in SUBSET S /\ b \in Seq(R)
    BY <1>3
  <2> HIDE DEF R
  <2>2. Those(S, b) = b
    BY <2>1, ThoseAll
  <2> QED
    BY <2>2 DEF Group
<1>5. Cut(b, Limits) \in Seq(B)
  <2> DEFINE A == Seq(T)
  <2>1. \A x \in Seq(T) : x # <<>> /\ IsInjective(x) => x \in A
    OBVIOUS
  <2> HIDE DEF A
  <2> QED
    BY <1>1, <1>2, <2>1, CutOf
<1>6. <<>> \in Seq(B)
  BY EmptySeq
<1>7. \A i \in 1..Len(b) : g(i) = b
  BY <1>1, <1>4
<1> HIDE DEF B, g
<1>8. \A i \in 1..Len(b) : parts(i) \in Seq(B)
  BY <1>5, <1>6, <1>7
<1>9. ss \in Seq(Seq(B))
  BY <1>1, <1>8
<1>10. SplitRestoreBatches(b) = FlattenSeq(ss)
  BY DEF SplitRestoreBatches, g
<1> HIDE DEF ss
<1> QED
  BY <1>9, <1>10, FlattenOf DEF B

\* An empty table has no batches.
LEMMA SplitNothing == SplitRestoreBatches(<<>>) = <<>>
<1> DEFINE f(i) == IF OpensGroup(<<>>, i)
                   THEN Cut(Group(<<>>, Conversation[<<>>[i]]), Limits) ELSE <<>>
           ss == [i \in DOMAIN <<>> |-> f(i)]
<1>1. SplitRestoreBatches(<<>>) = FlattenSeq(ss)
  BY DEF SplitRestoreBatches
<1> HIDE DEF f
<1>2. ss = <<>>
  BY EmptySeq
<1> DEFINE B == {}
<1>3. ss \in Seq(Seq(B))
  BY <1>2
<1> HIDE DEF ss, B
<1>4. FlattenSeq(ss) \in Seq(B)
  BY <1>3, FlattenOf
<1> DEFINE r == FlattenSeq(ss)
<1>5. r \in Seq(B)
  BY <1>4
<1> HIDE DEF r
<1>6. \A i \in 1..Len(r) : r[i] \in B
  BY <1>5, ElementOfSeq
<1>7. Len(r) \in Nat
  BY <1>5, LenProperties
<1>8. Len(r) = 0
  BY <1>6, <1>7 DEF B
<1>9. r = <<>>
  BY <1>5, <1>8, EmptySeq
<1> QED
  BY <1>1, <1>9 DEF r

-----------------------------------------------------------------------------
(* Nothing is repeated: batches and what they have in common *)

LEMMA MadeOf ==
    ASSUME Types, Apart, NEW b \in Made
    PROVE  /\ b \in Batches /\ b \in Seq(Arrived) /\ IsInjective(b) /\ b # <<>>
           /\ Len(b) \in Nat \ {0} /\ Range(b) \subseteq Arrived /\ Arrived \subseteq Messages
           /\ \E c \in Conversations : BatchOf(b, c)
<1>1. b \in Batches
  <2>1. CASE b \in turns
    BY <2>1 DEF Apart
  <2>2. CASE b \in InFlight
    <3>1. PICK f \in flushers : b \in Range(f.left)
      BY <2>2 DEF InFlight
    <3>2. f.left \in Seq(Batches)
      BY DEF Types, Flushes, FlusherOK
    <3> QED
      BY <3>1, <3>2, RangeOf
  <2>3. CASE b \in Retried
    <3>1. PICK c \in Conversations : b = retry[c] /\ b # <<>>
      BY <2>3 DEF Retried
    <3>2. BatchOf(b, c)
      BY <3>1 DEF Types, Sequences
    <3> QED
      BY <3>1, <3>2 DEF Batches, Tidy, BatchOf, Sequence
  <2> QED
    BY <2>1, <2>2, <2>3 DEF Made
<1>2. b \in Seq(Arrived) /\ b # <<>> /\ \E c \in Conversations : BatchOf(b, c)
  BY <1>1 DEF Batches, Tidy
<1>3. IsInjective(b)
  BY <1>2 DEF BatchOf, Sequence
<1>4. Len(b) \in Nat \ {0} /\ Range(b) \subseteq Arrived
  BY <1>2, RangeOf, EmptySeq
<1> QED
  BY <1>1, <1>2, <1>3, <1>4, Basics

\* The batch a flusher works on is one of its batches.
LEMMA BatchMade ==
    ASSUME Types, NEW f \in flushers
    PROVE  /\ Batch(f) \in Range(f.left) /\ Batch(f) \in InFlight /\ Batch(f) \in Made
           /\ Range(Tail(f.left)) \subseteq Range(f.left) /\ Range(f.left) \subseteq InFlight
           /\ Batch(f) \in Batches
<1> DEFINE s == f.left
           B == Batches
<1>1. s \in Seq(B) /\ s # <<>>
  BY DEF Types, Flushes, FlusherOK
<1> HIDE DEF s, B
<1>2. Len(s) \in Nat \ {0} /\ DOMAIN s = 1..Len(s)
  BY <1>1, RangeOf, EmptySeq
<1>3. Head(s) = s[1] /\ s[1] \in Range(s)
  BY <1>1, <1>2 DEF Range
<1>4. Tail(s) \in Seq(B) /\ Len(Tail(s)) = Len(s) - 1 /\ \A i \in 1..Len(Tail(s)) : Tail(s)[i] = s[i + 1]
  BY <1>1, HeadTailProperties
<1>5. Range(Tail(s)) \subseteq Range(s)
  <2> DEFINE t == Tail(s)
  <2>1. DOMAIN t = 1..(Len(s) - 1) /\ \A i \in 1..(Len(s) - 1) : t[i] = s[i + 1] /\ i + 1 \in 1..Len(s)
    BY <1>2, <1>4, LenProperties
  <2> HIDE DEF t
  <2> QED
    BY <1>2, <2>1 DEF Range, t
<1>6. Range(s) \subseteq InFlight
  BY DEF InFlight, s
<1>7. Head(s) \in B
  BY <1>1, <1>2, <1>3, ElementOfSeq
<1> QED
  BY <1>3, <1>5, <1>6, <1>7 DEF Batch, Made, s, B

\* A step after which every batch was one before, and nobody has more.
AddsNothing ==
    /\ Made' \subseteq Made
    /\ \A c \in Conversations : Range(buffer'[c]) \subseteq Range(buffer[c])
    /\ \A m \in Messages : replies'[m] > 0 => Seen(m)

LEMMA SeenKept ==
    ASSUME AddsNothing
    PROVE  \A m \in Messages : Seen(m)' => Seen(m)
BY DEF AddsNothing, Seen

\* What may meet depends on the limits only, which stay.
LEMMA MeetSame ==
    ASSUME endpoint' = endpoint
    PROVE  \A b, d : MayMeet(b, d) => MayMeet(b, d)'
<1>1. Limits' = Limits
  BY DEF Limits
<1> QED
  BY <1>1 DEF MayMeet, PieceOf

LEMMA ApartKept ==
    ASSUME Types, Apart, Arrived \subseteq Arrived', endpoint' = endpoint,
           turns' \subseteq turns \union Batches, ~restarted' => ~restarted /\ AddsNothing
    PROVE  Apart'
<1>1. turns' \subseteq Batches'
  BY BatchesGrow DEF Apart
<1>2. ASSUME ~restarted' PROVE ~restarted /\ Made' \subseteq Made
                               /\ \A c \in Conversations : Range(buffer'[c]) \subseteq Range(buffer[c])
  BY <1>2 DEF AddsNothing
<1>3. \A b, d : MayMeet(b, d) => MayMeet(b, d)'
  BY MeetSame
<1> QED
  BY <1>1, <1>2, <1>3 DEF Apart, Meet

\* A step that makes the batches in N.
LEMMA ApartGrows ==
    ASSUME Types, Apart, Arrived' = Arrived, UNCHANGED <<endpoint, restarted, turns>>,
           NEW N, Made' \subseteq Made \union N,
           ~endpoint.batching => \A b \in N : Len(b) = 1,
           ~restarted /\ endpoint.batching =>
               \A b \in N : \A d \in Made \union N : Meet(b, d) => MayMeet(b, d),
           ~restarted => \A c \in Conversations : \A b \in Made \union N : ~Meet(buffer'[c], b)
    PROVE  Apart'
<1>1. turns' \subseteq Batches'
  BY BatchesGrow DEF Apart
<1>2. ~restarted /\ ~endpoint.batching => \A b \in Made' : Len(b) = 1
  BY DEF Apart
<1>3. ASSUME ~restarted, endpoint.batching, NEW b \in Made', NEW d \in Made', Meet(b, d)
      PROVE  MayMeet(b, d)
  <2>1. Meet(d, b) /\ (MayMeet(d, b) => MayMeet(b, d))
    BY <1>3 DEF Meet, MayMeet
  <2>2. CASE b \in N
    BY <1>3, <2>2
  <2>3. CASE d \in N
    BY <1>3, <2>1, <2>3
  <2>4. CASE b \in Made /\ d \in Made
    BY <1>3, <2>4 DEF Apart
  <2> QED
    BY <1>3, <2>2, <2>3, <2>4
<1>4. ~restarted => \A c \in Conversations : \A b \in Made' : ~Meet(buffer'[c], b)
  OBVIOUS
<1>5. \A b, d : MayMeet(b, d) => MayMeet(b, d)'
  BY MeetSame
<1> QED
  BY <1>1, <1>2, <1>3, <1>4, <1>5 DEF Apart, Meet

\* The flusher takes its next step; a turn is one for its batch.
LEMMA MadeAt ==
    ASSUME Types, NEW CONSTANT f \in flushers, NEW CONSTANT step, At(f, step), retry' = retry,
           turns' \subseteq turns \union {Batch(f)}
    PROVE  Made' \subseteq Made
<1> DEFINE g == [f EXCEPT !.at = step]
<1>1. f = [by |-> f.by, left |-> f.left, at |-> f.at]
  BY DEF Types, Flushes, FlusherOK
<1>2. g.left = f.left
  BY <1>1
<1>3. flushers' = (flushers \ {f}) \union {g}
  BY DEF At
<1> HIDE DEF g
<1>4. InFlight' = InFlight
  BY <1>2, <1>3 DEF InFlight
<1> QED
  BY <1>4, BatchMade DEF Made, Retried

\* The flusher is done with its batch, which may stay for a retry.
LEMMA MadeNext ==
    ASSUME Types, NEW CONSTANT f \in flushers, NEW CONSTANT by, NextBatch(f, by), turns' = turns,
           \A c \in Conversations : retry'[c] \in {retry[c], Batch(f), <<>>}
    PROVE  Made' \subseteq Made
<1> DEFINE N == FlushersFor(by, Tail(f.left))
<1>1. \A g \in N : g.left = Tail(f.left)
  <2>1. Flusher(by, Tail(f.left)).left = Tail(f.left)
    BY DEF Flusher
  <2> QED
    BY <2>1 DEF FlushersFor
<1>2. flushers' = (flushers \ {f}) \union N
  BY DEF NextBatch
<1> HIDE DEF N
<1>3. InFlight' \subseteq InFlight
  BY <1>1, <1>2, BatchMade DEF InFlight
<1>4. Retried' \subseteq Retried \union {Batch(f)}
  BY DEF Retried
<1> QED
  BY <1>3, <1>4, BatchMade DEF Made

LEMMA MadeSame ==
    ASSUME flushers' \subseteq flushers, UNCHANGED <<retry, turns>>
    PROVE  Made' \subseteq Made
BY DEF Made, InFlight, Retried

\* The replies a delivery adds are for its batch.
LEMMA RepliesSeen ==
    ASSUME Types, Counted, NEW CONSTANT f \in flushers, Reply(f) \/ UNCHANGED replies
    PROVE  /\ replies' \in [Messages -> 0..2]
           /\ \A m \in Messages : replies'[m] > 0 => Seen(m)
           /\ \A m \in Messages : m \notin Range(Batch(f)) => replies'[m] = replies[m]
           /\ \A m \in Messages : replies'[m] <= replies[m] + 1
<1> DEFINE b == Batch(f)
<1>1. b \in Made /\ b \in Seq(Arrived)
  BY BatchMade DEF Batches
<1>2. \A x : x \in Range(b) <=> Contains(b, x)
  BY <1>1, RangeOf
<1> HIDE DEF b
<1>3. CASE UNCHANGED replies
  BY <1>3 DEF Counted, Seen
<1>4. CASE Reply(f)
  <2>1. replies' = [m \in Messages |-> IF Contains(b, m) /\ replies[m] < 2
                                       THEN replies[m] + 1 ELSE replies[m]]
    BY <1>4 DEF Reply, b
  <2>2. \A m \in Messages : replies[m] \in 0..2
    BY DEF Counted
  <2>3. \A m \in Messages : m \in Range(b) => Seen(m)
    BY <1>1 DEF Seen
  <2>4. \A m \in Messages : replies[m] > 0 => Seen(m)
    BY DEF Seen
  <2> HIDE DEF Counted
  <2>5. \A m \in Messages : m \notin Range(b) => replies'[m] = replies[m]
    BY <1>2, <2>1
  <2>6. replies' \in [Messages -> 0..2] /\ \A m \in Messages : replies'[m] <= replies[m] + 1
    BY <2>1, <2>2
  <2> QED
    BY <2>3, <2>4, <2>5, <2>6 DEF b
<1> QED
  BY <1>3, <1>4

\* What never changes, grows only, or is set once.
Forward ==
    /\ sent' \in {sent, sent + 1} /\ UNCHANGED configVars
    /\ restarted => restarted'
    /\ faults' = faults \/ faults' = faults + 1

LEMMA ForwardOf ==
    ASSUME Types, Counted, Next
    PROVE  Forward /\ Arrived \subseteq Arrived' /\ endpoint' = endpoint
           /\ (faults' = 0 => faults = 0) /\ (Undisturbed' => Undisturbed)
<1>1. sent \in Nat
  BY Basics
<1>2. Forward
  <2>1. CASE Send
    BY <1>1, <2>1 DEF Send, coalescerVars, Forward
  <2>2. CASE PollStep
    BY <1>1, <2>2 DEF PollStep, Fetch, TakeUpdate, ClaimEvent, StoreEvent, GiveClaimBack,
       MessagePassed, EndPage, coalescerVars, remoteVars, Forward
  <2>3. CASE PollFails \/ StoreRaises
    BY <1>1, <2>3 DEF PollFails, StoreRaises, Fault, remoteVars, Forward
  <2>4. CASE Start \/ StartPolling
    BY <1>1, <2>4 DEF Start, StartPolling, remoteVars, coalescerVars, Forward
  <2>5. CASE Stop \/ Stopped \/ Crash
    BY <1>1, <2>5 DEF Stop, Stopped, Crash, ProcessEnds, Fault, remoteVars, Forward
  <2>6. CASE BackgroundStep
    <3>1. UNCHANGED <<configVars, remoteVars, restarted>>
      BY <2>6 DEF BackgroundStep
    <3>2. faults' = faults
      BY <2>6 DEF BackgroundStep, FlushStep, RunTurn, Deliver, MarkBatchProcessed, ReleaseBatch,
         FlushAfterDelay, RetryAfterDelay
    <3> QED
      BY <3>1, <3>2 DEF remoteVars, Forward
  <2>7. CASE HandledFailure
    BY <1>1, <2>7 DEF HandledFailure, FlushFails, Fault, remoteVars, Forward
  <2> QED
    BY <2>1, <2>2, <2>3, <2>4, <2>5, <2>6, <2>7 DEF Next
<1>3. Arrived \subseteq Arrived'
  <2>1. sent' \in Nat /\ sent <= sent' /\ kind' = kind
    BY <1>1, <1>2 DEF Forward, configVars
  <2>2. 1..sent \subseteq 1..sent'
    BY <1>1, <2>1
  <2> QED
    BY <2>1, <2>2 DEF Arrived, Wanted
<1> QED
  BY <1>2, <1>3 DEF Forward, Counted, Undisturbed, configVars

-----------------------------------------------------------------------------
(* Nothing is repeated: steps that make no new batch *)

LEMMA NothingNew ==
    ASSUME flushers' \subseteq flushers, UNCHANGED <<retry, turns, buffer, replies>>
    PROVE  AddsNothing
BY MadeSame DEF AddsNothing, Seen

LEMMA RunTurnAdds ==
    ASSUME Types, Counted, NEW CONSTANT f \in flushers, NEW CONSTANT result, RunTurn(f, result),
           UNCHANGED buffer
    PROVE  AddsNothing /\ turns' \subseteq turns \union Batches
<1>1. /\ UNCHANGED <<retry, replies>> /\ turns' \subseteq turns \union {Batch(f)}
      /\ \E step : At(f, step)
  BY DEF RunTurn
<1>2. Made' \subseteq Made
  BY <1>1, MadeAt
<1> QED
  BY <1>1, <1>2, BatchMade DEF AddsNothing, Seen

LEMMA DeliverAdds ==
    ASSUME Types, Counted, NEW CONSTANT f \in flushers, Deliver(f), UNCHANGED buffer
    PROVE  AddsNothing /\ turns' = turns
<1>1. UNCHANGED <<retry, turns>> /\ Reply(f) /\ \E step : At(f, step)
  BY DEF Deliver
<1>2. Made' \subseteq Made
  BY <1>1, MadeAt
<1> QED
  BY <1>1, <1>2, RepliesSeen DEF AddsNothing

LEMMA MarkBatchAdds ==
    ASSUME Types, Counted, NEW CONSTANT f \in flushers, MarkBatchProcessed(f), UNCHANGED buffer
    PROVE  AddsNothing /\ turns' = turns
<1>1. UNCHANGED <<retry, turns, replies>> /\ \E step : At(f, step)
  BY DEF MarkBatchProcessed
<1>2. Made' \subseteq Made
  BY <1>1, MadeAt
<1> QED
  BY <1>1, <1>2 DEF AddsNothing, Seen

LEMMA ReleaseBatchAdds ==
    ASSUME Types, Counted, NEW CONSTANT f \in flushers, ReleaseBatch(f), UNCHANGED buffer
    PROVE  AddsNothing /\ turns' = turns
<1>1. UNCHANGED <<turns, replies>> /\ NextBatch(f, f.by) /\ retry' = RetryAfter(f)
  BY DEF ReleaseBatch
<1>2. \A c \in Conversations : retry'[c] \in {retry[c], Batch(f), <<>>}
  <2>1. retry = [c \in Conversations |-> retry[c]]
    BY DEF Types, Sequences
  <2> QED
    BY <1>1, <2>1 DEF RetryAfter
<1>3. PICK by : by = f.by
  OBVIOUS
<1>4. Made' \subseteq Made
  BY <1>1, <1>2, <1>3, MadeNext
<1> QED
  BY <1>1, <1>4 DEF AddsNothing, Seen

LEMMA FlushFailsAdds ==
    ASSUME Types, Counted, NEW CONSTANT f \in flushers, FlushFails(f), UNCHANGED buffer
    PROVE  AddsNothing /\ turns' = turns
<1>1. PICK timedOut \in BOOLEAN : HandleError(f, timedOut)
  BY DEF FlushFails
<1>2. turns' = turns /\ (Reply(f) \/ UNCHANGED replies)
  BY DEF FlushFails, DeliveryTimesOut, FlushRaises
<1>3. PICK by : /\ NextBatch(f, by)
                /\ \/ retry' = [retry EXCEPT ![ConversationOf(f)] = Batch(f)]
                   \/ retry' = RetryAfter(f)
  <2>1. CASE RetryScheduled(f, timedOut)
    <3>1. NextBatch(f, IF f.by = "retry" THEN "replaced" ELSE f.by)
      BY <1>1, <2>1 DEF HandleError
    <3> QED
      BY <1>1, <2>1, <3>1 DEF HandleError
  <2>2. CASE ~RetryScheduled(f, timedOut)
    BY <1>1, <2>2 DEF HandleError
  <2> QED
    BY <2>1, <2>2
<1>4. \A c \in Conversations : retry'[c] \in {retry[c], Batch(f), <<>>}
  <2>1. retry = [c \in Conversations |-> retry[c]]
    BY DEF Types, Sequences
  <2> QED
    BY <1>3, <2>1 DEF RetryAfter
<1>5. Made' \subseteq Made
  BY <1>2, <1>3, <1>4, MadeNext
<1> QED
  BY <1>2, <1>5, RepliesSeen DEF AddsNothing

LEMMA PollFailsAdds ==
    ASSUME Types, Counted, PollFails
    PROVE  AddsNothing /\ turns' = turns
<1>1. PICK f \in Running("poll") : /\ DeliveryTimesOut(f) \/ FlushRaises(f)
                                   /\ flushers' = flushers \ {f}
  BY DEF PollFails
<1>2. UNCHANGED <<retry, buffer, turns>>
  BY <1>1 DEF PollFails, DeliveryTimesOut, FlushRaises
<1>3. f \in flushers /\ (Reply(f) \/ UNCHANGED replies)
  BY <1>1 DEF Running, DeliveryTimesOut, FlushRaises
<1>4. Made' \subseteq Made
  BY <1>1, <1>2, MadeSame
<1> QED
  BY <1>2, <1>3, <1>4, RepliesSeen DEF AddsNothing

LEMMA StartAdds ==
    ASSUME Types, AtRest, Start, ~restarted
    PROVE  AddsNothing /\ flushers' = {}
<1>1. rows = <<>>
  BY DEF Start, AtRest
<1>2. flushers' = {}
  BY <1>1, SplitNothing DEF Start, FlushersFor
<1> QED
  BY <1>2, NothingNew DEF Start, historyVars

-----------------------------------------------------------------------------
(* Nothing is repeated: steps that make a batch *)

\* Batches of different conversations have no message in common.
LEMMA Elsewhere ==
    ASSUME NEW c \in Conversations, NEW d \in Conversations, c # d, NEW a, NEW b,
           BatchOf(a, c), BatchOf(b, d)
    PROVE  ~Meet(a, b)
<1>1. \A m \in Range(a) : Conversation[m] = c
  BY DEF BatchOf, Range
<1>2. \A m \in Range(b) : Conversation[m] = d
  BY DEF BatchOf, Range
<1> QED
  BY <1>1, <1>2 DEF Meet

\* Before the poll takes a message of Telegram, nobody has it.
LEMMA Fresh ==
    ASSUME Types, HandedOnce, Telegram, OnPage("next")
    PROVE  ~Seen(Current)
<1>1. Current = Position /\ Current \in Messages /\ cursor <= Position
  BY PageOf, Basics DEF OnPage, Types, Behind
<1>2. Position \in Int /\ cursor \in Int
  BY PageOf, Basics DEF Types, Numbers
<1> QED
  BY <1>1, <1>2 DEF HandedOnce, OnPage

LEMMA StoreApart ==
    ASSUME Types, Apart, StoreAndPass(Current), OnPage("next") \/ OnPage("store"),
           UNCHANGED <<configVars, sent, historyVars, restarted, buffer, retry>>
    PROVE  Apart'
<1>1. /\ Arrived' = Arrived /\ UNCHANGED <<endpoint, restarted, turns, replies>>
  BY DEF configVars, historyVars, Arrived, Wanted
<1>2. CASE endpoint.batching
  <2>1. flushers' \subseteq flushers
    BY <1>2 DEF StoreAndPass
  <2>2. AddsNothing
    BY <1>1, <2>1, NothingNew
  <2> QED
    BY <1>1, <2>2, ApartKept
<1>3. CASE ~endpoint.batching
  <2>1. PICK m : m = Current
    OBVIOUS
  <2>2. flushers' = flushers \union {Flusher("poll", <<<<m>>>>)}
    BY <1>3, <2>1 DEF StoreAndPass
  <2> DEFINE b == <<m>>
             N == {b}
  <2>3. Range(<<b>>) = {b} /\ Len(b) = 1
    BY DEF Range
  <2> HIDE DEF b
  <2>4. Flusher("poll", <<b>>).left = <<b>>
    BY DEF Flusher
  <2>5. InFlight' \subseteq InFlight \union N
    BY <2>2, <2>3, <2>4 DEF InFlight, b
  <2>6. Made' \subseteq Made \union N
    BY <1>1, <2>5 DEF Made, Retried
  <2>7. \A c \in Conversations : buffer'[c] = <<>> /\ Range(<<>>) = {}
    BY <1>3, EmptyOf DEF Types, Behind
  <2>8. \A c \in Conversations : \A d : ~Meet(buffer'[c], d)
    BY <2>7 DEF Meet
  <2> HIDE DEF N
  <2>9. \A d \in N : Len(d) = 1
    BY <2>3 DEF N
  <2> QED
    BY <1>1, <1>3, <2>6, <2>8, <2>9, ApartGrows
<1> QED
  BY <1>2, <1>3

\* What a conversation has gathered becomes a batch.
LEMMA FlushAfterDelayApart ==
    ASSUME Types, Apart, NEW CONSTANT c \in Conversations, FlushAfterDelay(c),
           UNCHANGED <<configVars, remoteVars, restarted>>
    PROVE  /\ Apart'
           /\ \A m \in Messages : Seen(m)' => Seen(m)
<1>1. /\ Arrived' = Arrived /\ UNCHANGED <<endpoint, restarted, turns, retry, replies>>
      /\ buffer[c] # <<>> /\ buffer' = [buffer EXCEPT ![c] = <<>>]
      /\ flushers' = flushers \union {Flusher("timer", <<buffer[c]>>)}
  BY DEF FlushAfterDelay, Popped, configVars, remoteVars, Arrived, Wanted
<1>2. buffer' = [d \in Conversations |-> IF d = c THEN <<>> ELSE buffer[d]]
  BY <1>1 DEF Types, Sequences
<1>3. PICK b : b = buffer[c]
  OBVIOUS
<1>4. Range(<<b>>) = {b} /\ Flusher("timer", <<b>>).left = <<b>> /\ Range(<<>>) = {}
  BY EmptyOf DEF Range, Flusher
<1>5. InFlight' \subseteq InFlight \union {b}
  BY <1>1, <1>3, <1>4 DEF InFlight
<1>6. Made' \subseteq Made \union {b}
  BY <1>1, <1>5 DEF Made, Retried
<1>7. endpoint.batching
  BY <1>1 DEF Types, Behind
<1>8. ASSUME ~restarted, NEW d \in Made PROVE ~Meet(b, d)
  BY <1>3, <1>8 DEF Apart
<1>9. ASSUME ~restarted, NEW k \in Conversations, NEW d \in Made \union {b}
      PROVE  ~Meet(buffer'[k], d)
  <2>1. CASE k = c
    BY <1>2, <1>4, <2>1 DEF Meet
  <2>2. CASE k # c /\ d \in Made
    BY <1>2, <1>9, <2>2 DEF Apart
  <2>3. CASE k # c /\ d = b
    <3>1. BatchOf(buffer[k], k) /\ BatchOf(b, c) /\ buffer'[k] = buffer[k]
      BY <1>2, <1>3, <2>3 DEF Types, Sequences
    <3> QED
      BY <2>3, <3>1, Elsewhere
  <2> QED
    BY <1>9, <2>1, <2>2, <2>3
<1>10. Apart'
  <2> DEFINE N == {b}
  <2>1. Made' \subseteq Made \union N
    BY <1>6
  <2>2. ~restarted /\ endpoint.batching =>
            \A x \in N : \A d \in Made \union N : Meet(x, d) => MayMeet(x, d)
    BY <1>8 DEF MayMeet
  <2>3. ~restarted => \A k \in Conversations : \A d \in Made \union N : ~Meet(buffer'[k], d)
    BY <1>9
  <2> HIDE DEF N
  <2> QED
    BY <1>1, <1>7, <2>1, <2>2, <2>3, ApartGrows
<1>11. ASSUME NEW m \in Messages, Seen(m)' PROVE Seen(m)
  <2>1. CASE \E d \in Made' : m \in Range(d)
    BY <1>3, <1>6, <2>1 DEF Seen
  <2>2. CASE \E k \in Conversations : m \in Range(buffer'[k])
    BY <1>2, <1>4, <2>2 DEF Seen
  <2>3. CASE replies'[m] > 0
    BY <1>1, <2>3 DEF Seen
  <2> QED
    BY <1>11, <2>1, <2>2, <2>3 DEF Seen
<1> QED
  BY <1>10, <1>11

\* A retry cuts its batch, if that is too long, and makes nothing otherwise.
LEMMA RetryAfterDelayApart ==
    ASSUME Types, Apart, NEW CONSTANT c \in Conversations, RetryAfterDelay(c),
           UNCHANGED <<configVars, remoteVars, restarted, buffer>>
    PROVE  /\ Apart'
           /\ \A m \in Messages : Seen(m)' => Seen(m)
<1>1. /\ Arrived' = Arrived /\ UNCHANGED <<endpoint, restarted, turns, retry, replies, buffer>>
      /\ retry[c] # <<>>
      /\ flushers' = flushers \union {Flusher("retry", SplitRestoreBatches(retry[c]))}
  BY DEF RetryAfterDelay, configVars, remoteVars, Arrived, Wanted
<1>2. PICK b : b = retry[c]
  OBVIOUS
<1>3. b \in Made /\ BatchOf(b, c)
  BY <1>1, <1>2 DEF Made, Retried, Types, Sequences
<1>4. PICK limits : limits = Limits
  OBVIOUS
<1>5. PICK N : N = Range(Cut(b, limits))
  OBVIOUS
<1>6. PICK s : s = SplitRestoreBatches(b)
  OBVIOUS
<1>7. Range(s) \subseteq N
  <2>1. s \in Seq(N)
    BY <1>3, <1>4, <1>5, <1>6, SplitBatch
  <2> QED
    BY <2>1, RangeOf
<1>8. Made' \subseteq Made \union N
  <2>1. Flusher("retry", s).left = s
    BY DEF Flusher
  <2>2. InFlight' \subseteq InFlight \union N
    BY <1>1, <1>2, <1>6, <1>7, <2>1 DEF InFlight
  <2> QED
    BY <1>1, <2>2 DEF Made, Retried
<1>9. /\ limits \in [size : Nat \ {0}, chars : Nat]
      /\ b \in Seq(Arrived) /\ IsInjective(b) /\ Len(b) \in Nat
      /\ ~endpoint.batching => limits.size = 1
  BY <1>3, <1>4, LimitsOf, RangeOf DEF Limits, BatchOf, Sequence, Types, Numbers
<1>10. \A d, e \in N : /\ d \in Seq(Arrived) /\ d # <<>> /\ Fits(d, limits)
                       /\ Range(d) \subseteq Range(b)
                       /\ d = e \/ Range(d) \cap Range(e) = {}
                       /\ Fits(b, limits) => d = b
  <2> DEFINE T == Arrived
  <2>1. b \in Seq(T) /\ T \in SUBSET Messages
    BY <1>9, Basics
  <2> HIDE DEF T
  <2> QED
    BY <1>5, <1>9, <2>1, PartsOf DEF T
<1>11. ~endpoint.batching => \A d \in N : Len(d) = 1
  <2> SUFFICES ASSUME ~endpoint.batching, NEW d \in N PROVE Len(d) = 1
    OBVIOUS
  <2>1. d \in Seq(Arrived) /\ d # <<>> /\ Len(d) <= 1
    BY <1>9, <1>10 DEF Fits
  <2>2. Len(d) \in Nat /\ Len(d) # 0
    BY <2>1, EmptySeq, LenProperties
  <2>3. \A n \in Nat : n # 0 /\ n <= 1 => n = 1
    OBVIOUS
  <2>4. Len(d) <= 1
    BY <2>1
  <2> QED
    BY <2>2, <2>3, <2>4
<1>12. ASSUME ~restarted, endpoint.batching, NEW d \in N, NEW e \in Made \union N, Meet(d, e)
       PROVE  MayMeet(d, e)
  <2>1. CASE Fits(b, limits)
    <3>1. d = b /\ e \in Made
      BY <1>3, <1>9, <1>10, <1>12, <2>1
    <3> QED
      BY <1>3, <1>12, <3>1 DEF Apart
  <2>2. CASE ~Fits(b, limits)
    <3>1. \A x \in N : PieceOf(x, b)
      BY <1>4, <1>5, <2>2 DEF PieceOf
    <3>2. CASE e \in N
      BY <1>10, <1>12, <3>2 DEF Meet, MayMeet
    <3>3. CASE e \in Made
      <4>1. Meet(b, e)
        BY <1>10, <1>12 DEF Meet
      <4>2. MayMeet(b, e)
        BY <1>3, <1>12, <3>3, <4>1 DEF Apart
      <4>3. CASE b = e
        BY <3>1, <4>3 DEF MayMeet
      <4>4. CASE PieceOf(e, b)
        <5>1. e \in N
          BY <1>4, <1>5, <4>4 DEF PieceOf
        <5> QED
          BY <3>2, <5>1
      <4>5. CASE PieceOf(b, e)
        <5> DEFINE T == Arrived
        <5>1. e \in Seq(T) /\ IsInjective(e) /\ T \in SUBSET Messages
          BY <3>3, MadeOf, Basics
        <5>2. b \in Range(Cut(e, limits))
          BY <1>4, <4>5 DEF PieceOf
        <5> HIDE DEF T
        <5>3. Fits(b, limits)
          BY <1>9, <5>1, <5>2, PartsOf
        <5> QED
          BY <2>2, <5>3
      <4> QED
        BY <4>2, <4>3, <4>4, <4>5 DEF MayMeet
    <3> QED
      BY <3>2, <3>3
  <2> QED
    BY <2>1, <2>2
<1>13. ASSUME ~restarted, NEW k \in Conversations, NEW d \in Made \union N
       PROVE  ~Meet(buffer'[k], d)
  <2>1. ~Meet(buffer[k], b) /\ (d \in Made => ~Meet(buffer[k], d))
    BY <1>3, <1>13 DEF Apart
  <2>2. d \in N => ~Meet(buffer[k], d)
    BY <1>10, <2>1 DEF Meet
  <2> QED
    BY <1>1, <2>1, <2>2
<1>14. Apart'
  <2>1. ~restarted /\ endpoint.batching =>
            \A x \in N : \A d \in Made \union N : Meet(x, d) => MayMeet(x, d)
    BY <1>12
  <2>2. ~restarted => \A k \in Conversations : \A d \in Made \union N : ~Meet(buffer'[k], d)
    BY <1>13
  <2> QED
    BY <1>1, <1>8, <1>11, <2>1, <2>2, ApartGrows
<1>15. ASSUME NEW m \in Messages, Seen(m)' PROVE Seen(m)
  <2>1. CASE \E d \in Made' : m \in Range(d)
    BY <1>3, <1>8, <1>10, <2>1 DEF Seen
  <2>2. CASE \E k \in Conversations : m \in Range(buffer[k])
    BY <2>2 DEF Seen
  <2>3. CASE replies[m] > 0
    BY <2>3 DEF Seen
  <2> QED
    BY <1>1, <1>15, <2>1, <2>2, <2>3 DEF Seen
<1> QED
  BY <1>14, <1>15

\* A message that joins what its conversation has gathered was in no batch.
LEMMA MessagePassedApart ==
    ASSUME Types, Apart, Undisturbed => HandedOnce, MessagePassed
    PROVE  /\ Apart'
           /\ \A m \in Messages : Seen(m)' => Seen(m) \/ (m = Current /\ poll.at = "buffer")
<1>1. /\ Arrived' = Arrived /\ UNCHANGED <<endpoint, restarted, turns, flushers, retry, replies>>
      /\ service = "polling" /\ poll.page # <<>> /\ poll.at \in {"buffer", "flush"}
  BY DEF MessagePassed, OnPage, configVars, remoteVars, historyVars, Arrived, Wanted
<1>2. Made' = Made
  BY <1>1 DEF Made, InFlight, Retried
<1>3. CASE poll.at = "flush"
  <2>1. AddsNothing
    BY <1>1, <1>3, NothingNew DEF MessagePassed, OnPage
  <2> QED
    BY <1>1, <2>1, ApartKept, SeenKept
<1>4. CASE poll.at = "buffer"
  <2> DEFINE m == Current
             k == Conversation[m]
             s == buffer[k]
  <2>1. Enqueue(m)
    BY <1>4 DEF MessagePassed, OnPage
  <2>2. m \in Arrived /\ m \in Messages /\ endpoint.batching
    BY <1>1, <1>4, PageOf, Basics DEF Arrived, Types, Page
  <2>3. k \in Conversations
    BY <2>2 DEF Conversations
  <2>4. s \in Seq(Arrived)
    BY <2>3 DEF Types, Sequences, BatchOf, Sequence
  <2>5. buffer' = [c \in Conversations |-> IF c = k THEN Append(s, m) ELSE buffer[c]]
    BY <2>1, <2>3 DEF Enqueue, Types, Sequences
  <2>6. ~restarted => ~Seen(m)
    BY <1>4, <2>2 DEF Undisturbed, HandedOnce
  <2> HIDE DEF m, k, s
  <2>7. Range(Append(s, m)) = Range(s) \union {m}
    <3> DEFINE T == Arrived
    <3>1. s \in Seq(T) /\ m \in T
      BY <2>2, <2>4
    <3> HIDE DEF T
    <3> QED
      BY <3>1, AppendRange
  <2>8. ASSUME NEW c \in Conversations, NEW x, x \in Range(buffer'[c])
        PROVE  x \in Range(buffer[c]) \/ x = m
    BY <2>5, <2>7, <2>8 DEF s
  <2>9. ASSUME ~restarted, NEW c \in Conversations, NEW b \in Made PROVE ~Meet(buffer'[c], b)
    <3>1. ~Meet(buffer[c], b) /\ m \notin Range(b)
      BY <2>6, <2>9 DEF Apart, Seen
    <3> QED
      BY <2>8, <3>1 DEF Meet
  <2>10. Apart'
    <3> DEFINE N == {}
    <3>1. /\ Made' \subseteq Made \union N /\ \A b \in N : Len(b) = 1
          /\ \A b \in N : \A d \in Made \union N : Meet(b, d) => MayMeet(b, d)
      BY <1>2
    <3>2. ~restarted => \A c \in Conversations : \A b \in Made \union N : ~Meet(buffer'[c], b)
      BY <2>9
    <3> HIDE DEF N
    <3> QED
      BY <1>1, <3>1, <3>2, ApartGrows
  <2>11. ASSUME NEW x \in Messages, Seen(x)' PROVE Seen(x) \/ x = m
    BY <1>1, <1>2, <2>8, <2>11 DEF Seen
  <2> QED
    BY <1>4, <2>10, <2>11 DEF m
<1> QED
  BY <1>1, <1>3, <1>4

LEMMA TakeUpdateApart ==
    ASSUME Types, Apart, TakeUpdate
    PROVE  Apart'
<1>1. /\ UNCHANGED <<configVars, sent, historyVars, restarted, buffer, retry>> /\ OnPage("next")
      /\ Arrived' = Arrived /\ UNCHANGED <<endpoint, turns, replies>>
  BY DEF TakeUpdate, configVars, remoteVars, historyVars, Arrived, Wanted
<1>2. CASE UNCHANGED flushers
  BY <1>1, <1>2, NothingNew, ApartKept
<1>3. CASE StoreAndPass(Current)
  BY <1>1, <1>3, StoreApart
<1> QED
  BY <1>2, <1>3 DEF TakeUpdate

LEMMA StoreEventApart ==
    ASSUME Types, Apart, StoreEvent
    PROVE  Apart'
<1>1. /\ UNCHANGED <<configVars, sent, historyVars, restarted, buffer, retry>> /\ OnPage("store")
      /\ Arrived' = Arrived /\ UNCHANGED <<endpoint, turns, replies>>
  BY DEF StoreEvent, configVars, remoteVars, historyVars, Arrived, Wanted
<1>2. CASE UNCHANGED flushers
  BY <1>1, <1>2, NothingNew, ApartKept
<1>3. CASE StoreAndPass(Current)
  BY <1>1, <1>3, StoreApart
<1> QED
  BY <1>2, <1>3 DEF StoreEvent

LEMMA StepApart ==
    ASSUME Types, Counted, AtRest, Apart, Undisturbed => HandedOnce, Next
    PROVE  Apart'
<1>1. Arrived \subseteq Arrived' /\ endpoint' = endpoint /\ (restarted => restarted')
  BY ForwardOf DEF Forward
<1>2. CASE Send \/ Fetch \/ ClaimEvent \/ StoreRaises \/ GiveClaimBack \/ EndPage \/ StartPolling
  <2>1. UNCHANGED <<flushers, retry, turns, buffer, replies>>
    BY <1>2 DEF Send, Fetch, ClaimEvent, StoreRaises, GiveClaimBack, EndPage, StartPolling,
       coalescerVars, historyVars
  <2> QED
    BY <1>1, <2>1, NothingNew, ApartKept
<1>3. CASE TakeUpdate \/ StoreEvent \/ MessagePassed
  BY <1>3, TakeUpdateApart, StoreEventApart, MessagePassedApart
<1>4. CASE PollFails
  BY <1>1, <1>4, PollFailsAdds, ApartKept
<1>5. CASE Start
  BY <1>1, <1>5, StartAdds, ApartKept DEF Start, historyVars
<1>6. CASE Stop \/ Stopped \/ Crash
  <2>1. restarted' /\ turns' = turns
    BY <1>6 DEF Stop, Stopped, Crash, ProcessEnds, historyVars
  <2> QED
    BY <1>1, <2>1, ApartKept
<1>7. CASE BackgroundStep
  <2>1. UNCHANGED <<configVars, remoteVars, restarted>>
    BY <1>7 DEF BackgroundStep
  <2>2. CASE FlushStep /\ UNCHANGED buffer
    <3>1. PICK f \in flushers :
            \/ \E result \in TurnResults : RunTurn(f, result)
            \/ Deliver(f) \/ MarkBatchProcessed(f) \/ ReleaseBatch(f)
      BY <2>2 DEF FlushStep
    <3>2. AddsNothing /\ turns' \subseteq turns \union Batches
      BY <2>2, <3>1, RunTurnAdds, DeliverAdds, MarkBatchAdds, ReleaseBatchAdds
    <3> QED
      BY <1>1, <3>2, ApartKept
  <2>3. CASE \E c \in Conversations : FlushAfterDelay(c)
    BY <2>1, <2>3, FlushAfterDelayApart
  <2>4. CASE \E c \in Conversations : MayRetry /\ RetryAfterDelay(c) /\ UNCHANGED buffer
    BY <2>1, <2>4, RetryAfterDelayApart
  <2> QED
    BY <1>7, <2>2, <2>3, <2>4 DEF BackgroundStep
<1>8. CASE HandledFailure
  <2>1. PICK f \in flushers : FlushFails(f)
    BY <1>8 DEF HandledFailure
  <2>2. UNCHANGED <<buffer, restarted>>
    BY <1>8 DEF HandledFailure
  <2> QED
    BY <1>1, <2>1, <2>2, FlushFailsAdds, ApartKept
<1> QED
  BY <1>2, <1>3, <1>4, <1>5, <1>6, <1>7, <1>8 DEF Next, PollStep

-----------------------------------------------------------------------------
(* Nothing is repeated: the poll hands a message out once *)

LEMMA HandedKept ==
    ASSUME Types, HandedOnce, \A m \in Messages : Seen(m)' => Seen(m),
           UNCHANGED <<endpoint, poll, claims, cursor>>
    PROVE  HandedOnce'
<1>1. poll.at \in {"store", "giveback", "buffer"} => Current \in Messages
  BY PageOf, Basics DEF Types, Page
<1>2. Current' = Current /\ Telegram' = Telegram
  BY DEF Current, Telegram
<1> HIDE DEF Current
<1> QED
  BY <1>1, <1>2 DEF HandedOnce

\* The poll is done with a message, or begins or ends a page.
LEMMA HandedMoves ==
    ASSUME Types, HandedOnce, UNCHANGED endpoint, poll'.at \in {"idle", "next"},
           \A m \in Messages :
               Seen(m)' => Seen(m) \/ (m = Current /\ poll.at \in {"buffer", "flush"}),
           Telegram => /\ cursor' \in Nat /\ cursor <= cursor'
                       /\ poll.at \in {"buffer", "flush"} => Current < cursor',
           ~Telegram => claims \subseteq claims'
    PROVE  HandedOnce'
<1>1. Telegram' = Telegram
  BY DEF Telegram
<1>2. cursor \in Nat /\ Messages \subseteq Nat
  BY Basics, MessagesAssumption DEF Types, Numbers
<1>3. ASSUME NEW m \in Messages, Seen(m)', Telegram PROVE m < cursor'
  <2>1. m < cursor \/ (m = Current /\ poll.at \in {"buffer", "flush"})
    BY <1>3 DEF HandedOnce
  <2> QED
    BY <1>2, <1>3, <2>1
<1>4. ASSUME NEW m \in Messages, Seen(m)', ~Telegram PROVE m \in claims'
  <2>1. m \in claims
    BY <1>4 DEF HandedOnce, Types, Behind
  <2> QED
    BY <1>4, <2>1
<1> QED
  BY <1>1, <1>3, <1>4 DEF HandedOnce

\* The message the poll stores is seen from now on if it is flushed at once.
LEMMA StoreSeen ==
    ASSUME Types, StoreAndPass(Current), OnPage("next") \/ OnPage("store"),
           UNCHANGED <<turns, replies, buffer, retry>>
    PROVE  /\ poll'.at \in {"buffer", "flush"} /\ Current' = Current
           /\ \A m \in Messages : Seen(m)' => Seen(m) \/ (poll'.at = "flush" /\ m = Current)
<1>1. CASE endpoint.batching
  <2>1. PollAt("buffer") /\ flushers' = flushers
    BY <1>1 DEF StoreAndPass
  <2> QED
    BY <2>1, PollAtOf, NothingNew, SeenKept
<1>2. CASE ~endpoint.batching
  <2>1. PICK m : m = Current
    OBVIOUS
  <2>2. PollAt("flush") /\ flushers' = flushers \union {Flusher("poll", <<<<m>>>>)}
    BY <1>2, <2>1 DEF StoreAndPass
  <2> DEFINE b == <<m>>
  <2>3. Range(<<b>>) = {b}
    BY DEF Range
  <2>4. Range(b) = {m}
    BY DEF Range
  <2> HIDE DEF b
  <2>5. Flusher("poll", <<b>>).left = <<b>>
    BY DEF Flusher
  <2>6. InFlight' \subseteq InFlight \union {b}
    BY <2>2, <2>3, <2>5 DEF InFlight, b
  <2>7. Made' \subseteq Made \union {b}
    BY <2>6 DEF Made, Retried
  <2>8. poll'.at = "flush" /\ Current' = Current
    BY <2>2, PollAtOf
  <2>9. ASSUME NEW x \in Messages, Seen(x)' PROVE Seen(x) \/ x = m
    BY <2>4, <2>7, <2>9 DEF Seen
  <2> QED
    BY <2>1, <2>8, <2>9
<1> QED
  BY <1>1, <1>2

LEMMA StoreHanded ==
    ASSUME Types, StoreAndPass(Current), OnPage("next") \/ OnPage("store"),
           UNCHANGED <<endpoint, claims, cursor, turns, replies, buffer, retry>>,
           HandedOnce, ~Seen(Current), ~Telegram => Current \in claims
    PROVE  HandedOnce'
<1>1. Telegram' = Telegram
  BY DEF Telegram
<1>2. poll.at # "flush" /\ Current \in Messages
  BY PageOf, Basics DEF OnPage
<1>3. \A m \in Messages : Seen(m) => IF Telegram THEN m < cursor ELSE m \in claims
  BY <1>2 DEF HandedOnce
<1>4. PICK k : k = Current
  OBVIOUS
<1>5. /\ poll'.at \in {"buffer", "flush"} /\ Current' = k
      /\ \A m \in Messages : Seen(m)' => Seen(m) \/ (poll'.at = "flush" /\ m = k)
  BY <1>4, StoreSeen
<1>6. poll'.at # "flush" => ~Seen(k)'
  BY <1>2, <1>4, <1>5
<1>7. poll'.at # "flush" => ~Seen(Current)'
  BY <1>5, <1>6 DEF Seen
<1> HIDE DEF Current
<1>8. \A m \in Messages : Seen(m)' =>
          IF Telegram THEN m < cursor \/ (poll'.at = "flush" /\ m = k) ELSE m \in claims
  BY <1>3, <1>4, <1>5
<1> QED
  BY <1>1, <1>4, <1>5, <1>7, <1>8 DEF HandedOnce

LEMMA TakeUpdateHanded == Types /\ HandedOnce /\ TakeUpdate => HandedOnce'
<1> SUFFICES ASSUME Types, HandedOnce, TakeUpdate PROVE HandedOnce'
  OBVIOUS
<1>1. /\ Telegram /\ OnPage("next") /\ poll.page # <<>> /\ poll.at = "next"
      /\ UNCHANGED <<endpoint, claims, turns, replies, buffer, retry>>
  BY DEF TakeUpdate, OnPage, configVars, historyVars
<1>2. CASE StoreAndPass(Current) /\ UNCHANGED cursor
  BY <1>1, <1>2, Fresh, StoreHanded
<1>3. CASE UpdateHandled(Current) /\ UNCHANGED flushers
  <2>1. cursor' = Current + 1 /\ NextOnPage
    BY <1>1, <1>3, UpdateHandledTypes
  <2>2. poll'.at = "next"
    BY <1>1, <2>1, NextOnPageOf
  <2>3. Current \in Nat /\ cursor \in Nat /\ cursor <= Current
    BY <1>1, PageOf, Basics DEF Types, Behind, Numbers
  <2>4. cursor' \in Nat /\ cursor <= cursor'
    BY <2>1, <2>3
  <2>5. \A m \in Messages : Seen(m)' => Seen(m)
    BY <1>1, <1>3, NothingNew, SeenKept
  <2> QED
    BY <1>1, <2>2, <2>4, <2>5, HandedMoves
<1> QED
  BY <1>2, <1>3 DEF TakeUpdate

\* An event nobody has claimed is one nobody has.
LEMMA ClaimEventHanded == Types /\ HandedOnce /\ ClaimEvent => HandedOnce'
<1> SUFFICES ASSUME Types, HandedOnce, ClaimEvent PROVE HandedOnce'
  OBVIOUS
<1>1. /\ ~Telegram /\ poll.page # <<>> /\ poll.at = "next" /\ claims' = claims \union {Current}
      /\ UNCHANGED <<endpoint, flushers, turns, replies, buffer, retry>>
  BY DEF ClaimEvent, OnPage, configVars, coalescerVars
<1>2. \A m \in Messages : Seen(m)' => Seen(m)
  BY <1>1, NothingNew, SeenKept
<1>3. CASE NextOnPage
  <2>1. poll'.at = "next"
    BY <1>1, <1>3, NextOnPageOf
  <2> QED
    BY <1>1, <1>2, <2>1, HandedMoves
<1>4. ASSUME NEW step \in {"store", "giveback"}, Current \notin claims, PollAt(step)
      PROVE  HandedOnce'
  <2>1. PICK k : k = Current
    OBVIOUS
  <2>2. k \in Messages /\ ~Seen(k)
    BY <1>1, <1>4, <2>1, PageOf, Basics DEF HandedOnce
  <2>3. Current' = k
    BY <1>4, <2>1, PollAtOf
  <2>4. ~Seen(Current)'
    <3>1. ~Seen(k)'
      BY <1>2, <2>2
    <3> QED
      BY <2>3, <3>1 DEF Seen
  <2>5. ~Telegram' /\ Current' \in claims'
    BY <1>1, <2>1, <2>3 DEF Telegram
  <2>6. \A m \in Messages : Seen(m)' => m \in claims'
    BY <1>1, <1>2 DEF HandedOnce
  <2> QED
    BY <2>4, <2>5, <2>6 DEF HandedOnce
<1> QED
  BY <1>3, <1>4 DEF ClaimEvent

LEMMA StoreEventHanded == Types /\ HandedOnce /\ StoreEvent => HandedOnce'
<1> SUFFICES ASSUME Types, HandedOnce, StoreEvent PROVE HandedOnce'
  OBVIOUS
<1>1. /\ OnPage("store") /\ poll.page # <<>> /\ poll.at = "store"
      /\ UNCHANGED <<endpoint, claims, cursor, turns, replies, buffer, retry>>
  BY DEF StoreEvent, OnPage, configVars, historyVars
<1>2. ~Telegram /\ ~Seen(Current) /\ Current \in claims
  BY <1>1 DEF Types, Page, Behind, HandedOnce
<1>3. CASE StoreAndPass(Current)
  BY <1>1, <1>2, <1>3, StoreHanded
<1>4. CASE NextOnPage /\ UNCHANGED flushers
  <2>1. poll'.at = "next"
    BY <1>1, <1>4, NextOnPageOf
  <2>2. \A m \in Messages : Seen(m)' => Seen(m)
    BY <1>1, <1>4, NothingNew, SeenKept
  <2> QED
    BY <1>1, <1>2, <2>1, <2>2, HandedMoves
<1> QED
  BY <1>3, <1>4 DEF StoreEvent

LEMMA StoreRaisesHanded == Types /\ HandedOnce /\ StoreRaises => HandedOnce'
<1> SUFFICES ASSUME Types, HandedOnce, StoreRaises PROVE HandedOnce'
  OBVIOUS
<1>1. /\ poll.page # <<>> /\ poll.at = "store" /\ PollAt("giveback")
      /\ UNCHANGED <<endpoint, claims, cursor, flushers, turns, replies, buffer, retry>>
  BY DEF StoreRaises, OnPage, configVars, historyVars
<1>2. PICK k : k = Current
  OBVIOUS
<1>3. poll'.at = "giveback" /\ Current' = k /\ k \in Messages
  BY <1>1, <1>2, PollAtOf, PageOf, Basics
<1>4. \A m \in Messages : Seen(m)' => Seen(m)
  BY <1>1, NothingNew, SeenKept
<1>5. ~Seen(k)'
  BY <1>1, <1>2, <1>3, <1>4 DEF HandedOnce
<1>6. ~Seen(Current)'
  BY <1>3, <1>5 DEF Seen
<1>7. \A m \in Messages : Seen(m) => IF Telegram THEN m < cursor ELSE m \in claims
  BY <1>1 DEF HandedOnce
<1> QED
  BY <1>1, <1>4, <1>6, <1>7 DEF HandedOnce, Telegram

\* What the poll gives back nobody has.
LEMMA GiveClaimBackHanded == Types /\ HandedOnce /\ GiveClaimBack => HandedOnce'
<1> SUFFICES ASSUME Types, HandedOnce, GiveClaimBack PROVE HandedOnce'
  OBVIOUS
<1>1. /\ poll.at = "giveback" /\ poll' = Idle /\ claims' = claims \ {Current}
      /\ UNCHANGED <<endpoint, flushers, turns, replies, buffer, retry>>
  BY DEF GiveClaimBack, OnPage, configVars, coalescerVars
<1>2. \A m \in Messages : Seen(m)' => Seen(m) /\ m # Current
  BY <1>1, NothingNew, SeenKept DEF HandedOnce
<1>3. ~Telegram' /\ poll'.at = "idle"
  BY <1>1 DEF Types, Page, Telegram, Idle
<1>4. \A m \in Messages : Seen(m) => m \in claims
  BY <1>1 DEF Types, Page, HandedOnce
<1> QED
  BY <1>1, <1>2, <1>3, <1>4 DEF HandedOnce

LEMMA MessagePassedHanded ==
    ASSUME Types, Apart, HandedOnce, MessagePassed
    PROVE  HandedOnce'
<1>1. /\ poll.page # <<>> /\ poll.at \in {"buffer", "flush"} /\ UNCHANGED <<endpoint, claims>>
      /\ IF Telegram THEN UpdateHandled(Current) ELSE NextOnPage
  BY DEF MessagePassed, OnPage, configVars
<1>2. \A m \in Messages : Seen(m)' => Seen(m) \/ (m = Current /\ poll.at \in {"buffer", "flush"})
  BY MessagePassedApart
<1>3. NextOnPage /\ (Telegram => cursor' = Current + 1)
  BY <1>1, UpdateHandledTypes
<1>4. poll'.at = "next"
  BY <1>1, <1>3, NextOnPageOf
<1>5. Telegram => /\ cursor' \in Nat /\ cursor <= cursor'
                  /\ poll.at \in {"buffer", "flush"} => Current < cursor'
  <2> SUFFICES ASSUME Telegram PROVE cursor' \in Nat /\ cursor <= cursor' /\ Current < cursor'
    OBVIOUS
  <2>1. Current \in Nat /\ cursor \in Nat /\ cursor <= Current
    BY <1>1, PageOf, Basics DEF Types, Behind, Numbers
  <2> QED
    BY <1>3, <2>1
<1> QED
  BY <1>1, <1>2, <1>4, <1>5, HandedMoves

\* The first start finds nothing.
LEMMA StartHanded ==
    ASSUME Types, AtRest, Start, ~restarted
    PROVE  HandedOnce'
<1>1. flushers' = {} /\ service = "down" /\ UNCHANGED <<turns, retry, replies, buffer, poll>>
  BY StartAdds DEF Start, historyVars
<1>2. /\ turns = {} /\ \A c \in Conversations : retry[c] = <<>>
      /\ \A m \in Messages : replies[m] = 0
  BY <1>1 DEF AtRest
<1>3. Made' = {}
  BY <1>1, <1>2 DEF Made, InFlight, Retried
<1>4. \A c \in Conversations : buffer[c] = <<>>
  BY <1>1 DEF Types, Behind
<1>5. poll'.at = "idle"
  BY <1>1 DEF Types, Page
<1>6. ASSUME NEW m \in Messages PROVE ~Seen(m)'
  BY <1>1, <1>2, <1>3, <1>4, EmptyOf DEF Seen
<1> QED
  BY <1>5, <1>6 DEF HandedOnce

LEMMA StepHanded ==
    ASSUME Types, Counted, AtRest, Apart, Undisturbed => HandedOnce, Next, Undisturbed'
    PROVE  HandedOnce'
<1>1. HandedOnce /\ ~restarted /\ ~restarted'
  BY ForwardOf DEF Undisturbed
<1>2. CASE Send \/ StartPolling
  <2>1. /\ UNCHANGED <<endpoint, poll, claims, cursor>>
        /\ UNCHANGED <<flushers, retry, turns, buffer, replies>>
    BY <1>2 DEF Send, StartPolling, configVars, coalescerVars
  <2> QED
    BY <1>1, <2>1, NothingNew, SeenKept, HandedKept
<1>3. CASE Fetch \/ EndPage
  <2>1. /\ UNCHANGED <<endpoint, flushers, retry, turns, buffer, replies, claims>>
        /\ poll.at \notin {"buffer", "flush"} /\ (Telegram => cursor' = cursor)
    BY <1>3 DEF Fetch, EndPage, configVars, coalescerVars, historyVars
  <2>2. poll'.at \in {"idle", "next"}
    BY <1>3 DEF Fetch, EndPage, Idle
  <2>3. cursor \in Nat /\ (Telegram => cursor' \in Nat /\ cursor <= cursor')
    BY <2>1, Basics DEF Types, Numbers
  <2> QED
    BY <1>1, <2>1, <2>2, <2>3, NothingNew, SeenKept, HandedMoves
<1>4. CASE \/ TakeUpdate \/ ClaimEvent \/ StoreEvent \/ MessagePassed
           \/ StoreRaises \/ GiveClaimBack
  BY <1>1, <1>4, TakeUpdateHanded, ClaimEventHanded, StoreEventHanded, MessagePassedHanded,
     StoreRaisesHanded, GiveClaimBackHanded
<1>5. CASE PollFails
  <2>1. poll.at = "flush" /\ endpoint' = endpoint /\ faults' = faults + 1 /\ faults \in Nat
    BY <1>5 DEF PollFails, OnPage, Fault, configVars, Counted
  <2>2. ~endpoint.batching
    BY <2>1 DEF Types, Page
  <2> QED
    BY <2>1, <2>2 DEF Undisturbed
<1>6. CASE Start
  BY <1>1, <1>6, StartHanded
<1>7. CASE Stop \/ Stopped \/ Crash
  BY <1>1, <1>7 DEF Stop, Stopped, Crash, ProcessEnds
<1>8. CASE BackgroundStep
  <2>1. UNCHANGED <<configVars, remoteVars, restarted>> /\ UNCHANGED <<endpoint, poll, claims, cursor>>
    BY <1>8 DEF BackgroundStep, configVars
  <2>2. CASE FlushStep /\ UNCHANGED buffer
    <3>1. PICK f \in flushers :
            \/ \E result \in TurnResults : RunTurn(f, result)
            \/ Deliver(f) \/ MarkBatchProcessed(f) \/ ReleaseBatch(f)
      BY <2>2 DEF FlushStep
    <3>2. AddsNothing
      BY <2>2, <3>1, RunTurnAdds, DeliverAdds, MarkBatchAdds, ReleaseBatchAdds
    <3> QED
      BY <1>1, <2>1, <3>2, SeenKept, HandedKept
  <2>3. CASE \E c \in Conversations : FlushAfterDelay(c)
    BY <1>1, <2>1, <2>3, FlushAfterDelayApart, HandedKept
  <2>4. CASE \E c \in Conversations : MayRetry /\ RetryAfterDelay(c) /\ UNCHANGED buffer
    BY <1>1, <2>1, <2>4, RetryAfterDelayApart, HandedKept
  <2> QED
    BY <1>8, <2>2, <2>3, <2>4 DEF BackgroundStep
<1>9. CASE HandledFailure
  <2>1. PICK f \in flushers : FlushFails(f)
    BY <1>9 DEF HandledFailure
  <2>2. UNCHANGED buffer /\ UNCHANGED <<endpoint, poll, claims, cursor>>
    BY <1>9 DEF HandledFailure, configVars
  <2> QED
    BY <1>1, <2>1, <2>2, FlushFailsAdds, SeenKept, HandedKept
<1> QED
  BY <1>2, <1>3, <1>4, <1>5, <1>6, <1>7, <1>8, <1>9 DEF Next, PollStep

-----------------------------------------------------------------------------
(* Nothing is repeated: without a fault nobody gets a second reply *)

\* Flushes may end, and what sleeps may go.
LEMMA RepliedKept ==
    ASSUME RepliedOnce, flushers' \subseteq flushers, UNCHANGED <<replies, restarted>>,
           service' # "stopping", \A c \in Conversations : retry'[c] = <<>>,
           \A c \in Conversations : Range(buffer'[c]) \subseteq Range(buffer[c])
    PROVE  RepliedOnce'
<1>1. \A f \in flushers' : Single(f)'
  BY DEF RepliedOnce, Single, Batch
<1>2. \A f, g \in flushers' : f = g \/ ~Meet(Batch(f), Batch(g))
  BY DEF RepliedOnce
<1> QED
  BY <1>1, <1>2 DEF RepliedOnce, Batch, Meet

\* A flusher takes its next step; only a delivery adds replies.
LEMMA RepliedAt ==
    ASSUME Types, Apart, RepliedOnce, UNCHANGED <<retry, buffer, restarted, service>>,
           NEW CONSTANT f \in flushers, NEW CONSTANT step, At(f, step),
           step \in {"turn", "deliver"} => f.at = "turn" /\ replies' = replies,
           \A m \in Messages : replies'[m] <= 1,
           \A m \in Messages : m \notin Range(Batch(f)) => replies'[m] = replies[m]
    PROVE  RepliedOnce'
<1> DEFINE h == [f EXCEPT !.at = step]
<1>1. f = [by |-> f.by, left |-> f.left, at |-> f.at]
  BY DEF Types, Flushes, FlusherOK
<1>2. h.left = f.left /\ h.at = step
  BY <1>1
<1>3. flushers' = (flushers \ {f}) \union {h}
  BY DEF At
<1> HIDE DEF h
<1>4. Batch(h) = Batch(f)
  BY <1>2 DEF Batch
<1>5. Single(f)
  BY DEF RepliedOnce
<1>6. Single(h)'
  <2>1. h.left = <<Batch(h)>>
    BY <1>2, <1>4, <1>5 DEF Single
  <2>2. step \in {"turn", "deliver"} => \A m \in Range(Batch(f)) : replies'[m] = 0
    BY <1>5 DEF Single
  <2> QED
    BY <1>2, <1>4, <2>1, <2>2 DEF Single, Batch
<1>7. ASSUME NEW g \in flushers, g # f PROVE Single(g)'
  <2>1. Single(g) /\ ~Meet(Batch(f), Batch(g)) /\ Range(Batch(g)) \subseteq Messages
    BY <1>7, BatchMade, MadeOf DEF RepliedOnce
  <2>2. \A m \in Range(Batch(g)) : replies'[m] = replies[m]
    BY <2>1 DEF Meet
  <2> QED
    BY <2>1, <2>2 DEF Single, Batch
<1>8. ASSUME NEW c \in Conversations, NEW m \in Range(buffer[c]) PROVE replies'[m] = 0
  <2>1. ~Meet(buffer[c], Batch(f))
    BY BatchMade DEF Apart, RepliedOnce
  <2>2. Range(buffer[c]) \subseteq Messages
    <3>1. buffer[c] \in Seq(Arrived)
      BY DEF Types, Sequences, BatchOf, Sequence
    <3> QED
      BY <3>1, RangeOf, Basics
  <2>3. m \notin Range(Batch(f)) /\ m \in Messages
    BY <2>1, <2>2 DEF Meet
  <2> QED
    BY <2>3 DEF RepliedOnce
<1>9. ASSUME NEW g \in flushers', NEW k \in flushers' PROVE g = k \/ ~Meet(Batch(g), Batch(k))
  <2>1. \A x, y \in flushers : x = y \/ ~Meet(Batch(x), Batch(y))
    BY DEF RepliedOnce
  <2> QED
    BY <1>3, <1>4, <1>9, <2>1
<1>10. \A g \in flushers' : Single(g)'
  BY <1>3, <1>6, <1>7
<1> QED
  BY <1>8, <1>9, <1>10 DEF RepliedOnce, Batch, Meet

\* A flush of messages nobody flushes or has answered begins.
LEMMA RepliedAdds ==
    ASSUME RepliedOnce, UNCHANGED <<retry, replies, restarted, service>>,
           NEW CONSTANT by, NEW CONSTANT b, flushers' = flushers \union {Flusher(by, <<b>>)},
           \A f \in flushers : ~Meet(Batch(f), b), \A m \in Range(b) : replies[m] = 0,
           \A c \in Conversations : Range(buffer'[c]) \subseteq Range(buffer[c])
    PROVE  RepliedOnce'
<1> DEFINE h == Flusher(by, <<b>>)
<1>1. h.left = <<b>> /\ Batch(h) = b
  BY DEF Flusher, Batch
<1>2. Single(h)'
  BY <1>1 DEF Single, Batch
<1> HIDE DEF h
<1>3. flushers' = flushers \union {h}
  BY DEF h
<1>4. \A f \in flushers' : Single(f)'
  BY <1>2, <1>3 DEF RepliedOnce, Single, Batch
<1>5. ASSUME NEW g \in flushers', NEW k \in flushers' PROVE g = k \/ ~Meet(Batch(g), Batch(k))
  <2>1. \A x, y \in flushers : x = y \/ ~Meet(Batch(x), Batch(y))
    BY DEF RepliedOnce
  <2>2. \A x \in flushers : ~Meet(Batch(x), Batch(h)) /\ ~Meet(Batch(h), Batch(x))
    BY <1>1 DEF Meet
  <2> QED
    BY <1>3, <1>5, <2>1, <2>2
<1> QED
  BY <1>4, <1>5 DEF RepliedOnce, Batch, Meet

\* A flusher is done with its only batch.
LEMMA OneLeft ==
    ASSUME RepliedOnce, NEW CONSTANT f \in flushers, NEW CONSTANT by, NextBatch(f, by)
    PROVE  flushers' = flushers \ {f}
<1>1. f.left = <<Batch(f)>>
  BY DEF RepliedOnce, Single
<1>2. \A b : Tail(<<b>>) = <<>>
  OBVIOUS
<1>3. Tail(f.left) = <<>>
  BY <1>1, <1>2
<1> QED
  BY <1>3 DEF NextBatch, FlushersFor

LEMMA StoreReplied ==
    ASSUME Types, Counted, RepliedOnce, StoreAndPass(Current), OnPage("next") \/ OnPage("store"),
           ~Seen(Current), UNCHANGED <<restarted, service, replies, buffer, retry>>
    PROVE  RepliedOnce'
<1>1. PICK m : m = Current
  OBVIOUS
<1>2. m \in Messages
  BY <1>1, PageOf, Basics DEF OnPage
<1>3. CASE endpoint.batching
  BY <1>3, RepliedKept DEF StoreAndPass, RepliedOnce
<1>4. CASE ~endpoint.batching
  <2> DEFINE b == <<m>>
  <2>1. flushers' = flushers \union {Flusher("poll", <<b>>)}
    BY <1>1, <1>4 DEF StoreAndPass
  <2>2. Range(b) = {m}
    BY DEF Range
  <2> HIDE DEF b
  <2>3. \A f \in flushers : m \notin Range(Batch(f))
    BY <1>1, <1>2, BatchMade DEF Seen
  <2>4. replies[m] = 0
    <3>1. replies[m] \in 0..2
      BY <1>2 DEF Counted
    <3> QED
      BY <1>1, <3>1 DEF Seen
  <2>5. \A f \in flushers : ~Meet(Batch(f), b)
    BY <2>2, <2>3 DEF Meet
  <2> QED
    BY <2>1, <2>2, <2>4, <2>5, RepliedAdds
<1> QED
  BY <1>3, <1>4

\* A message that joins a batch has no reply yet.
LEMMA MessagePassedReplied ==
    ASSUME Types, Counted, RepliedOnce, HandedOnce, MessagePassed
    PROVE  RepliedOnce'
<1>1. UNCHANGED <<flushers, replies, retry, restarted, service>>
  BY DEF MessagePassed, historyVars
<1>2. CASE poll.at = "flush"
  <2>1. UNCHANGED buffer
    BY <1>2 DEF MessagePassed, OnPage
  <2> QED
    BY <1>1, <2>1, RepliedKept DEF RepliedOnce
<1>3. CASE poll.at = "buffer"
  <2>1. PICK m : m = Current
    OBVIOUS
  <2>2. Enqueue(m) /\ m \in Messages /\ m \in Arrived
    BY <1>3, <2>1, PageOf, Basics DEF MessagePassed, OnPage, Arrived, Types, Page
  <2>3. replies[m] = 0
    <3>1. replies[m] \in 0..2
      BY <2>2 DEF Counted
    <3> QED
      BY <1>3, <2>1, <3>1 DEF HandedOnce, Seen
  <2>4. ASSUME NEW c \in Conversations, NEW x, x \in Range(buffer'[c])
        PROVE  x \in Range(buffer[c]) \/ x = m
    <3>1. buffer' = [buffer EXCEPT ![Conversation[m]] = Append(@, m)]
      BY <2>2 DEF Enqueue
    <3>2. buffer = [k \in Conversations |-> buffer[k]] /\ buffer[c] \in Seq(Arrived)
      BY DEF Types, Sequences, BatchOf, Sequence
    <3>3. buffer'[c] = buffer[c] \/ buffer'[c] = Append(buffer[c], m)
      BY <3>1, <3>2
    <3>4. Range(Append(buffer[c], m)) = Range(buffer[c]) \union {m}
      <4> DEFINE s == buffer[c]
                 T == Arrived
      <4>1. s \in Seq(T) /\ m \in T
        BY <2>2, <3>2
      <4> HIDE DEF s, T
      <4>2. Range(Append(s, m)) = Range(s) \union {m}
        BY <4>1, AppendRange
      <4> QED
        BY <4>2 DEF s
    <3> QED
      BY <2>4, <3>3, <3>4
  <2>5. \A c \in Conversations : \A x \in Range(buffer'[c]) : replies'[x] = 0
    BY <1>1, <2>3, <2>4 DEF RepliedOnce
  <2>6. \A f \in flushers : Single(f)'
    BY <1>1 DEF RepliedOnce, Single, Batch
  <2> QED
    BY <1>1, <2>5, <2>6 DEF RepliedOnce, Batch, Meet
<1> QED
  BY <1>2, <1>3 DEF MessagePassed, OnPage

\* The batch that has slept long enough is in no flush.
LEMMA FlushAfterDelayReplied ==
    ASSUME Types, Apart, RepliedOnce, NEW CONSTANT c \in Conversations, FlushAfterDelay(c),
           UNCHANGED <<restarted, service>>
    PROVE  RepliedOnce'
<1>1. PICK b : b = buffer[c]
  OBVIOUS
<1>2. /\ flushers' = flushers \union {Flusher("timer", <<b>>)} /\ UNCHANGED <<retry, replies>>
      /\ buffer' = [buffer EXCEPT ![c] = <<>>]
  BY <1>1 DEF FlushAfterDelay, Popped
<1>3. \A k \in Conversations : Range(buffer'[k]) \subseteq Range(buffer[k])
  <2>1. buffer = [k \in Conversations |-> buffer[k]]
    BY DEF Types, Sequences
  <2>2. \A k \in Conversations : buffer'[k] = IF k = c THEN <<>> ELSE buffer[k]
    BY <1>2, <2>1
  <2> QED
    BY <2>2, EmptyOf
<1>4. \A f \in flushers : ~Meet(Batch(f), b)
  <2>1. \A f \in flushers : ~Meet(b, Batch(f))
    BY <1>1, BatchMade DEF Apart, RepliedOnce
  <2> QED
    BY <2>1 DEF Meet
<1>5. \A m \in Range(b) : replies[m] = 0
  BY <1>1 DEF RepliedOnce
<1> QED
  BY <1>2, <1>3, <1>4, <1>5, RepliedAdds

LEMMA FlushStepReplied ==
    ASSUME Types, Counted, Apart, RepliedOnce, NEW CONSTANT f \in flushers,
           \/ \E result \in TurnResults : RunTurn(f, result)
           \/ Deliver(f) \/ MarkBatchProcessed(f) \/ ReleaseBatch(f),
           UNCHANGED <<buffer, restarted, service>>
    PROVE  RepliedOnce'
<1>1. CASE \E result \in TurnResults : RunTurn(f, result)
  <2>1. UNCHANGED <<retry, replies>> /\ f.at = "turn" /\ \E step : At(f, step)
    BY <1>1 DEF RunTurn
  <2>2. \A m \in Messages : replies'[m] <= 1
    BY <2>1 DEF RepliedOnce
  <2> QED
    BY <2>1, <2>2, RepliedAt
<1>2. CASE Deliver(f)
  <2>1. PICK step : At(f, step) /\ step \in {"ack", "release"}
    BY <1>2 DEF Deliver, AfterReply
  <2>2. UNCHANGED retry /\ Reply(f) /\ f.at = "deliver"
    BY <1>2 DEF Deliver
  <2>3. /\ replies' \in [Messages -> 0..2]
        /\ \A m \in Messages : m \notin Range(Batch(f)) => replies'[m] = replies[m]
        /\ \A m \in Messages : replies'[m] <= replies[m] + 1
    BY <2>2, RepliesSeen
  <2>4. \A m \in Messages : m \in Range(Batch(f)) => replies[m] = 0
    BY <2>2 DEF RepliedOnce, Single
  <2>5. \A m \in Messages : replies'[m] <= 1
    <3> SUFFICES ASSUME NEW m \in Messages PROVE replies'[m] <= 1
      OBVIOUS
    <3>1. CASE m \in Range(Batch(f))
      BY <2>3, <2>4, <3>1
    <3>2. CASE m \notin Range(Batch(f))
      BY <2>3, <3>2 DEF RepliedOnce
    <3> QED
      BY <3>1, <3>2
  <2> QED
    BY <2>1, <2>2, <2>3, <2>5, RepliedAt
<1>3. CASE MarkBatchProcessed(f)
  <2>1. UNCHANGED <<retry, replies>> /\ At(f, "release")
    BY <1>3 DEF MarkBatchProcessed
  <2>2. \A m \in Messages : replies'[m] <= 1
    BY <2>1 DEF RepliedOnce
  <2> QED
    BY <2>1, <2>2, RepliedAt
<1>4. CASE ReleaseBatch(f)
  <2>1. UNCHANGED replies /\ NextBatch(f, f.by) /\ retry' = RetryAfter(f)
    BY <1>4 DEF ReleaseBatch
  <2>2. PICK by : by = f.by
    OBVIOUS
  <2>3. flushers' = flushers \ {f}
    BY <2>1, <2>2, OneLeft
  <2>4. \A c \in Conversations : retry'[c] = <<>>
    <3>1. retry = [c \in Conversations |-> retry[c]]
      BY DEF Types, Sequences
    <3> QED
      BY <2>1, <3>1 DEF RetryAfter, RepliedOnce
  <2> QED
    BY <2>1, <2>3, <2>4, RepliedKept DEF RepliedOnce
<1> QED
  BY <1>1, <1>2, <1>3, <1>4

LEMMA StepReplied ==
    ASSUME Types, Counted, AtRest, Apart, Undisturbed => HandedOnce, faults = 0 => RepliedOnce,
           Next, faults' = 0
    PROVE  RepliedOnce'
<1>1. RepliedOnce /\ HandedOnce /\ ~restarted /\ faults = 0 /\ service # "stopping"
  <2>1. faults = 0 /\ RepliedOnce
    BY ForwardOf
  <2> QED
    BY <2>1 DEF Undisturbed, RepliedOnce
<1>2. CASE Send \/ StartPolling \/ Fetch \/ ClaimEvent \/ GiveClaimBack \/ EndPage
  <2>1. /\ UNCHANGED <<flushers, replies, restarted, retry, buffer>> /\ service' # "stopping"
    BY <1>1, <1>2 DEF Send, StartPolling, Fetch, ClaimEvent, GiveClaimBack, EndPage,
       coalescerVars, historyVars
  <2> QED
    BY <1>1, <2>1, RepliedKept DEF RepliedOnce
<1>3. CASE TakeUpdate \/ StoreEvent
  <2>1. UNCHANGED <<replies, restarted, service, retry, buffer>>
    BY <1>3 DEF TakeUpdate, StoreEvent, historyVars
  <2>2. CASE UNCHANGED flushers
    BY <1>1, <2>1, <2>2, RepliedKept DEF RepliedOnce
  <2>3. CASE StoreAndPass(Current)
    <3>1. OnPage("next") \/ OnPage("store")
      BY <1>3 DEF TakeUpdate, StoreEvent
    <3>2. ~Seen(Current)
      BY <1>1, <1>3, Fresh DEF TakeUpdate, StoreEvent, OnPage, HandedOnce
    <3> QED
      BY <1>1, <2>1, <2>3, <3>1, <3>2, StoreReplied
  <2> QED
    BY <1>3, <2>2, <2>3 DEF TakeUpdate, StoreEvent
<1>4. CASE MessagePassed
  BY <1>1, <1>4, MessagePassedReplied
<1>5. CASE PollFails \/ StoreRaises \/ Stop \/ Crash \/ HandledFailure
  <2>1. faults' = faults + 1
    BY <1>5 DEF PollFails, StoreRaises, Stop, Crash, HandledFailure, FlushFails, Fault
  <2> QED
    BY <1>1, <2>1
<1>6. CASE Start
  <2>1. /\ flushers' = {} /\ UNCHANGED <<replies, restarted, retry, buffer>>
        /\ service' # "stopping"
    BY <1>1, <1>6, StartAdds DEF Start, historyVars
  <2> QED
    BY <1>1, <2>1, RepliedKept DEF RepliedOnce
<1>7. CASE Stopped
  BY <1>1, <1>7 DEF Stopped
<1>8. CASE BackgroundStep
  <2>1. UNCHANGED <<restarted, service>>
    BY <1>8 DEF BackgroundStep
  <2>2. CASE FlushStep /\ UNCHANGED buffer
    <3>1. PICK f \in flushers :
            \/ \E result \in TurnResults : RunTurn(f, result)
            \/ Deliver(f) \/ MarkBatchProcessed(f) \/ ReleaseBatch(f)
      BY <2>2 DEF FlushStep
    <3> QED
      BY <1>1, <2>1, <2>2, <3>1, FlushStepReplied
  <2>3. CASE \E c \in Conversations : FlushAfterDelay(c)
    BY <1>1, <2>1, <2>3, FlushAfterDelayReplied
  <2>4. CASE \E c \in Conversations : RetryAfterDelay(c)
    BY <1>1, <2>4 DEF RetryAfterDelay, RepliedOnce
  <2> QED
    BY <1>8, <2>2, <2>3, <2>4 DEF BackgroundStep
<1> QED
  BY <1>2, <1>3, <1>4, <1>5, <1>6, <1>7, <1>8 DEF Next, PollStep

-----------------------------------------------------------------------------
(* Nothing is repeated: the invariant and the theorem *)

LEMMA StepCounted ==
    ASSUME Types, Counted, Next
    PROVE  Counted'
<1>1. faults' \in Nat
  BY ForwardOf DEF Forward, Counted
<1>2. \/ UNCHANGED replies
      \/ \E f \in flushers : Reply(f) \/ UNCHANGED replies
  <2>1. CASE \/ Send \/ PollStep \/ StoreRaises
             \/ Start \/ StartPolling \/ Stop \/ Stopped \/ Crash
    BY <2>1 DEF Send, PollStep, Fetch, TakeUpdate, ClaimEvent, StoreEvent, GiveClaimBack,
       MessagePassed, EndPage, StoreRaises, Start, StartPolling, Stop, Stopped, Crash, ProcessEnds, coalescerVars, historyVars
  <2>2. CASE PollFails
    BY <2>2 DEF PollFails, Running, DeliveryTimesOut, FlushRaises
  <2>3. CASE BackgroundStep
    <3>1. CASE FlushStep
      BY <3>1 DEF FlushStep, RunTurn, Deliver, MarkBatchProcessed, ReleaseBatch
    <3>2. CASE \E c \in Conversations : FlushAfterDelay(c) \/ RetryAfterDelay(c)
      BY <3>2 DEF FlushAfterDelay, RetryAfterDelay
    <3> QED
      BY <2>3, <3>1, <3>2 DEF BackgroundStep
  <2>4. CASE HandledFailure
    BY <2>4 DEF HandledFailure, FlushFails, DeliveryTimesOut, FlushRaises
  <2> QED
    BY <2>1, <2>2, <2>3, <2>4 DEF Next
<1>3. replies' \in [Messages -> 0..2]
  BY <1>2, RepliesSeen DEF Counted
<1> QED
  BY <1>1, <1>3 DEF Counted

LEMMA StepAtRest ==
    ASSUME Types, AtRest, Next
    PROVE  AtRest'
<1>1. CASE Send
  BY <1>1 DEF Send, coalescerVars, AtRest
<1>2. CASE PollStep \/ PollFails \/ StoreRaises \/ Start \/ StartPolling \/ Stop
  <2>1. service' # "down"
    BY <1>2 DEF PollStep, Fetch, TakeUpdate, ClaimEvent, StoreEvent, GiveClaimBack, MessagePassed,
       EndPage, PollFails, StoreRaises, Start, StartPolling, Stop, OnPage
  <2> QED
    BY <2>1 DEF AtRest
<1>3. CASE Stopped \/ Crash
  BY <1>3 DEF Stopped, Crash, ProcessEnds, EmptyBuffer, AtRest
<1>4. CASE BackgroundStep \/ HandledFailure
  <2>1. service' = service
    BY <1>4 DEF BackgroundStep, HandledFailure
  <2>2. CASE service # "down"
    BY <2>1, <2>2 DEF AtRest
  <2>3. CASE service = "down"
    <3>1. flushers = {} /\ \A c \in Conversations : retry[c] = <<>> /\ buffer[c] = <<>>
      BY <2>3 DEF AtRest, Types, Behind
    <3> QED
      BY <1>4, <3>1 DEF BackgroundStep, HandledFailure, FlushStep, FlushAfterDelay, RetryAfterDelay
  <2> QED
    BY <2>2, <2>3
<1> QED
  BY <1>1, <1>2, <1>3, <1>4 DEF Next

LEMMA InitUnrepeated == Init => Unrepeated
<1> SUFFICES ASSUME Init PROVE Unrepeated
  OBVIOUS
<1>1. /\ flushers = {} /\ turns = {} /\ rows = <<>> /\ poll.at = "idle" /\ faults = 0
      /\ service = "down" /\ ~restarted
      /\ \A c \in Conversations : retry[c] = <<>> /\ buffer[c] = <<>>
      /\ replies = [m \in Messages |-> 0]
  BY DEF Init, Idle, EmptyBuffer
<1>2. Made = {}
  BY <1>1 DEF Made, InFlight, Retried
<1>3. Counted /\ AtRest /\ Apart
  BY <1>1, <1>2 DEF Counted, AtRest, Apart
<1>4. \A m \in Messages : ~Seen(m)
  BY <1>1, <1>2, EmptyOf DEF Seen
<1>5. HandedOnce
  BY <1>1, <1>4 DEF HandedOnce
<1>6. RepliedOnce
  BY <1>1, EmptyOf DEF RepliedOnce
<1> QED
  BY <1>3, <1>5, <1>6 DEF Unrepeated

LEMMA StutterUnrepeated == Types /\ Unrepeated /\ UNCHANGED vars => Unrepeated'
<1> SUFFICES ASSUME Types, Unrepeated, UNCHANGED vars PROVE Unrepeated'
  OBVIOUS
<1>1. /\ UNCHANGED <<flushers, retry, turns, buffer, replies, restarted, faults, service, rows>>
      /\ UNCHANGED <<endpoint, poll, claims, cursor>> /\ Arrived' = Arrived
  BY DEF vars, Arrived, Wanted
<1>2. /\ Counted /\ AtRest /\ Apart
      /\ Undisturbed => HandedOnce
      /\ faults = 0 => RepliedOnce
  BY DEF Unrepeated
<1>3. Counted' /\ AtRest'
  BY <1>1, <1>2 DEF Counted, AtRest
<1>4. AddsNothing
  BY <1>1, NothingNew
<1>5. Apart'
  BY <1>1, <1>2, <1>4, ApartKept
<1>6. Undisturbed' => HandedOnce'
  BY <1>1, <1>2, <1>4, SeenKept, HandedKept DEF Undisturbed
<1>7. faults' = 0 => RepliedOnce'
  BY <1>1, <1>2, RepliedKept DEF RepliedOnce
<1> QED
  BY <1>3, <1>5, <1>6, <1>7 DEF Unrepeated

LEMMA StepUnrepeated == Types /\ Unrepeated /\ [Next]_vars => Unrepeated'
<1> SUFFICES ASSUME Types, Unrepeated, [Next]_vars PROVE Unrepeated'
  OBVIOUS
<1>1. CASE UNCHANGED vars
  BY <1>1, StutterUnrepeated
<1>2. CASE Next
  <2>1. /\ Counted /\ AtRest /\ Apart
        /\ Undisturbed => HandedOnce
        /\ faults = 0 => RepliedOnce
    BY DEF Unrepeated
  <2>2. Counted' /\ AtRest' /\ Apart'
    BY <1>2, <2>1, StepCounted, StepAtRest, StepApart
  <2>3. Undisturbed' => HandedOnce'
    BY <1>2, <2>1, StepHanded
  <2>4. faults' = 0 => RepliedOnce'
    BY <1>2, <2>1, StepReplied
  <2> QED
    BY <2>2, <2>3, <2>4 DEF Unrepeated
<1> QED
  BY <1>1, <1>2

LEMMA UnrepeatedIsEnough == Types /\ Unrepeated => NoNeedlessRepeat
<1> SUFFICES ASSUME Types, Unrepeated PROVE NoNeedlessRepeat
  OBVIOUS
<1>1. Counted /\ Apart /\ (faults = 0 => RepliedOnce)
  BY DEF Unrepeated
<1>2. ASSUME NEW b \in turns, NEW d \in turns, b # d, Range(b) \cap Range(d) # {}, ~restarted
      PROVE  ~Fits(b, Limits) \/ ~Fits(d, Limits)
  <2>1. b \in Made /\ d \in Made /\ Meet(b, d)
    BY <1>2 DEF Made, Meet
  <2>2. CASE endpoint.batching
    BY <1>1, <1>2, <2>1, <2>2 DEF Apart, MayMeet, PieceOf
  <2>3. CASE ~endpoint.batching
    <3>1. Len(b) = 1 /\ Len(d) = 1
      BY <1>1, <1>2, <2>1, <2>3 DEF Apart
    <3>2. b \in Seq(Arrived) /\ d \in Seq(Arrived)
      BY <1>1, <2>1, MadeOf
    <3> DEFINE T == Arrived
    <3>3. b \in Seq(T) /\ d \in Seq(T)
      BY <3>2
    <3> HIDE DEF T
    <3>4. b = <<b[1]>> /\ d = <<d[1]>>
      BY <3>1, <3>3, LenProperties
    <3>5. \A x : Range(<<x>>) = {x}
      BY OneOf
    <3>6. Range(b) = {b[1]} /\ Range(d) = {d[1]}
      BY <3>4, <3>5
    <3>7. b[1] = d[1]
      BY <1>2, <3>6
    <3> QED
      BY <1>2, <3>4, <3>7
  <2> QED
    BY <2>2, <2>3
<1>3. ASSUME NEW m \in Messages, replies[m] > 1 PROVE faults > 0
  <2>1. replies[m] \in 0..2 /\ faults \in Nat
    BY <1>1 DEF Counted
  <2>2. faults # 0
    BY <1>1, <1>3, <2>1 DEF RepliedOnce
  <2> QED
    BY <2>1, <2>2
<1> QED
  BY <1>2, <1>3 DEF NoNeedlessRepeat

\* While the process lives no message gets into two turns, unless a retry cuts a
\* batch that has outgrown the limits, and without a fault nobody gets two replies:
\* whatever the limits and the order of debounces, polls, flushes and retries.
THEOREM RepeatsHaveNeed == Spec => []NoNeedlessRepeat
<1>1. Init => Types /\ Unrepeated
  BY InitTypes, InitUnrepeated
<1>2. Types /\ Unrepeated /\ [Next]_vars => Types' /\ Unrepeated'
  BY StepTypes, StepUnrepeated
<1>3. Types /\ Unrepeated => NoNeedlessRepeat
  BY UnrepeatedIsEnough
<1> QED
  BY <1>1, <1>2, <1>3, PTL DEF Spec

=============================================================================
